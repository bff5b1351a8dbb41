------------------------------- MODULE ShmRun -------------------------------
(***************************************************************************)
(* The single-guest shared-memory workflow (execute_workflow of            *)
(* scripts/run.py, guest/init.c).  The harness starts a CXLMemSim server,  *)
(* waits for the SHM object it creates, boots one QEMU through U-Boot,     *)
(* validates the console, stops what it started, and only then replaces    *)
(* the result of the last successful run.                                  *)
(*                                                                         *)
(* There are no reader threads here: Console.wait itself reads the pipe,   *)
(* at most one buffer at a time.                                           *)
(***************************************************************************)
EXTENDS RunnerScript

CONSTANT MaxFaults   \* bound: faults of the environment in one run

ASSUME ShmRunAssumption == MaxFaults \in Nat

VARIABLES
    phase,    \* where execute_workflow is
    hpc,      \* in phase "console": index of the next instruction
    start,    \* output offset of the current command
    cause,    \* why an exception is on its way out, or "none"
    shm,      \* the SHM object: "none", "foreign", "unready" or "ready"
    server,   \* "none", "running", "reported" (exited with statistics) or "killed"
    qemu,     \* "none", "running", "off" or "crashed"
    gpc,      \* index of the guest's next instruction
    stdin,    \* lines sent and not yet read
    pipe,     \* what QEMU has printed and the harness has not read
    output,   \* console.output
    linked,   \* QEMU's connection to the SHM object: "pending", "yes" or "failed"
    used,     \* the benchmark's requests went to the server
    result,   \* type3-shm-result.json: "old" or "new"
    tmp,      \* the temporary result file exists
    faults

hostVars == <<phase, hpc, start, cause, output>>
guestVars == <<gpc, pipe, linked, used>>
fileVars == <<result, tmp>>
vars == <<hostVars, guestVars, fileVars, shm, server, qemu, stdin, faults>>

-----------------------------------------------------------------------------
(* guest/init.c, after U-Boot.                                             *)
init_main ==
    Say("START") \o Work \o Say("DISK") \o Work \o Say("TOPOLOGY") \o Work \o
    Say("JSON") \o Say("PASS") \o Say("power_down") \o PowerOff

Guest == Prompts \o init_main

(* run_uboot_guest and finish_qemu.                                         *)
run_uboot_guest ==
    Await("qemu", "prompt") \o
    BootCommands("qemu") \o
    SendLine("qemu", "bootefi") \o Await("qemu", "PASS") \o <<[op |-> "validate"]>>

finish_qemu == Await("qemu", "power_down") \o AwaitExit("qemu")

Script == run_uboot_guest \o finish_qemu

-----------------------------------------------------------------------------
Init ==
    /\ phase = "check" /\ hpc = 1 /\ start = 0 /\ cause = "none"
    /\ shm \in {"none", "foreign"}
    /\ server = "none" /\ qemu = "none"
    /\ gpc = 1 /\ stdin = <<>> /\ pipe = <<>> /\ output = <<>>
    /\ linked = "pending" /\ used = FALSE
    /\ result = "old" /\ tmp = FALSE
    /\ faults = 0

Fault == faults < MaxFaults /\ faults' = faults + 1

-----------------------------------------------------------------------------
(* The server (external): it creates the object, marks it ready, and        *)
(* unlinks it when it ends in good order.                                   *)
ServerCreates ==
    /\ server = "running" /\ shm \in {"none", "unready"}
    /\ shm' = IF shm = "none" THEN "unready" ELSE "ready"
    /\ UNCHANGED <<hostVars, guestVars, fileVars, server, qemu, stdin, faults>>

ServerDies ==
    /\ server = "running"
    /\ Fault
    /\ server' = "killed"
    /\ UNCHANGED <<hostVars, guestVars, fileVars, shm, qemu, stdin>>

(* QEMU and the guest (external but for init.c).                           *)
At(op) == qemu = "running" /\ Guest[gpc].op = op
Prints(marker) == pipe' = Append(pipe, Line(marker))

QemuConnects ==
    /\ qemu = "running" /\ linked = "pending"
    /\ linked' = "yes"
    /\ Prints("connected")
    /\ UNCHANGED <<hostVars, fileVars, shm, server, qemu, gpc, stdin, used, faults>>

(* One of SHM_ERRORS: no connection, or a request that got no answer.       *)
ShmError ==
    /\ qemu = "running"
    /\ Fault
    /\ Prints("shm_error")
    /\ linked' = IF linked = "pending" THEN "failed" ELSE linked
    /\ UNCHANGED <<hostVars, fileVars, shm, server, qemu, gpc, stdin, used>>

GuestPrints ==
    /\ At("print")
    /\ linked # "pending"
    /\ pipe' = Append(pipe, Guest[gpc].marker)
    /\ gpc' = gpc + 1
    /\ UNCHANGED <<hostVars, fileVars, shm, server, qemu, stdin, linked, used, faults>>

GuestReads ==
    /\ At("gate") /\ stdin # <<>>
    /\ stdin' = Tail(stdin)
    /\ gpc' = IF Head(stdin) = Guest[gpc].line THEN gpc + 1 ELSE gpc
    /\ UNCHANGED <<hostVars, fileVars, shm, server, qemu, pipe, linked, used, faults>>

GuestWorks ==
    /\ At("work")
    /\ gpc' = gpc + 1
    /\ used' = (linked = "yes" /\ server = "running")
    /\ UNCHANGED <<hostVars, fileVars, shm, server, qemu, stdin, pipe, linked, faults>>

(* fail(): also ends with a power down.                                     *)
GuestFails ==
    /\ At("work")
    /\ Fault
    /\ Prints("FAIL")
    /\ gpc' = Len(Guest) - 1
    /\ UNCHANGED <<hostVars, fileVars, shm, server, qemu, stdin, linked, used>>

QemuExits ==
    /\ At("off")
    /\ qemu' = "off"
    /\ UNCHANGED <<hostVars, guestVars, fileVars, shm, server, stdin, faults>>

QemuCrashes ==
    /\ qemu = "running"
    /\ Fault
    /\ qemu' = "crashed"
    /\ UNCHANGED <<hostVars, guestVars, fileVars, shm, server, stdin>>

-----------------------------------------------------------------------------
(* The harness.                                                            *)

Go(p) == phase' = p /\ UNCHANGED <<hpc, start, cause, output>>
Throw(why, p) == phase' = p /\ cause' = why
Raise(why, p) == Throw(why, p) /\ UNCHANGED <<hpc, start, output>>

(* load_verified_manifest: an artifact is not the one that was built.       *)
ManifestMismatch ==
    /\ phase = "check"
    /\ Fault
    /\ Raise("error", "ended")
    /\ UNCHANGED <<guestVars, fileVars, shm, server, qemu, stdin>>

(* start_server: an existing object ends the run before anything is started. *)
StartServer ==
    /\ phase = "check"
    /\ IF shm # "none" THEN Raise("error", "ended") /\ UNCHANGED server
                       ELSE Go("shm") /\ server' = "running"
    /\ UNCHANGED <<guestVars, fileVars, shm, qemu, stdin, faults>>

(* wait_for_shm, then the Console.                                          *)
WaitForShm ==
    /\ phase = "shm"
    /\ \/ server # "running" /\ Raise("error", "stop") /\ UNCHANGED qemu
       \/ server = "running" /\ shm = "ready" /\ Go("console") /\ qemu' = "running"
    /\ UNCHANGED <<guestVars, fileVars, shm, server, stdin, faults>>

HostAt(op) == phase = "console" /\ hpc <= Len(Script) /\ Script[hpc].op = op
Proceed == hpc' = hpc + 1 /\ UNCHANGED <<phase, cause>>

Mark ==
    /\ HostAt("mark")
    /\ start' = Len(output)
    /\ Proceed
    /\ UNCHANGED <<output, guestVars, fileVars, shm, server, qemu, stdin, faults>>

Send ==
    /\ HostAt("send")
    /\ IF qemu = "running"
       THEN Proceed /\ stdin' = Append(stdin, Script[hpc].line) /\ UNCHANGED <<start, output>>
       ELSE Raise("error", "close") /\ UNCHANGED stdin
    /\ UNCHANGED <<guestVars, fileVars, shm, server, qemu, faults>>

Text(out, from) == { out[i] : i \in from + 1 .. Len(out) }
Wanted(out) == Script[hpc].marker \in Text(out, IF Script[hpc].after THEN start ELSE 0)

WaitDone ==
    /\ HostAt("await") /\ Wanted(output)
    /\ Proceed
    /\ UNCHANGED <<start, output, guestVars, fileVars, shm, server, qemu, stdin, faults>>

(* The text of a U-Boot command is not the expected one.                    *)
FirmwareMismatch ==
    /\ HostAt("await") /\ Wanted(output)
    /\ Script[hpc].marker = Line("prompt")
    /\ Fault
    /\ Raise("error", "close")
    /\ UNCHANGED <<guestVars, fileVars, shm, server, qemu, stdin>>

(* Mutant: an exited QEMU is given up without a last look at the pipe.      *)
WaitReadsNoLastLook ==
    /\ HostAt("await") /\ ~Wanted(output)
    /\ pipe # <<>> \/ qemu # "running"
    /\ IF qemu # "running"
       THEN Throw("error", "close") /\ UNCHANGED <<pipe, output>>
       ELSE /\ pipe' = <<>> /\ output' = output \o pipe
            /\ UNCHANGED <<phase, cause>>
    /\ UNCHANGED <<hpc, start, gpc, linked, used, fileVars, shm, server, qemu, stdin, faults>>

(* One turn of wait(): read what one buffer holds; when QEMU has exited,    *)
(* read once more and give up if the text is still missing.                 *)
WaitReads ==
    /\ HostAt("await") /\ ~Wanted(output)
    /\ pipe # <<>> \/ qemu # "running"
    /\ \E n \in 0 .. Len(pipe) :
         /\ n > 0 \/ pipe = <<>>
         /\ pipe' = SubSeq(pipe, n + 1, Len(pipe))
         /\ output' = output \o SubSeq(pipe, 1, n)
         /\ IF qemu # "running" /\ ~Wanted(output')
            THEN Throw(IF pipe' # <<>> THEN "short_read" ELSE "error", "close")
            ELSE UNCHANGED <<phase, cause>>
    /\ UNCHANGED <<hpc, start, gpc, linked, used, fileVars, shm, server, qemu, stdin, faults>>

Validated(out) ==
    /\ Line("shm_error") \notin out
    /\ { Line(m) : m \in {"connected", "START", "DISK", "TOPOLOGY", "JSON", "PASS"} } \subseteq out

(* validate_console, once, on what has been read when the guest passed.     *)
ValidateConsole ==
    /\ HostAt("validate")
    /\ IF Validated(Text(output, 0)) THEN Proceed /\ UNCHANGED <<start, output>>
                                     ELSE Raise("error", "close")
    /\ UNCHANGED <<guestVars, fileVars, shm, server, qemu, stdin, faults>>

(* wait_for_exit drains the pipe; a QEMU that lingers is terminated, one    *)
(* that failed fails the run.                                               *)
WaitForExit ==
    /\ HostAt("exit")
    /\ output' = output \o pipe /\ pipe' = <<>>
    /\ IF qemu = "crashed" THEN Throw("error", "close") /\ UNCHANGED <<hpc, qemu>>
                           ELSE Proceed /\ qemu' = "off"
    /\ UNCHANGED <<start, gpc, linked, used, fileVars, shm, server, stdin, faults>>

ConsoleDone ==
    /\ phase = "console" /\ hpc > Len(Script)
    /\ Go("close")
    /\ UNCHANGED <<guestVars, fileVars, shm, server, qemu, stdin, faults>>

(* A deadline passes.                                                       *)
TimesOut ==
    /\ HostAt("await") \/ phase \in {"shm", "removed"}
    /\ phase = "removed" => shm # "none"
    /\ Raise("deadline", IF phase = "console" THEN "close" ELSE IF phase = "shm" THEN "stop" ELSE "ended")
    /\ UNCHANGED <<guestVars, fileVars, shm, server, qemu, stdin, faults>>

-----------------------------------------------------------------------------
(* The finally block.                                                      *)

(* Mutant: the server is left to the next run when the workflow failed.     *)
CloseConsoleReraises ==
    /\ phase = "close"
    /\ qemu' = IF qemu = "running" THEN "off" ELSE qemu
    /\ Go(IF cause = "none" THEN "stop" ELSE "ended")
    /\ UNCHANGED <<guestVars, fileVars, shm, server, stdin, faults>>

CloseConsole ==
    /\ phase = "close"
    /\ qemu' = IF qemu = "running" THEN "off" ELSE qemu
    /\ output' = output \o pipe /\ pipe' = <<>>
    /\ phase' = "stop"
    /\ UNCHANGED <<hpc, start, cause, gpc, linked, used, fileVars, shm, server, stdin, faults>>

(* close() raises, because QEMU survives its signals or while the rest of the *)
(* output is copied to a full disk: the exception leaves the finally block. *)
CloseRaises ==
    /\ phase = "close"
    /\ Fault
    /\ qemu' \in IF qemu = "running" THEN {"off", "running"} ELSE {qemu}
    /\ Raise("close", "ended")
    /\ UNCHANGED <<guestVars, fileVars, shm, server, stdin>>

(* Mutant: the object is left to the next run.                              *)
StopServerKeepsShm ==
    /\ phase = "stop"
    /\ server' = IF server = "running" THEN "reported" ELSE server
    /\ UNCHANGED shm
    /\ phase' = IF cause # "none" THEN "ended" ELSE "counts"
    /\ UNCHANGED <<hpc, start, cause, output, guestVars, fileVars, qemu, stdin, faults>>

(* stop_owned_process: SIGINT, on which the server reports and unlinks.     *)
StopServer ==
    /\ phase = "stop"
    /\ server' = IF server = "running" THEN "reported" ELSE server
    /\ shm' = IF server = "running" THEN "none" ELSE shm
    /\ phase' = IF cause # "none" THEN "ended" ELSE "removed"
    /\ UNCHANGED <<hpc, start, cause, output, guestVars, fileVars, qemu, stdin, faults>>

(* It does not answer and is killed: no statistics, the object stays.       *)
KillServer ==
    /\ phase = "stop" /\ server = "running"
    /\ Fault
    /\ server' = "killed"
    /\ phase' = IF cause # "none" THEN "ended" ELSE "removed"
    /\ UNCHANGED <<hpc, start, cause, output, guestVars, fileVars, shm, qemu, stdin>>

(* It survives even that, and the last wait() raises.                       *)
KillFails ==
    /\ phase = "stop" /\ server = "running"
    /\ Fault
    /\ Raise("survivor", "ended")
    /\ UNCHANGED <<guestVars, fileVars, shm, server, qemu, stdin>>

ShmRemoved ==
    /\ phase = "removed" /\ shm = "none"
    /\ Go("counts")
    /\ UNCHANGED <<guestVars, fileVars, shm, server, qemu, stdin, faults>>

(* parse_server_counts: both totals are there and positive.                 *)
ParseCounts ==
    /\ phase = "counts"
    /\ IF server = "reported" /\ used THEN Go("write") ELSE Raise("error", "ended")
    /\ UNCHANGED <<guestVars, fileVars, shm, server, qemu, stdin, faults>>

(* atomic_write_result.                                                     *)
WriteTemporary ==
    /\ phase = "write"
    /\ tmp' = TRUE
    /\ Go("replace")
    /\ UNCHANGED <<result, guestVars, shm, server, qemu, stdin, faults>>

WriteRaises ==
    /\ phase = "replace"
    /\ Fault
    /\ tmp' = FALSE
    /\ Raise("error", "ended")
    /\ UNCHANGED <<result, guestVars, shm, server, qemu, stdin>>

Replace ==
    /\ phase = "replace"
    /\ result' = "new" /\ tmp' = FALSE
    /\ Go("ended")
    /\ UNCHANGED <<guestVars, shm, server, qemu, stdin, faults>>

-----------------------------------------------------------------------------
HostStep ==
    \/ StartServer \/ WaitForShm \/ Mark \/ Send \/ WaitDone \/ WaitReads
    \/ ValidateConsole \/ WaitForExit \/ ConsoleDone
    \/ CloseConsole \/ StopServer \/ ShmRemoved \/ ParseCounts
    \/ WriteTemporary \/ Replace

Machine ==
    \/ ServerCreates \/ QemuConnects \/ GuestPrints \/ GuestReads \/ GuestWorks
    \/ QemuExits

Faulty ==
    \/ ManifestMismatch \/ FirmwareMismatch \/ ServerDies \/ ShmError \/ GuestFails \/ QemuCrashes \/ CloseRaises
    \/ KillServer \/ KillFails \/ WriteRaises

Done == phase = "ended" /\ UNCHANGED vars

Next == HostStep \/ Machine \/ Faulty \/ TimesOut \/ Done

Spec == Init /\ [][Next]_vars /\ WF_vars(HostStep) /\ WF_vars(Machine)

-----------------------------------------------------------------------------
(* The last successful result is replaced only by a run that passed every   *)
(* gate: the guest reported every stage, over the connection, the server    *)
(* counted its requests and ended in good order, and its object is gone.    *)
ResultIsEarned ==
    result = "new" =>
        /\ Line("PASS") \in Text(output, 0) /\ Line("JSON") \in Text(output, 0)
        /\ linked = "yes" /\ used
        /\ server = "reported" /\ shm = "none" /\ qemu # "running"

(* A run that nothing disturbs replaces the result: it can only be failed   *)
(* by a deadline, or by a QEMU that exits with more output unread than one  *)
(* buffer holds.                                                            *)
PassesUnlessDisturbed ==
    (shm = "none" /\ [](faults = 0))
        => <>(result = "new" \/ cause \in {"deadline", "short_read"})

(* However the run ends, nothing it started is left running, except when    *)
(* closing the console itself raised (then both may be), and except for a   *)
(* server that survived SIGKILL.                                            *)
NothingLeftRunning ==
    phase = "ended" =>
        /\ cause # "close" => qemu # "running"
        /\ cause \notin {"close", "survivor"} => server # "running"

(* "The server is always stopped by the harness after QEMU exits."          *)
(* (docs/superpowers/specs/2026-07-25-cxlmemsim-riscv-superrepo-design.md)   *)
ServerAlwaysStopped == (phase = "ended" /\ qemu # "none") => server # "running"
=============================================================================
