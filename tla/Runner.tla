------------------------------- MODULE Runner -------------------------------
(***************************************************************************)
(* What the multi-guest runners of scripts/ have in common: a host thread  *)
(* that starts one CXLMemSim server and some QEMU guests, talks to each    *)
(* guest over a console, and writes one result whatever happens.  The host *)
(* and every guest is a straight line of instructions (RunnerScript); the  *)
(* modules TwoNode, BiRun and ThreeNode supply those of their runner.      *)
(*                                                                         *)
(* A console has a reader thread of its own, which appends what the guest  *)
(* has printed to console.output and copies complete lines to an event     *)
(* sidecar.  So what the host sees of a guest lags behind the guest, and   *)
(* behind its exit.                                                        *)
(***************************************************************************)
EXTENDS Integers, Sequences, FiniteSets, RunnerScript

CONSTANTS
    Lab,         \* per runner: a record of what is its own (see below)
    MaxFaults    \* bound: per runner, the faults of the environment in one run

(* Every process a host script starts is ended by it later on, and none is  *)
(* started after its end time has been asked for.                           *)
ASSUME LabAssumption ==
    \A l \in DOMAIN Lab :
        /\ Lab[l].host \in Seq({ Lab[l].host[i] : i \in 1 .. Len(Lab[l].host) })
        /\ \A i \in 1 .. Len(Lab[l].host) :
              Lab[l].host[i].op = "start" =>
                  \E j \in i + 1 .. Len(Lab[l].host) :
                      /\ Lab[l].host[j].op \in {"stop", "exit"}
                      /\ Lab[l].host[j].proc = Lab[l].host[i].proc
        /\ \A i \in 1 .. Len(Lab[l].host) : \A j \in 1 .. i - 1 :
              (Lab[l].host[i].op = "start" /\ Lab[l].host[j].op = "ended") =>
                  Lab[l].host[i].proc \notin Lab[l].host[j].nodes

VARIABLE lab     \* the runner: one of the names of DOMAIN Lab

Nodes == Lab[lab].nodes                        \* the guests
HostScript == Lab[lab].host                    \* the host thread's instructions
GuestScript == Lab[lab].guests                 \* per guest: its instructions
CleanupOrder == Lab[lab].cleanupOrder          \* how the finally block ends processes
CaptureUnderLock == Lab[lab].captureUnderLock  \* the sidecar is written in the section
                                               \* that notifies the host
CountsRemaining == Lab[lab].countsRemaining    \* owned_processes_remaining is counted

Server == "cxlmemsim"
Procs == Nodes \cup {Server}

VARIABLES
    hpc,        \* index of the host's next instruction
    start,      \* output offset of the current command_until_prompt
    proc,       \* per process: "none", "running", "failed", "hung" or "exited"
    gpc,        \* per guest: index of its next instruction
    stdin,      \* per guest: lines sent and not yet read
    out,        \* per guest: the markers it has printed
    seen,       \* per guest: how many of them are in console.output
    captured,   \* per guest: how many of them are in the event sidecar
    phase,      \* "try", "finally" or "written"
    verdict,    \* result["status"] or result["verdict"]: "failed" or "passed"
    cause,      \* result["first_failure"], by its kind
    toStop,     \* the processes the finally block still has to end
    remaining,  \* result["cleanup"]["owned_processes_remaining"]
    faults,     \* the faults so far
    strays      \* the live processes terminate_owned did not take for its own

hostVars == <<hpc, start, phase, verdict, cause, toStop, remaining>>
guestVars == <<gpc, out>>
readerVars == <<seen, captured>>
faultVars == <<faults, strays>>
vars == <<hostVars, guestVars, readerVars, proc, stdin, faultVars, lab>>

-----------------------------------------------------------------------------
Init ==
    /\ lab \in DOMAIN Lab
    /\ hpc = 1 /\ start = 0
    /\ proc = [p \in Procs |-> "none"]
    /\ gpc = [n \in Nodes |-> 1]
    /\ stdin = [n \in Nodes |-> <<>>]
    /\ out = [n \in Nodes |-> <<>>]
    /\ seen = [n \in Nodes |-> 0]
    /\ captured = [n \in Nodes |-> 0]
    /\ phase = "try" /\ verdict = "failed" /\ cause = "none"
    /\ toStop = <<>> /\ remaining = 0
    /\ faults = 0 /\ strays = {}

FaultWith(lost) ==
    /\ faults < MaxFaults[lab]
    /\ faults' = faults + 1
    /\ strays' = strays \cup lost

Fault == FaultWith({})

(* What poll() cannot tell from a process that makes progress.              *)
Live(p) == proc[p] \in {"running", "failed", "hung"}
Alive == { p \in Procs : Live(p) }

-----------------------------------------------------------------------------
(* The guests.                                                             *)

GuestAt(n, op) ==
    /\ proc[n] = "running"
    /\ gpc[n] <= Len(GuestScript[n])
    /\ GuestScript[n][gpc[n]].op = op

Advance(n) == gpc' = [gpc EXCEPT ![n] = @ + 1]

GuestPrints(n) ==
    /\ GuestAt(n, "print")
    /\ out' = [out EXCEPT ![n] = Append(@, GuestScript[n][gpc[n]].marker)]
    /\ Advance(n)
    /\ UNCHANGED <<hostVars, readerVars, proc, stdin, faultVars>>

(* wait_for_run_gate, or a U-Boot prompt: a line that is not the expected   *)
(* one is dropped.                                                          *)
GuestReads(n) ==
    /\ GuestAt(n, "gate")
    /\ stdin[n] # <<>>
    /\ stdin' = [stdin EXCEPT ![n] = Tail(@)]
    /\ IF Head(stdin[n]) = GuestScript[n][gpc[n]].line THEN Advance(n) ELSE UNCHANGED gpc
    /\ UNCHANGED <<hostVars, readerVars, out, proc, faultVars>>

GuestWorks(n) ==
    /\ GuestAt(n, "work")
    /\ \A m \in GuestScript[n][gpc[n]].with : proc[m] = "running"
    /\ LET trace == GuestScript[n][gpc[n]].trace
       IN  out' = [m \in Nodes |-> IF m \in DOMAIN trace THEN Append(out[m], trace[m]) ELSE out[m]]
    /\ Advance(n)
    /\ UNCHANGED <<hostVars, readerVars, proc, stdin, faultVars>>

(* A protocol of two guests: one can leave it when the other has reached it. *)
HasReached(m, id) == \E i \in 1 .. gpc[m] :
    i <= Len(GuestScript[m]) /\ GuestScript[m][i].op = "meet" /\ GuestScript[m][i].id = id
HasLeft(m, id) == \E i \in 1 .. gpc[m] - 1 :
    GuestScript[m][i].op = "meet" /\ GuestScript[m][i].id = id

GuestMeets(n) ==
    /\ GuestAt(n, "meet")
    /\ HasReached(GuestScript[n][gpc[n]].with, GuestScript[n][gpc[n]].id)
    /\ Advance(n)
    /\ UNCHANGED <<hostVars, readerVars, out, proc, stdin, faultVars>>

(* fail(): the guest reports the failure and powers off.                    *)
Fails(n) ==
    /\ out' = [out EXCEPT ![n] = Append(@, Line("FAIL"))]
    /\ proc' = [proc EXCEPT ![n] = "failed"]
    /\ UNCHANGED <<hostVars, readerVars, gpc, stdin>>

GuestFails(n) ==
    /\ proc[n] = "running" /\ gpc[n] <= Len(GuestScript[n])
    /\ GuestScript[n][gpc[n]].op \in {"work", "meet", "serve"}
    /\ Fault
    /\ Fails(n)

(* The same when the guest it works with is gone.                           *)
IsLost(m) == proc[m] \in {"failed", "hung", "exited"}

GuestGivesUp(n) ==
    /\ \/ GuestAt(n, "work") /\ \E m \in GuestScript[n][gpc[n]].with : IsLost(m)
       \/ /\ GuestAt(n, "meet")
          /\ IsLost(GuestScript[n][gpc[n]].with)
          /\ ~HasLeft(GuestScript[n][gpc[n]].with, GuestScript[n][gpc[n]].id)
    /\ Fails(n)
    /\ UNCHANGED faultVars

(* A guest stops making progress, its QEMU does not exit.                   *)
GuestHangs(n) ==
    /\ proc[n] = "running"
    /\ Fault
    /\ proc' = [proc EXCEPT ![n] = "hung"]
    /\ UNCHANGED <<hostVars, guestVars, readerVars, stdin>>

GuestPowersOff(n) ==
    /\ GuestAt(n, "off") \/ proc[n] = "failed"
    /\ proc' = [proc EXCEPT ![n] = "exited"]
    /\ UNCHANGED <<hostVars, guestVars, readerVars, stdin, faultVars>>

(* A process dies on its own.                                               *)
Crash(p) ==
    /\ proc[p] = "running"
    /\ Fault
    /\ proc' = [proc EXCEPT ![p] = "exited"]
    /\ UNCHANGED <<hostVars, guestVars, readerVars, stdin>>

-----------------------------------------------------------------------------
(* A console's reader thread.  A read returns what has been printed (a part *)
(* of it is what an earlier read returns); the complete lines go to the     *)
(* sidecar in the same critical section or after it.                        *)
ReadOutput(n) ==
    /\ seen[n] < Len(out[n])
    /\ captured[n] = seen[n]
    /\ seen' = [seen EXCEPT ![n] = Len(out[n])]
    /\ captured' = IF CaptureUnderLock THEN [captured EXCEPT ![n] = Len(out[n])]
                                       ELSE captured
    /\ UNCHANGED <<hostVars, guestVars, proc, stdin, faultVars>>

CaptureEvents(n) ==
    /\ captured[n] < seen[n]
    /\ captured' = [captured EXCEPT ![n] = @ + 1]
    /\ UNCHANGED <<hostVars, guestVars, seen, proc, stdin, faultVars>>

-----------------------------------------------------------------------------
(* The host thread.                                                        *)

HostAt(op) ==
    /\ phase = "try"
    /\ hpc <= Len(HostScript)
    /\ HostScript[hpc].op = op

Step == hpc' = hpc + 1

Owned == SelectSeq(CleanupOrder, LAMBDA p : proc[p] # "none")

(* An exception: the verdict stays "failed" and the finally block begins.   *)
Raise(kind) ==
    /\ phase' = "finally"
    /\ cause' = kind
    /\ toStop' = Owned
    /\ UNCHANGED <<hpc, start, verdict, remaining>>

Proceed ==
    /\ Step
    /\ UNCHANGED <<start, phase, verdict, cause, toStop, remaining>>

Output(n, from) == { out[n][i] : i \in from + 1 .. seen[n] }

HostStarts ==
    /\ HostAt("start")
    /\ proc' = [proc EXCEPT ![HostScript[hpc].proc] = "running"]
    /\ Proceed
    /\ UNCHANGED <<guestVars, readerVars, stdin, faultVars>>

(* wait_for_log: the server is listening, or it has exited, or time is up.  *)
HostReadsLog ==
    /\ HostAt("log")
    /\ IF proc[Server] = "running" THEN Proceed ELSE Raise("server")
    /\ UNCHANGED <<guestVars, readerVars, proc, stdin, faultVars>>

HostMarks ==
    /\ HostAt("mark")
    /\ start' = seen[HostScript[hpc].node]
    /\ Step
    /\ UNCHANGED <<phase, verdict, cause, toStop, remaining>>
    /\ UNCHANGED <<guestVars, readerVars, proc, stdin, faultVars>>

HostSends ==
    /\ HostAt("send")
    /\ LET n == HostScript[hpc].node
       IN  IF Live(n)
           THEN Proceed /\ stdin' = [stdin EXCEPT ![n] = Append(@, HostScript[hpc].line)]
           ELSE Raise("exited") /\ UNCHANGED stdin
    /\ UNCHANGED <<guestVars, readerVars, proc, faultVars>>

(* One turn of Console.wait: the text is there, or the guest has reported a *)
(* failure, or QEMU has exited; otherwise the thread waits for more.        *)
HostAwaits ==
    /\ HostAt("await")
    /\ LET i == HostScript[hpc]
           text == Output(i.node, IF i.after THEN start ELSE 0)
       IN  \/ i.marker \in text /\ Proceed
           \/ i.marker \notin text /\ Line("FAIL") \in text /\ Raise("guest")
           \/ /\ text \cap {i.marker, Line("FAIL")} = {}
              /\ proc[i.node] = "exited"
              /\ Raise("exited")
    /\ UNCHANGED <<guestVars, readerVars, proc, stdin, faultVars>>

(* Mutant: the wait polls again whatever the time is.                       *)
HostPollsOn ==
    /\ HostAt("await") \/ HostAt("log")
    /\ UNCHANGED vars

(* The deadline of a wait passes first.                                     *)
HostTimesOut ==
    /\ HostAt("await") \/ HostAt("log")
    /\ Raise("timeout")
    /\ UNCHANGED <<guestVars, readerVars, proc, stdin, faultVars>>

HostRequiresLive ==
    /\ HostAt("live")
    /\ IF \A n \in HostScript[hpc].nodes : Live(n)
       THEN Proceed ELSE Raise("exited")
    /\ UNCHANGED <<guestVars, readerVars, proc, stdin, faultVars>>

(* process.wait(timeout=10), and terminate_owned() when that expires.       *)
HostAwaitsExit ==
    /\ HostAt("exit")
    /\ proc' = [proc EXCEPT ![HostScript[hpc].proc] = "exited"]
    /\ Proceed
    /\ UNCHANGED <<guestVars, readerVars, stdin, faultVars>>

(* terminate_owned(): SIGTERM, then SIGKILL; a process that survives both   *)
(* makes the last wait() raise.                                             *)
HostStops ==
    /\ HostAt("stop")
    /\ proc' = [proc EXCEPT ![HostScript[hpc].proc] = "exited"]
    /\ Proceed
    /\ UNCHANGED <<guestVars, readerVars, stdin, faultVars>>

(* Mutant: the survivor is ignored.                                         *)
HostLeavesSurvivor ==
    /\ HostAt("stop") \/ HostAt("exit")
    /\ Live(HostScript[hpc].proc)
    /\ Fault
    /\ Proceed
    /\ UNCHANGED <<guestVars, readerVars, proc, stdin>>

HostCannotStop ==
    /\ HostAt("stop") \/ HostAt("exit")
    /\ Live(HostScript[hpc].proc)
    /\ Fault
    /\ Raise("unkillable")
    /\ UNCHANGED <<guestVars, readerVars, proc, stdin>>

(* terminate_owned() and send_signal() of a live process that fails         *)
(* matches_live_pid (its /proc entry cannot be read or does not match):     *)
(* both return without a signal and without an error.                       *)
HostOverlooks ==
    /\ HostAt("stop") \/ HostAt("exit")
    /\ Live(HostScript[hpc].proc)
    /\ FaultWith({HostScript[hpc].proc})
    /\ Proceed
    /\ UNCHANGED <<guestVars, readerVars, proc, stdin>>

(* overlap_ns, triple_overlap_ns: record_exit gives a live process no       *)
(* end_ns, and the smallest of the end times cannot be taken with a None.   *)
HostRequiresEnded ==
    /\ HostAt("ended")
    /\ IF \A n \in HostScript[hpc].nodes : ~Live(n) THEN Proceed ELSE Raise("alive")
    /\ UNCHANGED <<guestVars, readerVars, proc, stdin, faultVars>>

(* reader.join(timeout=3) on every console: a reader ends at end of file,   *)
(* or the host goes on without it: always when its guest is still alive,    *)
(* and by a fault when it is too slow.                                      *)
AllExited == \A n \in Nodes : proc[n] = "exited"
Drained == AllExited /\ \A n \in Nodes : seen[n] = Len(out[n]) /\ captured[n] = seen[n]

HostJoins ==
    /\ HostAt("join")
    /\ Drained \/ ~AllExited
    /\ Proceed
    /\ UNCHANGED <<guestVars, readerVars, proc, stdin, faultVars>>

HostJoinExpires ==
    /\ HostAt("join")
    /\ AllExited /\ ~Drained
    /\ Fault
    /\ Proceed
    /\ UNCHANGED <<guestVars, readerVars, proc, stdin>>

(* A validator over the consoles and sidecars: what it looks for is there,  *)
(* or it raises.  The server's final statistics are wanted too, exactly one *)
(* object without active bindings: a server or a guest that is still alive  *)
(* may fail them, or may not.                                               *)
Evident(e) ==
    \A n \in Nodes :
        /\ e.output[n] \subseteq Output(n, 0)
        /\ e.sidecar[n] \subseteq { out[n][i] : i \in 1 .. captured[n] }

HostRequires ==
    /\ HostAt("require")
    /\ \/ Evident(HostScript[hpc].evidence) /\ Proceed
       \/ (~Evident(HostScript[hpc].evidence) \/ Alive # {}) /\ Raise("evidence")
    /\ UNCHANGED <<guestVars, readerVars, proc, stdin, faultVars>>

(* result["status"] = "passed"; return, by way of the finally block.        *)
HostPasses ==
    /\ phase = "try" /\ hpc > Len(HostScript)
    /\ verdict' = "passed"
    /\ phase' = "finally"
    /\ toStop' = Owned
    /\ UNCHANGED <<hpc, start, cause, remaining>>
    /\ UNCHANGED <<guestVars, readerVars, proc, stdin, faultVars>>

-----------------------------------------------------------------------------
(* The finally block: end every process, swallowing what goes wrong, count  *)
(* what is left (as far as matches_live_pid recognises it), write the       *)
(* result.                                                                  *)

StopOne ==
    /\ phase = "finally" /\ toStop # <<>>
    /\ toStop' = Tail(toStop)
    /\ proc' = [proc EXCEPT ![Head(toStop)] = "exited"]
    /\ UNCHANGED <<hpc, start, phase, verdict, cause, remaining>>
    /\ UNCHANGED <<guestVars, readerVars, stdin, faultVars>>

StopFails ==
    /\ phase = "finally" /\ toStop # <<>>
    /\ Live(Head(toStop))
    /\ Fault
    /\ toStop' = Tail(toStop)
    /\ UNCHANGED <<hpc, start, phase, verdict, cause, remaining>>
    /\ UNCHANGED <<guestVars, readerVars, proc, stdin>>

WriteResult ==
    /\ phase = "finally" /\ toStop = <<>>
    /\ phase' = "written"
    /\ remaining' \in IF CountsRemaining THEN 0 .. Cardinality(Alive) ELSE {0}
    /\ UNCHANGED <<hpc, start, verdict, cause, toStop>>
    /\ UNCHANGED <<guestVars, readerVars, proc, stdin, faultVars>>

-----------------------------------------------------------------------------
GuestStep(n) ==
    \/ GuestPrints(n) \/ GuestReads(n) \/ GuestWorks(n) \/ GuestMeets(n)
    \/ GuestGivesUp(n) \/ GuestPowersOff(n)

ReaderStep(n) == ReadOutput(n) \/ CaptureEvents(n)

HostStep ==
    \/ HostStarts \/ HostReadsLog \/ HostMarks \/ HostSends \/ HostAwaits
    \/ HostRequiresLive \/ HostAwaitsExit \/ HostStops \/ HostJoins
    \/ HostRequiresEnded \/ HostRequires \/ HostPasses \/ StopOne \/ WriteResult

Faulty ==
    \/ HostCannotStop \/ HostOverlooks \/ HostJoinExpires \/ StopFails
    \/ \E n \in Nodes : GuestFails(n) \/ GuestHangs(n)
    \/ \E p \in Procs : Crash(p)

Done == phase = "written" /\ UNCHANGED vars

Progress == HostStep \/ \E n \in Nodes : GuestStep(n) \/ ReaderStep(n)

Next ==
    /\ \/ Progress
       \/ HostTimesOut
       \/ Faulty
       \/ Done
    /\ UNCHANGED lab

(* While the host thread, a guest or a reader can run, one of them does;    *)
(* each of them only ever takes finitely many steps, so none is starved.    *)
(* Nothing is assumed of faults or of how fast a guest is against a         *)
(* deadline.                                                                *)
Fairness == WF_vars(Progress /\ UNCHANGED lab)

Spec == Init /\ [][Next]_vars /\ Fairness

-----------------------------------------------------------------------------
(* Properties of every runner.                                             *)

(* The host and a guest never lose step: a line is sent only when the guest *)
(* is about to read exactly that line, so no command of run_uboot and no    *)
(* run gate is answered by a stale prompt or read by the wrong reader.      *)
LinesMeetTheirReader ==
    \A n \in Nodes :
        (stdin[n] # <<>> /\ proc[n] = "running" /\ gpc[n] <= Len(GuestScript[n])) =>
            /\ Len(stdin[n]) = 1
            /\ GuestScript[n][gpc[n]].op = "gate"
            /\ GuestScript[n][gpc[n]].line = Head(stdin[n])

(* A run that is reported as passed leaves nothing alive but what           *)
(* terminate_owned did not take for its own and left without a signal: a    *)
(* process that survives its signals never passes, and neither does, in a   *)
(* runner that compares lifetimes, any guest that has not ended, although   *)
(* terminate_owned itself says nothing of it.                               *)
PassedRunIsClean ==
    verdict = "passed" =>
        /\ Alive \subseteq strays
        /\ \A i \in 1 .. Len(HostScript) :
              HostScript[i].op = "ended" => Alive \cap HostScript[i].nodes = {}

(* Whatever fails, a result is written: every wait has a deadline.          *)
EveryRunEnds == WF_vars(HostTimesOut /\ UNCHANGED lab) => <>(phase = "written")
=============================================================================
