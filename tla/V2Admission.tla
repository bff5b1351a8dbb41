----------------------------- MODULE V2Admission -----------------------------
(***************************************************************************)
(* The non-MPI run of scripts/legofs_v2_qemu_bi.py with the guest commands  *)
(* of guest/legofs_v2_qemu_node.sh.  The server guest initializes the shared *)
(* layout and recovers its provider; the client guests provision themselves *)
(* meanwhile and report READY; then the exact cohort is admitted, runs its   *)
(* workload and the provider is stopped.  A console has a reader thread that *)
(* first shows a chunk in console.output and then records its lines, with   *)
(* the time of capture, in the event file from which evidence is built.     *)
(***************************************************************************)
EXTENDS Naturals, Sequences, FiniteSets

CONSTANTS
    Setups,          \* the runs asked for: mode, clients and --client-start-parallelism
    HasWaitEvent,    \* whether Console offers wait_event
    MaxFaults        \* bound: daemons and workloads that fail

ASSUME SetupsAssumption ==
    \A s \in Setups :
        /\ s.mode \in {"workload", "admission", "single"}
        /\ s.clients \in Nat \ {0}
        /\ s.mode = "single" => s.clients = 1

VARIABLE setup
Mode == setup.mode   \* "workload" (or calibration), "admission" or "single"

Clients == 1 .. setup.clients
Server == 0
Guests == Clients \cup {Server}

VARIABLES
    pc, waiter,              \* the host and its pool of console waits
    command,                 \* the command last sent to each guest and not yet begun
    printed, shown,          \* the lines of each console; how many are shown
    recorded, late,          \* how many have a record; milestones captured before one they follow
    layout, provider,        \* the shared layout, and the provider's state
    script,                  \* what the shell of each guest is doing
    workload, fifo, rc,      \* each client's workload, its unforwarded phase markers, its rc file
    faults

hostVars == <<pc, waiter>>
consoleVars == <<printed, shown, recorded, late>>
serverVars == <<layout, provider>>
clientVars == <<workload, fifo, rc>>
vars == <<setup, hostVars, command, consoleVars, serverVars, script, clientVars, faults>>

Init ==
    /\ setup \in Setups /\ pc = "start" /\ waiter = [c \in Clients |-> "none"]
    /\ command = [g \in Guests |-> "none"]
    /\ printed = [g \in Guests |-> <<>>] /\ shown = [g \in Guests |-> 0] 
    /\ recorded = [g \in Guests |-> 0] /\ late = {}
    /\ layout = FALSE /\ provider = "none" /\ script = [g \in Guests |-> "shell"]
    /\ workload = [c \in Clients |-> "none"] /\ fifo = [c \in Clients |-> FALSE]
    /\ rc = [c \in Clients |-> "absent"] /\ faults = 0

-----------------------------------------------------------------------------
(* Consoles.                                                                *)
IsShown(g, line) == \E i \in 1 .. shown[g] : printed[g][i] = line
IsRecorded(g, line) == \E i \in 1 .. recorded[g] : printed[g][i] = line

(* The milestones that build_startup_pipeline_evidence expects no later than  *)
(* milestone m.                                                             *)
Follows(m) ==
    IF m = <<Server, "server-admit">>
    THEN {<<Server, "RECOVERING">>} \cup Clients \X {"WAITING"}
    ELSE IF m = <<Server, "READY">> THEN {<<Server, "server-admit">>}
    ELSE IF m \in Clients \X {"client-start"} THEN {<<Server, "LAYOUT">>}
    ELSE {}

(* _read_output: a chunk is shown and announced ...                         *)
ReaderShows(g) ==
    /\ recorded[g] = shown[g] /\ shown[g] < Len(printed[g])
    /\ shown' = [shown EXCEPT ![g] = Len(printed[g])]
    /\ UNCHANGED <<hostVars, command, printed, recorded, late, serverVars, script, clientVars, faults>>

(* ... and only then its lines are recorded, one by one.                    *)
ReaderRecords(g) ==
    /\ recorded[g] < shown[g] /\ recorded' = [recorded EXCEPT ![g] = @ + 1]
    /\ LET m == <<g, printed[g][recorded'[g]]>> IN
        late' = IF \A f \in Follows(m) : IsRecorded(f[1], f[2]) THEN late ELSE late \cup {m}
    /\ UNCHANGED <<hostVars, command, printed, shown, serverVars, script, clientVars, faults>>

Prints(g, line) == printed' = [printed EXCEPT ![g] = Append(@, line)] /\ UNCHANGED <<shown, recorded, late>>

(* The terminal echoes a command when the shell begins it; only these       *)
(* echoes are milestones of the evidence.                                   *)
EchoesRead == {"server-start", "server-admit", "client-start"}

Begins(g, name) ==
    /\ script[g] = "shell" /\ command[g] = name
    /\ command' = [command EXCEPT ![g] = "none"]
    /\ script' = [script EXCEPT ![g] = name]
    /\ IF name \in EchoesRead THEN Prints(g, name) ELSE UNCHANGED consoleVars

(* fatal: the line, and the end of the script.                              *)
Fatal(g) ==
    /\ script[g] # "shell" /\ faults < MaxFaults /\ faults' = faults + 1
    /\ ~\E i \in DOMAIN printed[g] : printed[g][i] = "FATAL"
    /\ script' = [script EXCEPT ![g] = "shell"] /\ Prints(g, "FATAL")
    /\ UNCHANGED <<hostVars, command, serverVars, clientVars>>

-----------------------------------------------------------------------------
(* The server guest.                                                        *)
BeginsServer(name) ==
    /\ Begins(Server, name)
    /\ UNCHANGED <<hostVars, serverVars, clientVars, faults>>

(* server_start: layout, provider and serving controller in one go.         *)
server_start ==
    /\ Mode = "single" /\ script[Server] = "server-start"
    /\ layout' = TRUE /\ provider' = "serving"
    /\ Prints(Server, "READY") /\ script' = [script EXCEPT ![Server] = "shell"]
    /\ UNCHANGED <<hostVars, command, clientVars, faults>>

(* bounded_server_start: the layout is announced before the provider is      *)
(* started, and the provider recovers while clients provision.              *)
bounded_server_start ==
    /\ Mode # "single" /\ script[Server] = "server-start" /\ provider = "none"
    /\ layout' = TRUE /\ provider' = "recovering" /\ Prints(Server, "LAYOUT")
    /\ UNCHANGED <<hostVars, command, script, clientVars, faults>>
ProviderRecovers ==
    /\ script[Server] = "server-start" /\ provider = "recovering"
    /\ provider' = "ready" /\ Prints(Server, "RECOVERING")
    /\ script' = [script EXCEPT ![Server] = "shell"]
    /\ UNCHANGED <<hostVars, command, layout, clientVars, faults>>

(* bounded_server_admit: the controller serves the exact cohort of READY     *)
(* clients.                                                                 *)
bounded_server_admit ==
    /\ script[Server] = "server-admit" /\ provider = "ready"
    /\ \A c \in Clients : workload[c] = "ready"
    /\ provider' = "serving" /\ Prints(Server, "READY")
    /\ script' = [script EXCEPT ![Server] = "shell"]
    /\ UNCHANGED <<hostVars, command, layout, clientVars, faults>>

bounded_server_stop ==
    /\ script[Server] = "server-stop"
    /\ provider' = "stopped" /\ Prints(Server, "STOPPED")
    /\ script' = [script EXCEPT ![Server] = "shell"]
    /\ UNCHANGED <<hostVars, command, layout, clientVars, faults>>

-----------------------------------------------------------------------------
(* The client guests.                                                       *)
BeginsClient(c, name) ==
    /\ Begins(c, name)
    /\ UNCHANGED <<hostVars, serverVars, clientVars, faults>>

(* bounded_client_start and bounded_client_admit: the daemons become ready    *)
(* one after the other, the workload is launched behind its gate and READY  *)
(* seen in its log.  client_start has no workload yet.                      *)
ClientReady(c) ==
    /\ script[c] = "client-start"
    /\ workload' = [workload EXCEPT ![c] = IF Mode = "single" THEN "none" ELSE "ready"]
    /\ Prints(c, "WAITING") /\ script' = [script EXCEPT ![c] = "shell"]
    /\ UNCHANGED <<hostVars, command, serverVars, fifo, rc, faults>>

(* The gate of a READY client is fail-closed: a wall-clock timeout, whatever *)
(* keeps the provider from serving.                                         *)
GateExpires(c) ==
    /\ workload[c] = "ready" /\ provider # "serving"
    /\ workload' = [workload EXCEPT ![c] = "expired"]
    /\ UNCHANGED <<hostVars, command, consoleVars, serverVars, script, fifo, rc, faults>>

(* client_run launches the workload itself.                                 *)
LaunchesWorkload(c) ==
    /\ Mode = "single" /\ script[c] = "client-run" /\ workload[c] = "none"
    /\ workload' = [workload EXCEPT ![c] = "ready"]
    /\ UNCHANGED <<hostVars, command, consoleVars, serverVars, script, fifo, rc, faults>>

(* The workload runs once the provider serves; its last phase marker goes    *)
(* into the fifo.                                                           *)
WorkloadRuns(c) ==
    /\ Mode # "admission" /\ workload[c] = "ready" /\ provider = "serving"
    /\ \E outcome \in {"0", "1"} :
        /\ workload' = [workload EXCEPT ![c] = outcome]
        /\ faults' = IF outcome = "1" THEN faults + 1 ELSE faults
    /\ faults' <= MaxFaults
    /\ fifo' = [fifo EXCEPT ![c] = TRUE]
    /\ UNCHANGED <<hostVars, command, consoleVars, serverVars, script, rc>>

(* The background reader of the fifo.                                       *)
ForwardsPhase(c) ==
    /\ fifo[c] /\ fifo' = [fifo EXCEPT ![c] = FALSE] /\ Prints(c, "PHASE")
    /\ UNCHANGED <<hostVars, command, serverVars, script, workload, rc, faults>>

(* printf > workload.rc: the redirection creates the file, then it is written. *)
WritesRc(c) ==
    /\ Mode = "workload" /\ workload[c] \in {"0", "1"} /\ rc[c] \in {"absent", "empty"}
    /\ rc' = [rc EXCEPT ![c] = IF @ = "absent" THEN "empty" ELSE workload[c]]
    /\ UNCHANGED <<hostVars, command, consoleVars, serverVars, script, workload, fifo, faults>>

(* Mutant: any rc file will do.                                             *)
ExitLineOfFile(c) == IF rc[c] = "1" THEN "FAILED" ELSE "EXIT"

(* bounded_client_wait: an empty file does not compare equal to 0.          *)
ExitLine(c) == IF (IF Mode = "single" THEN workload[c] ELSE rc[c]) = "0" THEN "EXIT" ELSE "FAILED"

bounded_client_wait(c) ==
    /\ script[c] = "client-wait" /\ rc[c] # "absent"
    /\ Prints(c, ExitLine(c)) /\ script' = [script EXCEPT ![c] = "shell"]
    /\ UNCHANGED <<hostVars, command, serverVars, clientVars, faults>>

(* client_run reaps the workload and the reader of the fifo first.          *)
client_run(c) ==
    /\ script[c] = "client-run" /\ workload[c] \in {"0", "1"} /\ ~fifo[c]
    /\ Prints(c, ExitLine(c)) /\ script' = [script EXCEPT ![c] = "shell"]
    /\ UNCHANGED <<hostVars, command, serverVars, clientVars, faults>>

-----------------------------------------------------------------------------
(* The host.                                                                *)
Raises(end) == pc' = end /\ UNCHANGED <<waiter, command>>
Raise == Raises("failed")
Sends(g, name) == command' = [command EXCEPT ![g] = name]
Steps(next) == pc' = next /\ UNCHANGED waiter

(* wait_console: the marker, a failure, or the deadline.                    *)
wait_console(g, marker) == IsShown(g, marker)

(* wait_recorded_console: the marker is shown, and its record is written.   *)
wait_recorded_console(g, marker) ==
    /\ wait_console(g, marker)
    /\ HasWaitEvent /\ IsRecorded(g, marker)

HostStarts ==
    /\ pc = "start"
    /\ Steps("layout") /\ Sends(Server, "server-start")
    /\ UNCHANGED <<consoleVars, serverVars, script, clientVars, faults>>

(* Mutant: the clients are asked one at a time.                             *)
DispatchesFirst == [g \in Guests |-> IF g = 1 THEN "client-start" ELSE "none"]

(* dispatch_bounded_client_commands: every client before any wait.          *)
dispatch_bounded_client_commands == [g \in Guests |-> IF g = Server THEN "none" ELSE "client-start"]

LayoutMarker == IF Mode = "single" THEN "READY" ELSE "LAYOUT"

HostDispatches ==
    /\ pc = "layout"
    /\ \/ /\ wait_console(Server, LayoutMarker)
          /\ pc' = "ready" /\ command' = dispatch_bounded_client_commands
          /\ waiter' = [c \in Clients |-> "queued"]
       \/ ~wait_console(Server, LayoutMarker) /\ Raise
    /\ UNCHANGED <<consoleVars, serverVars, script, clientVars, faults>>

(* The pool of waits, as many at once as the setup allows; the pool for the  *)
(* end of the workload has a worker per client, so none of those waits is   *)
(* queued.  A wait that fails leaves the others to finish.                  *)
Marker == IF pc = "ready" THEN "WAITING" ELSE "EXIT"
Workers == setup.parallelism

WaiterStarts(c) ==
    /\ waiter[c] = "queued" /\ \A d \in 1 .. c - 1 : waiter[d] # "queued"
    /\ Cardinality({ d \in Clients : waiter[d] = "waiting" }) < Workers
    /\ waiter' = [waiter EXCEPT ![c] = "waiting"]
    /\ UNCHANGED <<pc, command, consoleVars, serverVars, script, clientVars, faults>>

(* Mutant: the pool waits for visibility only.                              *)
WaiterSatisfiedEarly(c) == wait_console(c, Marker)

WaiterSatisfied(c) ==
    IF Mode = "single" /\ pc = "ready" THEN wait_console(c, Marker) ELSE wait_recorded_console(c, Marker)

WaiterEnds(c) ==
    /\ waiter[c] = "waiting"
    /\ waiter' = [waiter EXCEPT ![c] = IF WaiterSatisfied(c) THEN "ok" ELSE "raised"]
    /\ UNCHANGED <<pc, command, consoleVars, serverVars, script, clientVars, faults>>

PoolEnded == \A c \in Clients : waiter[c] \in {"ok", "raised"}
PoolFailed == \E c \in Clients : waiter[c] = "raised"

HostJoinsReady ==
    /\ pc = "ready" /\ PoolEnded
    /\ \/ PoolFailed /\ Raise
       \/ ~PoolFailed /\ Mode # "single" /\ Steps("recovering") /\ UNCHANGED command
    /\ UNCHANGED <<consoleVars, serverVars, script, clientVars, faults>>

(* The single client is asked to run as soon as it is ready.                *)
HostRunsSingle ==
    /\ pc = "ready" /\ PoolEnded /\ ~PoolFailed /\ Mode = "single"
    /\ pc' = "work" /\ Sends(1, "client-run") /\ waiter' = [c \in Clients |-> "waiting"]
    /\ UNCHANGED <<consoleVars, serverVars, script, clientVars, faults>>

HostAdmits ==
    /\ pc = "recovering"
    /\ \/ wait_console(Server, "RECOVERING") /\ Steps("admit") /\ Sends(Server, "server-admit")
       \/ ~wait_console(Server, "RECOVERING") /\ Raise
    /\ UNCHANGED <<consoleVars, serverVars, script, clientVars, faults>>

HostServes ==
    /\ pc = "admit"
    /\ \/ ~wait_recorded_console(Server, "READY") /\ Raise
       \/ /\ wait_recorded_console(Server, "READY") /\ Mode = "admission"
          /\ Steps("evidence") /\ UNCHANGED command
       \/ /\ wait_recorded_console(Server, "READY") /\ Mode = "workload"
          /\ pc' = "work" /\ waiter' = [c \in Clients |-> "waiting"]
          /\ command' = [g \in Guests |-> IF g = Server THEN "none" ELSE "client-wait"]
    /\ UNCHANGED <<consoleVars, serverVars, script, clientVars, faults>>

HostJoinsWork ==
    /\ pc = "work" /\ PoolEnded
    /\ IF PoolFailed THEN Raise ELSE Steps("evidence") /\ UNCHANGED command
    /\ UNCHANGED <<consoleVars, serverVars, script, clientVars, faults>>

(* build_startup_pipeline_evidence: the milestones, each recorded, in order. *)
Milestones ==
    {<<Server, "server-start">>, <<Server, "LAYOUT">>, <<Server, "RECOVERING">>,
     <<Server, "server-admit">>, <<Server, "READY">>}
    \cup Clients \X {"client-start", "WAITING"}
MilestonesRecorded == \A m \in Milestones : IsRecorded(m[1], m[2])
AdmissionInOrder == late \cap ({Server} \X {"server-admit", "READY"}) = {}
LayoutInOrder == late \cap (Clients \X {"client-start"}) = {}

(* read_phase_timeline.                                                     *)
PhasesRecorded == \A c \in Clients : IsRecorded(c, "PHASE")

EvidenceAccepted ==
    /\ Mode # "single" => MilestonesRecorded /\ AdmissionInOrder /\ LayoutInOrder
    /\ Mode # "admission" => PhasesRecorded

HostValidates ==
    /\ pc = "evidence"
    /\ IF ~EvidenceAccepted THEN Raises("refused")
       ELSE IF Mode = "single" THEN Steps("reading") /\ UNCHANGED command
       ELSE Steps("stop") /\ Sends(Server, "server-stop")
    /\ UNCHANGED <<consoleVars, serverVars, script, clientVars, faults>>

(* The provider reports its stop and its counters are in order, or not.     *)
HostStops ==
    /\ pc = "stop"
    /\ \/ wait_console(Server, "STOPPED") /\ Steps("reading") /\ UNCHANGED command
       \/ Raise
    /\ UNCHANGED <<consoleVars, serverVars, script, clientVars, faults>>

(* The guests and CXLMemSim are terminated, whatever goes wrong with that    *)
(* being swallowed, and the traces and final statistics read.               *)
HostReadsTraces ==
    /\ pc = "reading"
    /\ (Steps("passed") /\ UNCHANGED command) \/ Raise
    /\ UNCHANGED <<consoleVars, serverVars, script, clientVars, faults>>

Host ==
    \/ HostStarts \/ HostDispatches \/ HostJoinsReady \/ HostRunsSingle \/ HostAdmits
    \/ HostServes \/ HostJoinsWork \/ HostValidates \/ HostStops \/ HostReadsTraces
    \/ \E c \in Clients : WaiterStarts(c) \/ WaiterEnds(c)
ServerGuest ==
    \/ \E name \in {"server-start", "server-admit", "server-stop"} : BeginsServer(name)
    \/ server_start \/ bounded_server_start \/ ProviderRecovers
    \/ bounded_server_admit \/ bounded_server_stop
ClientGuest(c) ==
    \/ \E name \in {"client-start", "client-wait", "client-run"} : BeginsClient(c, name)
    \/ ClientReady(c) \/ GateExpires(c) \/ LaunchesWorkload(c) \/ WorkloadRuns(c)
    \/ ForwardsPhase(c) \/ WritesRc(c) \/ bounded_client_wait(c) \/ client_run(c)

(* "failed": a wait raised, "refused": the validation of the evidence did.   *)
Ends == {"passed", "failed", "refused"}
Ended == pc \in Ends /\ UNCHANGED vars

Next ==
    \/ /\ pc \notin Ends /\ UNCHANGED setup
       /\ \/ Host \/ ServerGuest \/ \E c \in Clients : ClientGuest(c)
          \/ \E g \in Guests : ReaderShows(g) \/ ReaderRecords(g) \/ Fatal(g)
    \/ Ended

(* What happens by itself: the steps of the host, the guests and the readers  *)
(* that no deadline takes.  A wait of the host ends by its deadline when it  *)
(* raises, one of a client when its gate expires.                           *)
Works ==
    /\ \/ Host \/ ServerGuest \/ \E c \in Clients : ClientGuest(c)
       \/ \E g \in Guests : ReaderShows(g) \/ ReaderRecords(g)
    /\ pc' # "failed"
    /\ \A c \in Clients :
          /\ waiter'[c] = "raised" => waiter[c] = "raised"
          /\ workload'[c] = "expired" => workload[c] = "expired"

(* While one of them can run, one does; each takes finitely many steps.      *)
Spec == Init /\ [][Next]_vars /\ WF_vars(pc \notin Ends /\ Works /\ UNCHANGED setup)

-----------------------------------------------------------------------------
(* How a healthy run can still fail: a client's command is recorded before    *)
(* the layout it followed, the last phase marker is still on its way when   *)
(* the timeline is read, or the rc file is read before it is written.       *)
RaceLost ==
    \/ pc = "refused" /\ (~LayoutInOrder \/ ~PhasesRecorded)
    \/ \E c \in Clients : \E i \in DOMAIN printed[c] : printed[c][i] = "FAILED"

(* The cohort gets through, however few console waits run at once: while     *)
(* nothing fails, no deadline of the host passes and no gate expires, a run *)
(* passes or loses one of those races.  The READY clients wait for the      *)
(* provider, the provider for the cohort, and the host's pool for the READY *)
(* clients; no client waits for one that was not asked.                     *)
CohortGetsThrough ==
    []( /\ faults = 0 /\ pc # "failed"
        /\ \A c \in Clients : waiter[c] # "raised" /\ workload[c] # "expired" )
        => <>(pc = "passed" \/ RaceLost)

(* When the evidence is built, every milestone it needs is in the event      *)
(* files and admission is recorded in the order in which it happened.       *)
EvidenceIsRecorded == (pc = "evidence" /\ Mode # "single") => MilestonesRecorded /\ AdmissionInOrder

(* A run passes only when every workload ended with status 0 and, in the     *)
(* bounded modes, the provider has reported its stop, although the status   *)
(* is read from a file that may still be empty and through consoles that    *)
(* lag.  It says nothing of what is still running: the terminations before  *)
(* the verdict may fail unseen.                                             *)
SuccessIsReal ==
    pc = "passed" =>
        /\ Mode # "admission" => \A c \in Clients : workload[c] = "0"
        /\ Mode # "single" => provider = "stopped"

(* "Wait for console visibility and the matching flushed event record": a    *)
(* recorded wait whose line is both shown and recorded does not raise.      *)
RecordedWaitReturns ==
    [][ \A c \in Clients :
          (/\ waiter[c] = "waiting" /\ waiter'[c] = "raised"
           /\ IsShown(c, Marker)) => ~IsRecorded(c, Marker) ]_vars
==============================================================================
