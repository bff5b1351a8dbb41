------------------------------- MODULE Io500Run -------------------------------
(***************************************************************************)
(* execute of scripts/legofs_io500.py: one IO500 run.  The host starts the  *)
(* memory provider (CXLMemSim), boots the server guests and then the        *)
(* client guests, each group in a pool of threads, runs the MPI stage,      *)
(* collects its evidence, powers everything off in dependency order and     *)
(* writes result.json.  Guests print lines that a reader thread of the      *)
(* console copies into console.output, possibly late.  The protocols of     *)
(* single steps (clock, restart, export, watchdog) have modules of their    *)
(* own and appear here as gates that may raise.                             *)
(***************************************************************************)
EXTENDS Naturals, Sequences, Functions

CONSTANTS
    ServerCount, ClientCount,
    MaxFaults          \* bound: things that go wrong outside the runner

Count(r) == IF r = "server" THEN ServerCount ELSE ClientCount
Group(r) == { <<r, i>> : i \in 1 .. Count(r) }
Guests == Group("server") \cup Group("client")
Provider == <<"cxlmemsim", 1>>
Processes == Guests \cup {Provider}
CoordinatorGuest == <<"client", 1>>

VARIABLES
    pc, role, at,    \* the runner: its step, the group it works on, its place in a loop
    raised,          \* the exception in flight
    first,           \* the first exception of the run
    result,          \* result.json as written: status, first_failure, remaining processes
    status, failure, \* result["status"], result["first_failure"]
    boot,            \* boot threads
    start,           \* start offsets of launch_mpi
    proc,            \* "none", "running" or "exited"
    asked,           \* guests that were sent LEGOFS_POWEROFF, and the provider sent SIGINT
    stats,           \* the provider ended by itself and printed its counters
    stuck,           \* processes that cannot be stopped (or not be verified as ours)
    printed, read,   \* lines each guest printed, and how many its reader has read
    faults

runnerVars == <<pc, role, at, raised, first, result, status, failure, boot, start>>
outsideVars == <<proc, asked, stats, stuck, printed, read, faults>>
vars == <<runnerVars, outsideVars>>

NoResult == [status |-> "none", failure |-> "none", remaining |-> {}]

Init ==
    /\ pc = "provider" /\ role = "server" /\ at = 1 /\ raised = "none" /\ first = "none"
    /\ result = NoResult /\ status = "failed" /\ failure = "none"
    /\ boot = [g \in Guests |-> "none"] /\ start = [g \in Guests |-> 0]
    /\ proc = [p \in Processes |-> "none"] /\ asked = {} /\ stats = FALSE /\ stuck = {}
    /\ printed = [g \in Guests |-> <<>>] /\ read = [g \in Guests |-> 0] /\ faults = 0

-----------------------------------------------------------------------------
(* What happens outside the runner.                                         *)

(* The lines of a guest that console.output holds, from an offset on.       *)
Output(g, from) == { printed[g][i] : i \in from + 1 .. read[g] }

(* The reader thread reads what has arrived.                                *)
_read_output(g) ==
    /\ read[g] < Len(printed[g])
    /\ read' = [read EXCEPT ![g] = Len(printed[g])]
    /\ UNCHANGED <<runnerVars, proc, asked, stats, stuck, printed, faults>>

Prints(g, line) ==
    /\ proc[g] = "running" /\ line \notin Range(printed[g])
    /\ printed' = [printed EXCEPT ![g] = Append(@, line)]
    /\ UNCHANGED <<runnerVars, proc, asked, stats, stuck, read>>

GuestReady(g) == boot[g] = "ok" /\ Prints(g, "ready") /\ UNCHANGED faults
StageEnds(line) ==
    /\ pc = "mpi" /\ {"rc0", "rc1"} \cap Range(printed[CoordinatorGuest]) = {}
    /\ Prints(CoordinatorGuest, line)
    /\ faults' = IF line = "rc0" THEN faults ELSE faults + 1
    /\ faults' <= MaxFaults
GuestFails(g, line) ==
    /\ boot[g] = "ok" /\ faults < MaxFaults /\ faults' = faults + 1 /\ Prints(g, line)
GuestPowersOff(g) ==
    /\ g \in asked /\ proc[g] = "running" /\ proc' = [proc EXCEPT ![g] = "exited"]
    /\ UNCHANGED <<runnerVars, asked, stats, stuck, printed, read, faults>>
ProviderEnds ==
    /\ Provider \in asked /\ proc[Provider] = "running"
    /\ proc' = [proc EXCEPT ![Provider] = "exited"] /\ stats' = TRUE
    /\ UNCHANGED <<runnerVars, asked, stuck, printed, read, faults>>
Crashes(p) ==
    /\ proc[p] = "running" /\ faults < MaxFaults
    /\ proc' = [proc EXCEPT ![p] = "exited"] /\ faults' = faults + 1
    /\ UNCHANGED <<runnerVars, asked, stats, stuck, printed, read>>
Sticks(p) ==
    /\ proc[p] = "running" /\ p \notin stuck /\ faults < MaxFaults
    /\ stuck' = stuck \cup {p} /\ faults' = faults + 1
    /\ UNCHANGED <<runnerVars, proc, asked, stats, printed, read>>

Outside ==
    \/ \E g \in Guests : _read_output(g) \/ GuestReady(g) \/ GuestPowersOff(g)
    \/ \E g \in Guests, line \in {"fatal", "fault"} : GuestFails(g, line)
    \/ \E line \in {"rc0", "rc1"} : StageEnds(line)
    \/ ProviderEnds
    \/ \E p \in Processes : Crashes(p) \/ Sticks(p)

-----------------------------------------------------------------------------
(* The runner.  An exception inside a pool waits for the pool's threads      *)
(* before it reaches the except clause.                                     *)
InPool == pc \in {"start", "join"}

Raise(what) ==
    /\ raised' = what
    /\ first' = IF first = "none" THEN what ELSE first
    /\ pc' = IF InPool THEN "drain" ELSE "except"
    /\ UNCHANGED <<role, at, result, status, failure, boot, start, outsideVars>>

Goto(next, r) ==
    /\ pc' = next /\ role' = r /\ at' = 1
    /\ UNCHANGED <<raised, first, result, status, failure, boot, start>>

(* The image files, the port reservations, and CXLMemSim.                   *)
StartsProvider ==
    /\ pc = "provider"
    /\ \/ Raise("start")
       \/ /\ proc' = [proc EXCEPT ![Provider] = "running"] /\ Goto("listen", role)
          /\ UNCHANGED <<asked, stats, stuck, printed, read, faults>>

(* wait_log: the provider listens, has exited, or takes too long.           *)
wait_log ==
    /\ pc = "listen"
    /\ \/ Raise("listen")
       \/ proc[Provider] = "running" /\ Goto("start", "server") /\ UNCHANGED outsideVars

(* The loop over a group: Console starts the QEMU, the pool its boot_guest.  *)
StartsGuest ==
    /\ pc = "start"
    /\ IF <<role, at>> \notin Group(role) THEN Goto("join", role) /\ UNCHANGED outsideVars
       ELSE \/ Raise("start")
            \/ /\ proc' = [proc EXCEPT ![<<role, at>>] = "running"]
               /\ boot' = [boot EXCEPT ![<<role, at>>] = "running"]
               /\ at' = at + 1
               /\ UNCHANGED <<pc, role, raised, first, result, status, failure, start, asked,
                              stats, stuck, printed, read, faults>>

(* boot_guest in its thread: the U-Boot dialogue and its decoder checks.    *)
boot_guest(g) ==
    /\ boot[g] = "running"
    /\ \E outcome \in {"ok", "raised"} :
        /\ outcome = "ok" => proc[g] = "running"
        /\ boot' = [boot EXCEPT ![g] = outcome]
    /\ UNCHANGED <<pc, role, at, raised, first, result, status, failure, start, outsideVars>>

ThreadsEnded == \A g \in Guests : boot[g] # "running"

(* Leaving the with block.                                                  *)
DrainsPool ==
    /\ pc = "drain" /\ ThreadsEnded
    /\ Goto("except", role) /\ UNCHANGED outsideVars

JoinsBoots ==
    /\ pc = "join" /\ ThreadsEnded
    /\ IF \E g \in Group(role) : boot[g] = "raised" THEN Raise("boot")
       ELSE Goto("ready", role) /\ UNCHANGED outsideVars

(* wait_guest_marker, guest by guest.  What a guest that is ready reported   *)
(* of its persistence (parse_persistence_execution) may still be refused.   *)
wait_guest_marker ==
    /\ pc = "ready"
    /\ IF <<role, at>> \notin Group(role)
       THEN /\ IF role = "server" THEN Goto("start", "client") ELSE Goto("sync", role)
            /\ UNCHANGED outsideVars
       ELSE LET g == <<role, at>> IN
            \/ "fatal" \in Output(g, 0) /\ Raise("fatal")
            \/ /\ "fatal" \notin Output(g, 0) /\ "ready" \in Output(g, 0)
               /\ at' = at + 1
               /\ UNCHANGED <<pc, role, raised, first, result, status, failure, boot, start, outsideVars>>
            \/ "fatal" \notin Output(g, 0) /\ Raise("ready")

(* The clock synchronization, the thread-exit probe and the fault profile.  *)
Prepares ==
    /\ pc = "sync"
    /\ Raise("prepare") \/ (Goto("launch", role) /\ UNCHANGED outsideVars)

(* launch_mpi up to the wait: the offsets, and the dialogue with Hydra.     *)
launch_mpi ==
    /\ pc = "launch"
    /\ \/ Raise("launch")
       \/ /\ proc[CoordinatorGuest] = "running"
          /\ start' = read /\ pc' = "mpi"
          /\ UNCHANGED <<role, at, raised, first, result, status, failure, boot, outsideVars>>

(* wait_mpi_exit: failures of any guest come before the exit status; a       *)
(* status other than 0 goes through the diagnostics.                        *)
Troubled == \E g \in Guests : {"fatal", "fault"} \cap Output(g, start[g]) # {}

wait_mpi_exit ==
    /\ pc = "mpi"
    /\ IF Troubled THEN Raise("trouble")
       ELSE IF "rc1" \in Output(CoordinatorGuest, start[CoordinatorGuest])
       THEN /\ raised' = "stage" /\ first' = "stage" /\ pc' = "diagnose" /\ at' = 1
            /\ UNCHANGED <<role, result, status, failure, boot, start, outsideVars>>
       ELSE IF "rc0" \in Output(CoordinatorGuest, start[CoordinatorGuest])
       THEN Goto("observe", role) /\ UNCHANGED outsideVars
       ELSE Raise("wait")

(* dump_observations_safely returns whatever happens, an interrupt included. *)
dump_observations_safely ==
    /\ pc = "observe"
    /\ Goto("gates", role) /\ UNCHANGED outsideVars

(* Mutant: a failing diagnostic becomes the failure of the run.             *)
DiagnosesLoudly ==
    /\ pc = "diagnose"
    /\ raised' = "diagnostic" /\ pc' = "except"
    /\ UNCHANGED <<role, at, first, result, status, failure, boot, start, outsideVars>>

(* except MpiStageError: observations, placement, summaries, inspection.     *)
(* What they raise is recorded beside them, and the stage's error goes on.  *)
Diagnoses ==
    /\ pc = "diagnose"
    /\ pc' = IF at < 4 THEN pc ELSE "except"
    /\ at' = at + 1
    /\ UNCHANGED <<role, raised, first, result, status, failure, boot, start, outsideVars>>

(* The gates of the stage (placement, summaries, inspection, verifier).     *)
Gates ==
    /\ pc = "gates"
    /\ Raise("gates") \/ (Goto("off", "server") /\ UNCHANGED outsideVars)

(* LEGOFS_POWEROFF to a group; a console that has ended is not writable.    *)
PowersOff ==
    /\ pc = "off"
    /\ IF <<role, at>> \notin Group(role) THEN Goto("finish", role) /\ UNCHANGED outsideVars
       ELSE IF proc[<<role, at>>] = "exited" THEN Raise("send")
       ELSE /\ asked' = asked \cup {<<role, at>>} /\ at' = at + 1
            /\ UNCHANGED <<pc, role, raised, first, result, status, failure, boot, start,
                           proc, stats, stuck, printed, read, faults>>

(* stop_process: a process that is stuck stays, and that is not an error.   *)
Stopped(p) == IF p \in stuck \/ proc[p] # "running" THEN proc ELSE [proc EXCEPT ![p] = "exited"]

(* finish_guest_processes: the grace period is over for one guest, and the   *)
(* group is finished when each has ended or could not be stopped.           *)
FinishesGuest(g) ==
    /\ pc = "finish" /\ g \in Group(role) /\ proc[g] = "running" /\ g \notin stuck
    /\ proc' = Stopped(g)
    /\ UNCHANGED <<runnerVars, asked, stats, stuck, printed, read, faults>>

FinishesGroup ==
    /\ pc = "finish" /\ \A g \in Group(role) : proc[g] = "exited" \/ g \in stuck
    /\ IF role = "server" THEN Goto("off", "client") ELSE Goto("retire", role)
    /\ UNCHANGED outsideVars

(* SIGINT to the provider; after 30 seconds it is stopped.                  *)
RetiresProvider ==
    /\ pc = "retire"
    /\ IF Provider \notin asked
       THEN asked' = asked \cup {Provider} /\ UNCHANGED <<pc, at, proc>>
       ELSE proc' = Stopped(Provider) /\ pc' = "stats" /\ at' = 1 /\ UNCHANGED asked
    /\ UNCHANGED <<role, raised, first, result, status, failure, boot, start,
                   stats, stuck, printed, read, faults>>

(* The results, the provider's final counters and the verifier's verdict.   *)
ReadsStats ==
    /\ pc = "stats"
    /\ Raise("stats") \/ (stats /\ Goto("recheck", role) /\ UNCHANGED outsideVars)

(* validate_guest_process_faults over what the readers have read.           *)
RecheckedLines(g) == Output(g, 0)

Rechecks ==
    /\ pc = "recheck"
    /\ IF \E g \in Guests : "fault" \in RecheckedLines(g) THEN Raise("fault")
       ELSE /\ status' = "passed" /\ pc' = "finally" /\ at' = 1
            /\ UNCHANGED <<role, raised, first, result, failure, boot, start, outsideVars>>

(* A KeyboardInterrupt of the main thread inside the try block.  It is       *)
(* swallowed in dump_observations_safely, and replaces the stage's error    *)
(* when it hits the diagnostics.  One that hits the wait for a pool's        *)
(* threads leaves the pool with its threads still running.                  *)
Interrupted ==
    /\ faults < MaxFaults /\ faults' = faults + 1
    /\ pc \in {"provider", "listen", "start", "join", "ready", "sync", "launch", "mpi",
               "drain", "diagnose", "gates", "off", "finish", "retire", "stats", "recheck"}
    /\ raised' = "interrupt" /\ first' = IF first = "none" THEN "interrupt" ELSE first
    /\ pc' = IF InPool THEN "drain" ELSE "except"
    /\ UNCHANGED <<role, at, result, status, failure, boot, start,
                   proc, asked, stats, stuck, printed, read>>

(* except BaseException.                                                    *)
Excepts ==
    /\ pc = "except"
    /\ failure' = raised /\ pc' = "finally" /\ at' = 1
    /\ UNCHANGED <<role, raised, first, result, status, boot, start, outsideVars>>

-----------------------------------------------------------------------------
InOrder(r) == [i \in 1 .. Count(r) |-> <<r, i>>]

(* Mutant: processes are stopped in the order in which they were started.   *)
started_order == <<Provider>> \o InOrder("server") \o InOrder("client")

(* stop_run_processes_in_dependency_order.                                  *)
dependency_order == InOrder("server") \o InOrder("client") \o <<Provider>>

(* The finally clause: one process after the other ...                      *)
StopsProcess ==
    /\ pc = "finally" /\ at <= Len(dependency_order)
    /\ proc' = Stopped(dependency_order[at]) /\ at' = at + 1
    /\ UNCHANGED <<pc, role, raised, first, result, status, failure, boot, start,
                   asked, stats, stuck, printed, read, faults>>

(* process_cleanup_status.                                                  *)
owned_processes_remaining == { p \in Processes : proc[p] = "running" }

(* ... and the result with what remains.                                    *)
WritesResult ==
    /\ pc = "finally" /\ at > Len(dependency_order)
    /\ status' = IF owned_processes_remaining # {} THEN "failed" ELSE status
    /\ failure' = IF owned_processes_remaining # {} /\ failure = "none" THEN "cleanup" ELSE failure
    /\ result' = [status |-> status', failure |-> failure', remaining |-> owned_processes_remaining]
    /\ pc' = "done"
    /\ UNCHANGED <<role, at, raised, first, boot, start, outsideVars>>

Runner ==
    \/ StartsProvider \/ wait_log \/ StartsGuest \/ DrainsPool \/ JoinsBoots \/ wait_guest_marker
    \/ Prepares \/ launch_mpi \/ wait_mpi_exit \/ dump_observations_safely \/ Diagnoses \/ Gates
    \/ PowersOff \/ (\E g \in Guests : FinishesGuest(g)) \/ FinishesGroup \/ RetiresProvider
    \/ ReadsStats \/ Rechecks \/ Excepts \/ StopsProcess \/ WritesResult
Threads == \E g \in Guests : boot_guest(g)
Done == pc = "done" /\ UNCHANGED vars

Next == Runner \/ Threads \/ Interrupted \/ Outside \/ Done

(* The runner's waits are bounded and its threads are scheduled.            *)
Spec == Init /\ [][Next]_vars /\ WF_vars(Runner) /\ \A g \in Guests : WF_vars(boot_guest(g))

-----------------------------------------------------------------------------
Ends(p) == proc[p] = "running" /\ proc'[p] = "exited" /\ UNCHANGED faults

(* Accessors end before endpoints and endpoints before the provider: unless  *)
(* a process ends by accident, a client ends only when every server has      *)
(* ended or cannot be stopped, and the provider only when the same holds of  *)
(* every guest.  This covers the orderly and the failing path.              *)
EndsInOrder ==
    \A p \in Processes : Ends(p) =>
        \A q \in Processes :
            (\/ p[1] = "client" /\ q[1] = "server"
             \/ p = Provider /\ q \in Guests)
            => proc[q] # "running" \/ q \in stuck

(* The result names the first failure of the run, whatever fails while it is *)
(* diagnosed and cleaned up.  An interrupt in between takes its place.       *)
FirstFailureKept ==
    (result # NoResult /\ first # "none") => result.failure \in {first, "interrupt"}
==============================================================================
