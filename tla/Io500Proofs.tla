----------------------------- MODULE Io500Proofs -----------------------------
(***************************************************************************)
(* What the protocols of the IO500 runner promise for any number of guests  *)
(* and any number of faults: the clock of the measured phases, the one      *)
(* authority of a restart, the failure a result names and the order in      *)
(* which the processes of a run end.                                        *)
(***************************************************************************)
EXTENDS Io500Parts, Sequences, TLAPS


(* A step of the whole is a step of the part it is of, or leaves it alone.  *)
LEMMA PartSteps ==
    ASSUME [Next]_vars
    PROVE  /\ part' = part
           /\ part = "clock" => [Clock!Next]_(Clock!vars)
           /\ part = "restart" => [Restart!Next]_(Restart!vars)
           /\ part = "run" => [Run!Next]_(Run!vars)
<1>1. CASE UNCHANGED vars
  BY <1>1, Zenon DEF vars, Clock!vars, Clock!guestVars, Clock!rankVars, Restart!vars,
              Restart!hostVars, Restart!serverVars, Run!vars, Run!runnerVars, Run!outsideVars
<1>2. CASE Next
  BY <1>2, Zenon DEF Next, OutsideClock, OutsideRestart, OutsideExport, OutsideWatchdog, OutsideRun
<1> QED BY <1>1, <1>2

-----------------------------------------------------------------------------
(* The restart profiles.  A successor exists only when the old server has   *)
(* ended, and an ended server does not come back.                           *)
RestartInv ==
    /\ server \in [{1, 2} -> {"none", "starting", "serving", "exited"}]
    /\ server[2] # "none" => server[1] = "exited"

(* Every step of a restart profile keeps that.                              *)
LEMMA RestartStep ==
    ASSUME RestartInv, [Restart!Next]_(Restart!vars)
    PROVE  RestartInv'
<1> USE DEF RestartInv
<1>1. CASE UNCHANGED Restart!vars
  BY <1>1 DEF Restart!vars, Restart!serverVars
<1>2. CASE Restart!RunnerStep \/ Restart!Expires
  BY <1>2, Zenon DEF Restart!RunnerStep, Restart!Send, Restart!Received, Restart!RecordRejected,
              Restart!Passes, Restart!Expires, Restart!serverVars
<1>3. CASE Restart!ClientStep
  BY <1>3, Zenon DEF Restart!ClientStep, Restart!ClientRuns, Restart!HoldBegins, Restart!HoldEnds,
              Restart!serverVars
<1>4. CASE Restart!RestartBegins \/ Restart!Polls
  BY <1>4 DEF Restart!RestartBegins, Restart!Polls
<1>5. CASE Restart!OldServerExits
  BY <1>5 DEF Restart!OldServerExits
<1>6. CASE Restart!StartSuccessor
  BY <1>6 DEF Restart!StartSuccessor
<1>7. CASE Restart!SuccessorStarts
  BY <1>7 DEF Restart!SuccessorStarts
<1>8. CASE Restart!ProbeBegins \/ Restart!ProbeListens \/ Restart!ProbeDies
             \/ Restart!ProbeReports \/ Restart!ProbeStops
  BY <1>8 DEF Restart!ProbeBegins, Restart!ProbeListens, Restart!ProbeDies,
              Restart!ProbeReports, Restart!ProbeStops
<1>9. CASE \E n \in Restart!Generations : Restart!ServerCrashes(n)
  BY <1>9 DEF Restart!ServerCrashes, Restart!Generations
<1> QED BY <1>1, <1>2, <1>3, <1>4, <1>5, <1>6, <1>7, <1>8, <1>9
        DEF Restart!Next, Restart!ServerStep

(* In every behaviour, whatever crashes, two generations of the LegoFS      *)
(* server never run at the same time.                                       *)
THEOREM OneAuthorityAlways == Spec => []OneAuthority
<1> DEFINE I == part = "restart" => RestartInv
<1>1. Init => I
  BY DEF Init, Restart!Init, RestartInv, Restart!Generations
<1>2. I /\ [Next]_vars => I'
  BY PartSteps, RestartStep
<1>3. I => OneAuthority
  BY DEF RestartInv, OneAuthority, Restart!OneAuthority
<1> QED BY <1>1, <1>2, <1>3, PTL DEF Spec

-----------------------------------------------------------------------------
(* The clocks.  Between two synchronizations no clock command is under way  *)
(* anywhere; during one, the command is the last line sent to each guest,   *)
(* and a guest with a receipt has consumed it.                              *)

Commands == {Clock!SetTime(1), Clock!SetTime(2), Clock!Mpi, Clock!Proxy}
Quiet(g) == \A i \in 1 .. Len(stdin[g]) : stdin[g][i][1] # "SET_TIME"
LastIs(g, n) ==
    /\ Len(stdin[g]) > 0 /\ stdin[g][Len(stdin[g])] = Clock!SetTime(n)
    /\ \A i \in 1 .. Len(stdin[g]) - 1 : stdin[g][i][1] # "SET_TIME"

(* Every guest applied synchronization n, and none is under way.            *)
Settled(n) == \A g \in Clock!Guests : Quiet(g) /\ clock[g] = n
(* Synchronization n has been sent to every guest.                          *)
Syncing(n) ==
    \A g \in Clock!Guests :
        \/ LastIs(g, n) /\ <<g, n>> \notin receipts
        \/ Quiet(g) /\ (<<g, n>> \in receipts => clock[g] = n)
Unreceived(n) == \A g \in Clock!Guests : <<g, n>> \notin receipts

ClockInv ==
    /\ stdin \in [Clock!Guests -> Seq(Commands)]
    /\ clock \in [Clock!Guests -> 0 .. 2]
    /\ host = "sync" => Unreceived(1) /\ Unreceived(2) /\ \A g \in Clock!Guests : Quiet(g)
    /\ host = "synced" => Syncing(1) /\ Unreceived(2)
    /\ host \in {"probe", "launch", "hydra", "proxies", "ready", "resync"} =>
          Settled(1) /\ Unreceived(2)
    /\ host = "resynced" => Syncing(2)
    /\ host = "release" => Settled(2)
    /\ host = "measure" => \E n \in {1, 2} : Settled(n)

(* A line that is no clock command, sent to a guest with no clock command   *)
(* under way, leaves it so.                                                 *)
LEMMA Sending ==
    ASSUME NEW g, stdin[g] \in Seq(Commands), NEW line \in {Clock!Mpi, Clock!Proxy},
           stdin'[g] = stdin[g] \/ stdin'[g] = Append(stdin[g], line), Quiet(g)
    PROVE  Quiet(g)'
<1>1. line \in Commands /\ line[1] # "SET_TIME"
  BY DEF Commands, Clock!Mpi, Clock!Proxy
<1>2. CASE stdin'[g] = stdin[g]
  BY <1>2 DEF Quiet
<1>3. CASE stdin'[g] = Append(stdin[g], line)
  <2>1. /\ Len(stdin[g]) \in Nat
        /\ Len(stdin'[g]) = Len(stdin[g]) + 1
        /\ stdin'[g][Len(stdin[g]) + 1] = line
        /\ \A i \in 1 .. Len(stdin[g]) : stdin'[g][i] = stdin[g][i]
    BY <1>1, <1>3
  <2> QED BY <1>1, <2>1 DEF Quiet
<1> QED BY <1>2, <1>3

(* Nor does PID 1 change what clock command is under way by taking another  *)
(* line.                                                                    *)
LEMMA Taking ==
    ASSUME NEW g, stdin[g] \in Seq(Commands), NEW n \in {1, 2},
           stdin[g] # <<>>, Head(stdin[g])[1] # "SET_TIME", stdin'[g] = Tail(stdin[g])
    PROVE  /\ Quiet(g) => Quiet(g)'
           /\ LastIs(g, n) => LastIs(g, n)'
<1>1. /\ Len(stdin[g]) \in Nat /\ Len(stdin[g]) > 0
      /\ Len(stdin'[g]) = Len(stdin[g]) - 1
      /\ \A i \in 1 .. Len(stdin[g]) - 1 : stdin'[g][i] = stdin[g][i + 1]
      /\ stdin[g][1][1] # "SET_TIME"
  OBVIOUS
<1>2. Clock!SetTime(n)[1] = "SET_TIME"
  BY DEF Clock!SetTime
<1>3. Quiet(g) => Quiet(g)'
  BY <1>1 DEF Quiet
<1>4. LastIs(g, n) => LastIs(g, n)'
  <2>1. LastIs(g, n) => Len(stdin[g]) > 1
    BY <1>1, <1>2 DEF LastIs
  <2> QED BY <1>1, <2>1 DEF LastIs
<1> QED BY <1>3, <1>4

(* A synchronization that is sent is the last line of every guest.          *)
LEMMA SyncingBegins ==
    ASSUME NEW n \in {1, 2}, NEW g, stdin[g] \in Seq(Commands), Quiet(g),
           stdin'[g] = Append(stdin[g], Clock!SetTime(n))
    PROVE  LastIs(g, n)'
<1>1. Clock!SetTime(n) \in Commands
  BY DEF Commands
<1>2. /\ Len(stdin[g]) \in Nat
      /\ Len(stdin'[g]) = Len(stdin[g]) + 1
      /\ stdin'[g][Len(stdin[g]) + 1] = Clock!SetTime(n)
      /\ \A i \in 1 .. Len(stdin[g]) : stdin'[g][i] = stdin[g][i]
  BY <1>1
<1> QED BY <1>2 DEF Quiet, LastIs

(* PID 1 takes a clock command only during a synchronization, as its last   *)
(* line.                                                                    *)
LEMMA TakingTheClock ==
    ASSUME NEW g, stdin[g] \in Seq(Commands), stdin[g] # <<>>,
           Head(stdin[g])[1] = "SET_TIME", stdin'[g] = Tail(stdin[g])
    PROVE  /\ ~Quiet(g)
           /\ \A n \in {1, 2} : LastIs(g, n) => Quiet(g)' /\ Head(stdin[g])[2] = n
<1>1. /\ Len(stdin[g]) \in Nat /\ Len(stdin[g]) > 0
      /\ Len(stdin'[g]) = Len(stdin[g]) - 1
      /\ stdin[g][1][1] = "SET_TIME" /\ Head(stdin[g]) = stdin[g][1]
  OBVIOUS
<1>2. ~Quiet(g)
  BY <1>1 DEF Quiet
<1>3. ASSUME NEW n \in {1, 2}, LastIs(g, n)
      PROVE  Quiet(g)' /\ Head(stdin[g])[2] = n
  <2>1. Len(stdin[g]) = 1
    <3>1. 1 \notin 1 .. Len(stdin[g]) - 1
      BY <1>1, <1>3 DEF LastIs
    <3>2. \A k \in Nat : k > 0 /\ 1 \notin 1 .. k - 1 => k = 1
      OBVIOUS
    <3> QED BY <1>1, <3>1, <3>2, Zenon
  <2>2. stdin[g][1] = Clock!SetTime(n)
    BY <1>3, <2>1 DEF LastIs
  <2> QED BY <1>1, <2>1, <2>2 DEF Quiet, Clock!SetTime
<1> QED BY <1>2, <1>3

(* What the guests hold is kept by every step that sends nothing and takes  *)
(* no command: only the place of the runner counts.                         *)
LEMMA RunnerMoves ==
    ASSUME ClockInv, UNCHANGED <<stdin, clock, receipts>>,
           \/ host' = host
           \/ host \in {"probe", "launch", "hydra", "proxies", "ready"} /\
              host' \in {"probe", "launch", "hydra", "proxies", "ready", "resync", "measure"}
           \/ host = "synced" /\ host' = "probe"
                 /\ \A g \in Clock!Guests : <<g, 1>> \in receipts
           \/ host = "resynced" /\ host' = "release"
                 /\ \A g \in Clock!Guests : <<g, 2>> \in receipts
           \/ host = "release" /\ host' = "measure"
           \/ host' \in {"done", "failed"}
    PROVE  ClockInv'
<1> USE DEF ClockInv
<1>1. \A n \in {1, 2} : /\ Settled(n) => Settled(n)'
                        /\ Syncing(n) => Syncing(n)'
                        /\ Unreceived(n) => Unreceived(n)'
  BY DEF Settled, Syncing, Unreceived, Quiet, LastIs
<1>2. (\A g \in Clock!Guests : Quiet(g)) => (\A g \in Clock!Guests : Quiet(g))'
  BY DEF Quiet
<1>3. \A n \in {1, 2} :
        Syncing(n) /\ (\A g \in Clock!Guests : <<g, n>> \in receipts) => Settled(n)
  BY Zenon DEF Settled, Syncing
<1> QED BY <1>1, <1>2, <1>3, Zenon

(* PID 1 of a guest takes a line.                                           *)
LEMMA GuestTakes ==
    ASSUME ClockInv, host' = host, NEW g \in Clock!Guests, stdin[g] # <<>>,
           stdin' = [stdin EXCEPT ![g] = Tail(@)],
           \/ UNCHANGED <<clock, receipts>>
           \/ /\ Head(stdin[g])[1] = "SET_TIME"
              /\ clock' = [clock EXCEPT ![g] = Head(stdin[g])[2]]
              /\ receipts' = receipts \cup {<<g, Head(stdin[g])[2]>>}
    PROVE  ClockInv'
<1>1. /\ stdin[g] \in Seq(Commands) /\ stdin'[g] = Tail(stdin[g])
      /\ \A h \in Clock!Guests \ {g} : stdin'[h] = stdin[h]
      /\ stdin' \in [Clock!Guests -> Seq(Commands)]
  BY DEF ClockInv
<1>2. Head(stdin[g]) \in Commands
  BY <1>1
<1>3. Head(stdin[g])[1] = "SET_TIME" => Head(stdin[g])[2] \in {1, 2}
  BY <1>2 DEF Commands, Clock!SetTime, Clock!Mpi, Clock!Proxy
<1>4. clock' \in [Clock!Guests -> 0 .. 2]
  BY <1>3 DEF ClockInv
<1>5. \A h \in Clock!Guests \ {g} :
        /\ Quiet(h) => Quiet(h)'
        /\ \A n \in {1, 2} : LastIs(h, n) => LastIs(h, n)'
        /\ \A n \in {1, 2} : <<h, n>> \in receipts' <=> <<h, n>> \in receipts
        /\ clock'[h] = clock[h]
  BY <1>1, <1>3 DEF ClockInv, Quiet, LastIs
<1>6. Quiet(g) => Quiet(g)' /\ UNCHANGED <<clock, receipts>>
  BY <1>1, Taking, TakingTheClock
<1>7. ASSUME NEW n \in {1, 2}, LastIs(g, n), <<g, n>> \notin receipts
      PROVE  \/ LastIs(g, n)' /\ <<g, n>> \notin receipts'
             \/ Quiet(g)' /\ (<<g, n>> \in receipts' => clock'[g] = n)
  <2>1. CASE Head(stdin[g])[1] # "SET_TIME"
    BY <1>1, <1>7, <2>1, Taking, Zenon
  <2>2. CASE Head(stdin[g])[1] = "SET_TIME"
    <3>1. Quiet(g)' /\ Head(stdin[g])[2] = n
      BY <1>1, <1>7, <2>2, TakingTheClock, Zenon
    <3> QED BY <1>7, <3>1 DEF ClockInv
  <2> QED BY <2>1, <2>2
<1>8. \A n \in {1, 2} : Syncing(n) => Syncing(n)'
  <2> SUFFICES ASSUME NEW n \in {1, 2}, Syncing(n), NEW h \in Clock!Guests
               PROVE  \/ LastIs(h, n)' /\ <<h, n>> \notin receipts'
                      \/ Quiet(h)' /\ (<<h, n>> \in receipts' => clock'[h] = n)
    BY DEF Syncing
  <2>1. CASE h = g
    BY <1>6, <1>7, <2>1 DEF Syncing
  <2>2. CASE h # g
    BY <1>5, <2>2, Zenon DEF Syncing
  <2> QED BY <2>1, <2>2, Zenon
<1>9. \A n \in {1, 2} : Settled(n) => Settled(n)'
  BY <1>5, <1>6, Zenon DEF Settled
<1>10. (\A h \in Clock!Guests : Quiet(h)) =>
          (\A h \in Clock!Guests : Quiet(h))' /\ UNCHANGED receipts
  BY <1>5, <1>6, Zenon
<1>11. \A n \in {1, 2}, m \in {1, 2} :
         Syncing(m) /\ m # n /\ Unreceived(n) => Unreceived(n)'
  <2> SUFFICES ASSUME NEW n \in {1, 2}, NEW m \in {1, 2}, Syncing(m), m # n, Unreceived(n)
               PROVE  <<g, n>> \notin receipts'
    BY <1>5 DEF Unreceived
  <2>1. CASE Quiet(g)
    BY <1>6, <2>1, Zenon DEF Unreceived
  <2>2. CASE LastIs(g, m)
    BY <1>1, <2>2, TakingTheClock DEF Unreceived
  <2> QED BY <2>1, <2>2, Zenon DEF Syncing
<1>12. \A n \in {1, 2} : Settled(n) => UNCHANGED receipts
  BY <1>6 DEF Settled
<1>13. host = "sync" => Unreceived(1)' /\ Unreceived(2)' /\ (\A h \in Clock!Guests : Quiet(h))'
  BY <1>10, Zenon DEF ClockInv, Unreceived
<1>14. host = "synced" => Syncing(1)' /\ Unreceived(2)'
  BY <1>8, <1>11 DEF ClockInv
<1>15. host \in {"probe", "launch", "hydra", "proxies", "ready", "resync"} =>
          Settled(1)' /\ Unreceived(2)'
  BY <1>9, <1>12, Zenon DEF ClockInv, Unreceived
<1> QED BY <1>1, <1>4, <1>8, <1>9, <1>13, <1>14, <1>15, Zenon DEF ClockInv

(* The runner sends a line to some of the guests.                           *)
LEMMA HostSends ==
    ASSUME ClockInv, NEW to, NEW line \in Commands, Clock!Send(to, line),
           UNCHANGED <<clock, receipts>>,
           \/ line \in {Clock!Mpi, Clock!Proxy} /\ host \in {"launch", "hydra"}
                 /\ host' \in {"hydra", "proxies"}
           \/ line = Clock!SetTime(1) /\ to = Clock!Guests /\ host = "sync" /\ host' = "synced"
           \/ line = Clock!SetTime(2) /\ to = Clock!Guests /\ host = "resync" /\ host' = "resynced"
    PROVE  ClockInv'
<1>1. /\ \A g \in Clock!Guests : stdin[g] \in Seq(Commands)
      /\ \A g \in Clock!Guests : stdin'[g] = stdin[g] \/ stdin'[g] = Append(stdin[g], line)
      /\ to = Clock!Guests => \A g \in Clock!Guests : stdin'[g] = Append(stdin[g], line)
      /\ stdin' \in [Clock!Guests -> Seq(Commands)]
  BY DEF ClockInv, Clock!Send
<1>2. \A n \in {1, 2} : Unreceived(n) => Unreceived(n)'
  BY DEF Unreceived
<1>3. CASE line \in {Clock!Mpi, Clock!Proxy} /\ host \in {"launch", "hydra"}
             /\ host' \in {"hydra", "proxies"}
  <2>1. Settled(1)'
    BY <1>1, <1>3, Sending, Zenon DEF ClockInv, Settled
  <2> QED BY <1>1, <1>2, <1>3, <2>1 DEF ClockInv
<1>4. ASSUME NEW n \in {1, 2}, line = Clock!SetTime(n), to = Clock!Guests,
             \A g \in Clock!Guests : Quiet(g), Unreceived(n)
      PROVE  Syncing(n)'
  BY <1>1, <1>4, SyncingBegins, Zenon DEF Syncing, Unreceived
<1>5. CASE line = Clock!SetTime(1) /\ to = Clock!Guests /\ host = "sync" /\ host' = "synced"
  BY <1>1, <1>2, <1>4, <1>5, Zenon DEF ClockInv
<1>6. CASE line = Clock!SetTime(2) /\ to = Clock!Guests /\ host = "resync" /\ host' = "resynced"
  BY <1>1, <1>2, <1>4, <1>6 DEF ClockInv, Settled
<1> QED BY <1>3, <1>5, <1>6

(* Every step of the launch keeps the inductive invariant.                  *)
LEMMA ClockStep ==
    ASSUME ClockInv, [Clock!Next]_(Clock!vars)
    PROVE  ClockInv'
<1> USE DEF Clock!Go, Clock!guestVars, Clock!rankVars
<1>1. CASE UNCHANGED Clock!vars
  BY <1>1, RunnerMoves DEF Clock!vars
<1>2. CASE \/ Clock!SyncReceived(1, "synced", "probe")
           \/ Clock!SyncReceived(2, "resynced", "release")
  BY <1>2, RunnerMoves, Zenon DEF Clock!SyncReceived
<1>3. CASE Clock!ThreadExitProbe \/ Clock!ProxiesStarted \/ Clock!wait_mpi_exit \/ Clock!HostExpires
  BY <1>3, RunnerMoves, Zenon
     DEF Clock!ThreadExitProbe, Clock!ProxiesStarted, Clock!wait_mpi_exit, Clock!HostExpires
<1>4. CASE Clock!Forwarded("READY", "ready", "resync") \/ Clock!Forwarded("RELEASED", "release", "measure")
  BY <1>4, RunnerMoves, Zenon DEF Clock!Forwarded
<1>5. CASE \E c \in Clients : Clock!RankStep(c)
  BY <1>5, RunnerMoves, Zenon DEF Clock!RankStep, Clock!RankReady, Clock!RankReleased
<1>6. CASE \/ Clock!SyncSends(1, "sync", "synced") \/ Clock!SyncSends(2, "resync", "resynced")
           \/ Clock!LaunchMpi \/ Clock!SendProxies
  BY <1>6, HostSends, Zenon DEF Clock!SyncSends, Clock!LaunchMpi, Clock!SendProxies, Commands
<1>7. CASE \E g \in Clock!Guests : Clock!GuestStep(g) \/ Clock!SetTimeFails(g)
  BY <1>7, GuestTakes
     DEF Clock!GuestStep, Clock!set_guest_time, Clock!SetTimeFails, Clock!StartMpi,
         Clock!StartProxy, Clock!Command, Clock!Consume
<1> QED BY <1>1, <1>2, <1>3, <1>4, <1>5, <1>6, <1>7, Zenon DEF Clock!Next, Clock!HostStep

(* For any servers and clients, and however many clock commands fail: when  *)
(* the runner begins to wait for the exit of the stage, every guest has     *)
(* applied the same last synchronization and no clock command is under way. *)
(* (Of the ranks, which may have begun before, it says nothing.)            *)
THEOREM MeasuresOneClockAlways == Spec => []MeasuresOneClock
<1> DEFINE I == part = "clock" => ClockInv
<1>1. Init => I
  <2>1. Init /\ part = "clock" => Clock!Init
    BY DEF Init
  <2> SUFFICES ASSUME Clock!Init PROVE ClockInv
    BY <2>1
  <2>2. \A g \in Clock!Guests : stdin[g] = <<>> /\ Len(stdin[g]) = 0
    BY DEF Clock!Init
  <2>3. stdin \in [Clock!Guests -> Seq(Commands)] /\ clock \in [Clock!Guests -> 0 .. 2]
    BY DEF Clock!Init
  <2>4. \A g \in Clock!Guests : Quiet(g)
    BY <2>2 DEF Quiet
  <2>5. host = "sync" /\ Unreceived(1) /\ Unreceived(2)
    BY Zenon DEF Clock!Init, Unreceived
  <2> QED BY <2>3, <2>4, <2>5, Zenon DEF ClockInv
<1>2. I /\ [Next]_vars => I'
  BY PartSteps, ClockStep
<1>3. I => MeasuresOneClock
  <2> SUFFICES ASSUME ClockInv, host = "measure"
               PROVE  \A g, h \in Clock!Guests :
                         clock[g] = clock[h] /\ Clock!SetTime(2) \notin Clock!Range(stdin[g])
    BY DEF MeasuresOneClock, Clock!MeasuresOneClock
  <2>1. \A g \in Clock!Guests : Clock!SetTime(2) \notin Clock!Range(stdin[g])
    <3> SUFFICES ASSUME NEW g \in Clock!Guests, NEW i \in DOMAIN stdin[g],
                        stdin[g][i] = Clock!SetTime(2)
                 PROVE  FALSE
      BY DEF Clock!Range
    <3>1. Quiet(g) /\ i \in 1 .. Len(stdin[g])
      BY DEF ClockInv, Settled
    <3> QED BY <3>1 DEF Quiet, Clock!SetTime
  <2> QED BY <2>1 DEF ClockInv, Settled
<1> QED BY <1>1, <1>2, <1>3, PTL DEF Spec

-----------------------------------------------------------------------------
(* The run, of which Io500RunProofs proves the same for the run on its own.  *)
(* Its other subject, the audit of payloads, is of no concern here.         *)
CONSTANTS Items, Owners, MaxReceipts
VARIABLES owner, item, durable, counts
R == INSTANCE Io500RunProofs WITH MaxFaults <- RunFaults

(* Both instances of the run are the same.                                  *)
LEMMA SameRun ==
    /\ Run!Init = R!Init /\ Run!Next = R!Next /\ Run!vars = R!vars
    /\ Run!FirstFailureKept = R!FirstFailureKept /\ Run!EndsInOrder = R!EndsInOrder
<1>1. Run!Init = R!Init
  BY Zenon DEF Run!Init, R!Init, Run!NoResult, R!NoResult, Run!Processes, R!Processes, Run!Guests,
         R!Guests, Run!Group, R!Group, Run!Count, R!Count, Run!Provider, R!Provider
<1>2. Run!Next = R!Next
  BY Zenon DEF Run!Count, R!Count, Run!Group, R!Group, Run!Guests, R!Guests, Run!Provider, R!Provider,
         Run!Processes, R!Processes, Run!CoordinatorGuest, R!CoordinatorGuest, Run!runnerVars,
         R!runnerVars, Run!outsideVars, R!outsideVars, Run!vars, R!vars, Run!NoResult,
         R!NoResult, Run!Output, R!Output, Run!_read_output, R!_read_output, Run!Prints,
         R!Prints, Run!GuestReady, R!GuestReady, Run!StageEnds, R!StageEnds, Run!GuestFails,
         R!GuestFails, Run!GuestPowersOff, R!GuestPowersOff, Run!ProviderEnds, R!ProviderEnds,
         Run!Crashes, R!Crashes, Run!Sticks, R!Sticks, Run!Outside, R!Outside, Run!InPool,
         R!InPool, Run!Raise, R!Raise, Run!Goto, R!Goto, Run!StartsProvider, R!StartsProvider,
         Run!wait_log, R!wait_log, Run!StartsGuest, R!StartsGuest, Run!boot_guest, R!boot_guest,
         Run!ThreadsEnded, R!ThreadsEnded, Run!DrainsPool, R!DrainsPool, Run!JoinsBoots,
         R!JoinsBoots, Run!wait_guest_marker, R!wait_guest_marker, Run!Prepares, R!Prepares,
         Run!launch_mpi, R!launch_mpi, Run!Troubled, R!Troubled, Run!wait_mpi_exit,
         R!wait_mpi_exit, Run!dump_observations_safely, R!dump_observations_safely,
         Run!DiagnosesLoudly, R!DiagnosesLoudly, Run!Diagnoses, R!Diagnoses, Run!Gates, R!Gates,
         Run!PowersOff, R!PowersOff, Run!Stopped, R!Stopped, Run!FinishesGuest, R!FinishesGuest,
         Run!FinishesGroup, R!FinishesGroup, Run!RetiresProvider, R!RetiresProvider,
         Run!ReadsStats, R!ReadsStats, Run!RecheckedLines, R!RecheckedLines, Run!Rechecks,
         R!Rechecks, Run!Interrupted, R!Interrupted, Run!Excepts, R!Excepts, Run!InOrder,
         R!InOrder, Run!started_order, R!started_order, Run!dependency_order,
         R!dependency_order, Run!StopsProcess, R!StopsProcess, Run!owned_processes_remaining,
         R!owned_processes_remaining, Run!WritesResult, R!WritesResult, Run!Runner, R!Runner,
         Run!Threads, R!Threads, Run!Done, R!Done, Run!Next, R!Next, Run!Range, R!Range
<1>3. Run!vars = R!vars
  BY Zenon DEF Run!vars, R!vars, Run!runnerVars, R!runnerVars, Run!outsideVars, R!outsideVars
<1>4. Run!FirstFailureKept = R!FirstFailureKept
  BY Zenon DEF Run!FirstFailureKept, R!FirstFailureKept, Run!NoResult, R!NoResult
<1>5. Run!EndsInOrder = R!EndsInOrder
  BY Zenon DEF Run!EndsInOrder, R!EndsInOrder, Run!Ends, R!Ends, Run!Processes, R!Processes,
         Run!Guests, R!Guests, Run!Group, R!Group, Run!Count, R!Count, Run!Provider, R!Provider
<1> QED BY <1>1, <1>2, <1>3, <1>4, <1>5, Zenon

(* A behaviour of the whole that is of the run is a behaviour of the run.   *)
LEMMA RunSteps ==
    /\ Init /\ part = "run" => R!Init
    /\ [Next]_vars => (part' = part) /\ (part = "run" => [R!Next]_(R!vars))
<1>1. Init /\ part = "run" => R!Init
  BY SameRun, Zenon DEF Init
<1>2. ASSUME [Next]_vars PROVE part' = part /\ (part = "run" => [R!Next]_(R!vars))
  <2>1. part' = part /\ (part = "run" => [Run!Next]_(Run!vars))
    BY <1>2, PartSteps, Zenon
  <2>2. [Run!Next]_(Run!vars) = [R!Next]_(R!vars)
    BY SameRun, Zenon DEF Run!vars, R!vars, Run!runnerVars, R!runnerVars, Run!outsideVars, R!outsideVars
  <2> QED BY <2>1, <2>2, Zenon
<1> QED BY <1>1, <1>2, Zenon

(* For any number of guests and faults: the result names the first failure  *)
(* of the run, or the interrupt that took its place.                        *)
THEOREM FirstFailureAlways == Spec => []FirstFailureKept
<1> DEFINE Here == part = "run"
<1>1. Init => (Here => R!Init)
  BY RunSteps, Zenon
<1>2. [Next]_vars => (Here' <=> Here) /\ (Here => [R!Next]_(R!vars))
  BY RunSteps, Zenon
<1>3. R!FirstFailureKept => FirstFailureKept
  BY SameRun, Zenon DEF FirstFailureKept
<1>4. ~Here => FirstFailureKept
  BY Zenon DEF FirstFailureKept
<1>5. R!Init /\ [][R!Next]_(R!vars) => []R!FirstFailureKept
  BY R!FirstFailureAlways, Zenon
<1> HIDE DEF Here
<1> QED BY <1>1, <1>2, <1>3, <1>4, <1>5, PTL DEF Spec

(* For any number of guests and faults, on the orderly and on the failing   *)
(* path: unless a process ends by accident, a client ends only when every   *)
(* server has ended or cannot be stopped, and the memory provider only when *)
(* the same holds of every guest.                                           *)
THEOREM TeardownOrderAlways == Spec => TeardownOrder
<1> DEFINE Here == part = "run"
           InOrder == Here => Run!EndsInOrder
<1>1. Init => (Here => R!Init)
  BY RunSteps, Zenon
<1>2. [Next]_vars => (Here' <=> Here) /\ (Here => [R!Next]_(R!vars))
  BY RunSteps, Zenon
<1>3. [R!EndsInOrder]_(R!vars) => InOrder
  <2>1. ASSUME UNCHANGED R!vars PROVE R!EndsInOrder
    BY <2>1, Zenon DEF R!vars, R!outsideVars, R!EndsInOrder, R!Ends
  <2> QED BY <2>1, SameRun, Zenon
<1>4. ~Here => InOrder
  BY Zenon
<1>5. R!Init /\ [][R!Next]_(R!vars) => [][R!EndsInOrder]_(R!vars)
  BY R!EndsInOrderAlways, CountsAssumption, Zenon DEF R!Counts
<1>6. TeardownOrder <=> [][InOrder]_vars
  BY DEF TeardownOrder
<1> HIDE DEF Here, InOrder
<1> QED BY <1>1, <1>2, <1>3, <1>4, <1>5, <1>6, PTL DEF Spec

=============================================================================
