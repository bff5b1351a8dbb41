---------------------------- MODULE RunnerProofs ----------------------------
(***************************************************************************)
(* The runners, and the loop of the guest application one of them drives.  *)
(*                                                                         *)
(* A runner that is reported as passed has left no process behind but what *)
(* terminate_owned silently took for somebody else's, and no guest at all  *)
(* whose end time it asked for, for every host script that ends what it    *)
(* starts, any guests and any number of faults.                            *)
(*                                                                         *)
(* The ping-pong of the application, for any number of iterations: it      *)
(* never counts a checksum error, never overshoots and stays in lockstep.  *)
(*                                                                         *)
(* The runner of the Type 3 guest stops what it started, and what it       *)
(* publishes as its result was earned, for any number of faults.           *)
(***************************************************************************)
EXTENDS Runner, Rounds, TLAPS

(* The j-th instruction of the host waits for p to exit or terminates it.   *)
Ends(j, p) == HostScript[j].op \in {"stop", "exit"} /\ HostScript[j].proc = p

(* The script still has to end every process that is alive, unless it was   *)
(* overlooked; and no process is alive whose end time was asked for ...     *)
EndsTheLiving ==
    \A p \in Procs : Live(p) => p \in strays \/ \E j \in hpc .. Len(HostScript) : Ends(j, p)
EndedBefore ==
    \A i \in 1 .. Len(HostScript) :
        (i < hpc /\ HostScript[i].op = "ended") => \A p \in HostScript[i].nodes \cap Procs : ~Live(p)

(* ... as long as it runs; after it has passed the property holds.          *)
IInv ==
    /\ lab \in DOMAIN Lab
    /\ hpc \in Nat \ {0}
    /\ proc \in [Procs -> {"none", "running", "failed", "hung", "exited"}]
    /\ verdict = "passed" => phase # "try"
    /\ phase = "try" => EndsTheLiving /\ EndedBefore
    /\ PassedRunIsClean

(* What the processes do among themselves: nothing comes to life.           *)
NoneRevives ==
    /\ proc' \in [Procs -> {"none", "running", "failed", "hung", "exited"}]
    /\ \A p \in Procs : Live(p)' => Live(p)
    /\ strays \subseteq strays'

(* A step that leaves the host where it is and revives nothing keeps IInv;  *)
(* so does one that raises.                                                 *)
LEMMA HostStays ==
  ASSUME IInv, NoneRevives, UNCHANGED lab,
         \/ UNCHANGED <<hpc, phase, verdict>>
         \/ phase' # "try" /\ UNCHANGED <<hpc, verdict>>
  PROVE  IInv'
<1>1. HostScript' = HostScript /\ Procs' = Procs
  BY DEF HostScript, Procs, Nodes
<1>2. phase' = "try" => EndsTheLiving' /\ EndedBefore'
  BY <1>1 DEF IInv, NoneRevives, EndsTheLiving, EndedBefore, Ends
<1>3. PassedRunIsClean'
  BY <1>1 DEF IInv, NoneRevives, PassedRunIsClean, Alive
<1>4. QED  BY <1>1, <1>2, <1>3 DEF IInv, NoneRevives

(* A step to the next instruction that leaves alive only what was           *)
(* overlooked or an instruction after this one ends, and nothing whose end  *)
(* time was asked for.                                                      *)
LEMMA HostProceeds ==
  ASSUME IInv, Proceed \/ HostMarks, phase = "try", UNCHANGED lab,
         proc' \in [Procs -> {"none", "running", "failed", "hung", "exited"}],
         \A p \in Procs : Live(p)' =>
             p \in strays' \/ \E j \in hpc + 1 .. Len(HostScript) : Ends(j, p),
         \A i \in 1 .. Len(HostScript) :
             (i <= hpc /\ HostScript[i].op = "ended") =>
                 \A p \in HostScript[i].nodes \cap Procs : ~Live(p)'
  PROVE  IInv'
<1>1. HostScript' = HostScript /\ Procs' = Procs
  BY DEF HostScript, Procs, Nodes
<1>2. hpc' = hpc + 1 /\ UNCHANGED <<phase, verdict>>
  BY DEF Proceed, HostMarks, Step
<1>3. EndsTheLiving'
  BY <1>1, <1>2 DEF EndsTheLiving, Ends
<1>4. EndedBefore'
  <2>1. \A i \in 1 .. Len(HostScript) : i < hpc + 1 => i <= hpc
    BY DEF IInv
  <2>2. QED  BY <1>1, <1>2, <2>1 DEF EndedBefore
<1>5. QED  BY <1>1, <1>2, <1>3, <1>4 DEF IInv, PassedRunIsClean

(* Guests, readers and faults revive nothing and do not move the host.      *)
LEMMA GuestsAndReaders ==
  ASSUME IInv, UNCHANGED lab, NEW n \in Nodes,
         GuestStep(n) \/ ReaderStep(n) \/ GuestFails(n) \/ GuestHangs(n)
  PROVE  IInv'
<1> n \in Procs  BY Zenon DEF Procs
<1>1. UNCHANGED <<hpc, phase, verdict>>
  BY Zenon DEF GuestStep, GuestPrints, GuestReads, GuestWorks, GuestMeets, GuestGivesUp,
         GuestPowersOff, Fails, ReaderStep, ReadOutput, CaptureEvents, GuestFails,
         GuestHangs, hostVars
<1>2. \/ UNCHANGED proc
      \/ proc[n] = "running" /\ proc' = [proc EXCEPT ![n] = "failed"]
      \/ proc[n] = "running" /\ proc' = [proc EXCEPT ![n] = "hung"]
      \/ proc' = [proc EXCEPT ![n] = "exited"]
  BY Zenon DEF GuestStep, GuestPrints, GuestReads, GuestWorks, GuestMeets, GuestGivesUp,
         GuestPowersOff, Fails, ReaderStep, ReadOutput, CaptureEvents, GuestFails,
         GuestHangs, GuestAt
<1>3. strays' = strays \/ strays' = strays \cup {}
  BY Zenon DEF GuestStep, GuestPrints, GuestReads, GuestWorks, GuestMeets, GuestGivesUp,
         GuestPowersOff, ReaderStep, ReadOutput, CaptureEvents, GuestFails,
         GuestHangs, Fault, FaultWith, faultVars
<1>4. NoneRevives  BY <1>2, <1>3 DEF IInv, NoneRevives, Live
<1>5. QED  BY <1>1, <1>4, HostStays

(* A process that ends by itself revives nothing either.                    *)
LEMMA Crashes ==
  ASSUME IInv, UNCHANGED lab, NEW p \in Procs, Crash(p)
  PROVE  IInv'
<1>1. NoneRevives  BY DEF IInv, NoneRevives, Live, Crash, Fault, FaultWith
<1>2. QED  BY <1>1, HostStays DEF Crash, hostVars

(* What is alive was overlooked or is still ended by an instruction after   *)
(* this one, unless this one ends it.                                       *)
LEMMA EndedLater ==
  ASSUME IInv, phase = "try", NEW p \in Procs, Live(p), ~Ends(hpc, p)
  PROVE  p \in strays \/ \E j \in hpc + 1 .. Len(HostScript) : Ends(j, p)
<1>1. SUFFICES ASSUME p \notin strays  PROVE \E j \in hpc + 1 .. Len(HostScript) : Ends(j, p)
  OBVIOUS
<1>2. PICK j \in hpc .. Len(HostScript) : Ends(j, p)  BY <1>1 DEF IInv, EndsTheLiving
<1>3. lab \in DOMAIN Lab /\ hpc \in Nat  BY DEF IInv
<1>4. Len(HostScript) \in Nat  BY <1>3 DEF HostScript
<1>5. j # hpc  BY <1>2
<1>6. j \in hpc + 1 .. Len(HostScript)  BY <1>2, <1>3, <1>4, <1>5
<1>7. QED  BY <1>2, <1>6

(* What has ended stays so when nothing is revived, and this instruction    *)
(* does not add to it or finds it so.                                       *)
LEMMA StaysEnded ==
  ASSUME IInv, phase = "try", NoneRevives,
         \/ HostScript[hpc].op # "ended"
         \/ \A p \in HostScript[hpc].nodes : ~Live(p)
  PROVE  \A i \in 1 .. Len(HostScript) :
             (i <= hpc /\ HostScript[i].op = "ended") =>
                 \A p \in HostScript[i].nodes \cap Procs : ~Live(p)'
<1>1. ASSUME NEW i \in 1 .. Len(HostScript), i <= hpc, HostScript[i].op = "ended",
             NEW p \in HostScript[i].nodes \cap Procs
      PROVE  ~Live(p)'
  <2>1. CASE i = hpc  BY <1>1, <2>1 DEF NoneRevives
  <2>2. CASE i # hpc
    <3>1. i < hpc  BY <1>1, <2>2 DEF IInv
    <3>2. ~Live(p)  BY <1>1, <3>1 DEF IInv, EndedBefore
    <3>3. QED  BY <1>1, <3>2 DEF NoneRevives
  <2>3. QED  BY <2>1, <2>2
<1>2. QED  BY <1>1

(* popen: the new process is ended by a later instruction, and its end time *)
(* was not asked for before (LabAssumption).                                *)
LEMMA Starts ==
  ASSUME IInv, UNCHANGED lab, HostStarts
  PROVE  IInv'
<1> DEFINE q == HostScript[hpc].proc
<1>1. /\ phase = "try" /\ HostScript[hpc].op = "start" /\ Proceed
      /\ hpc \in 1 .. Len(HostScript)
      /\ proc' = [proc EXCEPT ![q] = "running"] /\ strays' = strays
  <2>1. lab \in DOMAIN Lab /\ hpc \in Nat \ {0}  BY DEF IInv
  <2>2. Len(HostScript) \in Nat  BY <2>1, LabAssumption DEF HostScript
  <2>3. QED  BY <2>1, <2>2 DEF HostStarts, HostAt, faultVars
<1>2. \E j \in hpc + 1 .. Len(HostScript) : Ends(j, q)
  BY <1>1, LabAssumption, Zenon DEF IInv, HostScript, Ends
<1>3. \A p \in Procs : ~Ends(hpc, p)  BY <1>1 DEF Ends
<1>4. proc' \in [Procs -> {"none", "running", "failed", "hung", "exited"}]
  BY <1>1, Zenon DEF IInv
<1>5. ASSUME NEW p \in Procs, Live(p)'
      PROVE  p \in strays' \/ \E j \in hpc + 1 .. Len(HostScript) : Ends(j, p)
  <2>1. CASE p = q  BY <1>2, <2>1
  <2>2. CASE p # q
    <3>1. Live(p)  BY <1>1, <1>5, <2>2 DEF IInv, Live
    <3>2. QED  BY <1>1, <1>3, <3>1, EndedLater
  <2>3. QED  BY <2>1, <2>2
<1>6. ASSUME NEW i \in 1 .. Len(HostScript), i <= hpc, HostScript[i].op = "ended",
             NEW p \in HostScript[i].nodes \cap Procs
      PROVE  ~Live(p)'
  <2>1. i \in 1 .. hpc - 1  BY <1>1, <1>6 DEF IInv
  <2>2. q \notin HostScript[i].nodes
    BY <1>1, <1>6, <2>1, LabAssumption, Zenon DEF IInv, HostScript
  <2>3. i < hpc  BY <2>1 DEF IInv
  <2>4. ~Live(p)  BY <1>1, <1>6, <2>3 DEF IInv, EndedBefore
  <2>5. p # q  BY <1>6, <2>2
  <2>6. QED  BY <1>1, <1>6, <2>4, <2>5 DEF IInv, Live
<1> HIDE DEF q
<1>7. QED  BY <1>1, <1>4, <1>5, <1>6, HostProceeds

(* A wait or a check: the host goes on or raises, the processes are left    *)
(* alone.                                                                   *)
LEMMA Waits ==
  ASSUME IInv, UNCHANGED lab,
         \/ HostReadsLog \/ HostMarks \/ HostSends \/ HostAwaits \/ HostTimesOut
         \/ HostRequiresLive \/ HostJoins \/ HostJoinExpires \/ HostRequires \/ HostRequiresEnded
  PROVE  IInv'
<1> DEFINE Raises ==
        \E kind \in {"server", "exited", "guest", "timeout", "evidence", "alive"} : Raise(kind)
<1>1. /\ phase = "try" /\ UNCHANGED proc
      /\ HostScript[hpc].op \in {"log", "mark", "send", "await", "live", "join", "require", "ended"}
      /\ HostMarks \/ Proceed \/ Raises
  BY DEF HostReadsLog, HostMarks, HostSends, HostAwaits, HostTimesOut, HostRequiresLive,
         HostJoins, HostJoinExpires, HostRequires, HostRequiresEnded, HostAt
<1>2. strays' = strays \/ strays' = strays \cup {}
  BY Zenon DEF HostReadsLog, HostMarks, HostSends, HostAwaits, HostTimesOut, HostRequiresLive,
         HostJoins, HostJoinExpires, HostRequires, HostRequiresEnded, Fault, FaultWith, faultVars
<1>3. NoneRevives  BY <1>1, <1>2 DEF IInv, NoneRevives, Live
<1>4. CASE Raises
  <2>1. phase' # "try" /\ UNCHANGED <<hpc, verdict>>  BY <1>4 DEF Raise
  <2>2. QED  BY <1>3, <2>1, HostStays
<1>5. CASE (HostMarks \/ Proceed) /\ phase' = "try"
  <2>1. ASSUME NEW p \in Procs, Live(p)'
        PROVE  p \in strays' \/ \E j \in hpc + 1 .. Len(HostScript) : Ends(j, p)
    <3>1. Live(p) /\ ~Ends(hpc, p)  BY <1>1, <2>1 DEF Live, Ends
    <3>2. p \in strays \/ \E j \in hpc + 1 .. Len(HostScript) : Ends(j, p)
      BY <1>1, <3>1, EndedLater
    <3>3. QED  BY <1>2, <3>2
  <2>2. proc' \in [Procs -> {"none", "running", "failed", "hung", "exited"}]
    BY <1>1 DEF IInv
  <2>3. HostScript[hpc].op = "ended" => \A n \in HostScript[hpc].nodes : ~Live(n)
    BY <1>1, <1>5 DEF HostReadsLog, HostMarks, HostSends, HostAwaits, HostTimesOut, HostRequiresLive,
         HostJoins, HostJoinExpires, HostRequires, HostRequiresEnded, HostAt, Raise
  <2>4. \A i \in 1 .. Len(HostScript) :
             (i <= hpc /\ HostScript[i].op = "ended") =>
                 \A p \in HostScript[i].nodes \cap Procs : ~Live(p)'
    BY <1>1, <1>3, <2>3, StaysEnded
  <2>5. QED  BY <1>1, <1>5, <2>1, <2>2, <2>4, HostProceeds
<1>6. Proceed \/ HostMarks => phase' = "try"  BY <1>1 DEF Proceed, HostMarks
<1>7. QED  BY <1>1, <1>4, <1>5, <1>6

(* process.wait and terminate_owned: the process has exited, or the call    *)
(* raises, or it does nothing of what it does not take for its own.         *)
LEMMA Stops ==
  ASSUME IInv, UNCHANGED lab, HostAwaitsExit \/ HostStops \/ HostCannotStop \/ HostOverlooks
  PROVE  IInv'
<1> DEFINE q == HostScript[hpc].proc
<1>1. phase = "try" /\ HostScript[hpc].op # "ended"
  BY DEF HostAwaitsExit, HostStops, HostCannotStop, HostOverlooks, HostAt
<1>2. CASE HostCannotStop
  <2>1. NoneRevives
    BY <1>2 DEF HostCannotStop, IInv, NoneRevives, Live, Fault, FaultWith
  <2>2. phase' # "try" /\ UNCHANGED <<hpc, verdict>>  BY <1>2 DEF HostCannotStop, Raise
  <2>3. QED  BY <2>1, <2>2, HostStays
<1>3. CASE HostAwaitsExit \/ HostStops \/ HostOverlooks
  <2>1. /\ Proceed
        /\ \/ proc' = [proc EXCEPT ![q] = "exited"] /\ strays' = strays
           \/ proc' = proc /\ strays' = strays \cup {q}
    BY <1>3 DEF HostAwaitsExit, HostStops, HostOverlooks, FaultWith, faultVars
  <2>2. NoneRevives
    BY <2>1 DEF IInv, NoneRevives, Live
  <2>3. ASSUME NEW p \in Procs, Live(p)'
        PROVE  p \in strays' \/ \E j \in hpc + 1 .. Len(HostScript) : Ends(j, p)
    <3>1. Live(p) /\ (p # q \/ p \in strays')  BY <2>1, <2>3 DEF IInv, Live
    <3>2. CASE p \in strays'  BY <3>2
    <3>3. CASE p # q
      <4>1. ~Ends(hpc, p)  BY <3>3 DEF Ends
      <4>2. p \in strays \/ \E j \in hpc + 1 .. Len(HostScript) : Ends(j, p)
        BY <1>1, <3>1, <4>1, EndedLater
      <4>3. QED  BY <2>2, <4>2 DEF NoneRevives
    <3>4. QED  BY <3>1, <3>2, <3>3
  <2>4. \A i \in 1 .. Len(HostScript) :
             (i <= hpc /\ HostScript[i].op = "ended") =>
                 \A p \in HostScript[i].nodes \cap Procs : ~Live(p)'
    BY <1>1, <2>2, StaysEnded
  <2>5. proc' \in [Procs -> {"none", "running", "failed", "hung", "exited"}]  BY <2>2 DEF NoneRevives
  <2>6. QED  BY <1>1, <2>1, <2>3, <2>4, <2>5, HostProceeds
<1>4. QED  BY <1>2, <1>3

(* The end of the script: nothing is left to be ended.                      *)
LEMMA Passes ==
  ASSUME IInv, UNCHANGED lab, HostPasses
  PROVE  IInv'
<1>1. lab \in DOMAIN Lab /\ hpc \in Nat  BY DEF IInv
<1>2. Len(HostScript) \in Nat  BY <1>1 DEF HostScript
<1>3. hpc .. Len(HostScript) = {} /\ \A i \in 1 .. Len(HostScript) : i < hpc
  BY <1>1, <1>2 DEF HostPasses
<1>4. EndsTheLiving /\ EndedBefore  BY DEF IInv, HostPasses
<1>5. \A p \in Procs : Live(p) => p \in strays  BY <1>3, <1>4 DEF EndsTheLiving
<1>6. \A i \in 1 .. Len(HostScript) : HostScript[i].op = "ended" =>
          \A p \in HostScript[i].nodes \cap Procs : ~Live(p)
  BY <1>3, <1>4 DEF EndedBefore
<1>7. Procs' = Procs /\ HostScript' = HostScript  BY DEF Procs, Nodes, HostScript
<1>8. Alive' = Alive /\ strays' = strays  BY <1>7 DEF Alive, Live, HostPasses, faultVars
<1>9. PassedRunIsClean'
  BY <1>5, <1>6, <1>7, <1>8 DEF PassedRunIsClean, Alive
<1>10. QED  BY <1>7, <1>9 DEF IInv, HostPasses

(* The finally block.                                                       *)
LEMMA Finally ==
  ASSUME IInv, UNCHANGED lab, StopOne \/ StopFails \/ WriteResult
  PROVE  IInv'
<1>1. phase' # "try" /\ UNCHANGED <<hpc, verdict>>  BY DEF StopOne, StopFails, WriteResult
<1>2. strays \subseteq strays'  BY DEF StopOne, StopFails, WriteResult, Fault, FaultWith, faultVars
<1>3. NoneRevives  BY <1>2 DEF StopOne, StopFails, WriteResult, IInv, NoneRevives, Live
<1>4. QED  BY <1>1, <1>3, HostStays

(* IInv holds in every state of a run.                                      *)
THEOREM Invariance == Spec => []IInv
<1>1. Init => IInv
  BY DEF Init, IInv, EndsTheLiving, EndedBefore, Live, PassedRunIsClean
<1>2. IInv /\ [Next]_vars => IInv'
  <2> SUFFICES ASSUME IInv, [Next]_vars  PROVE IInv'
    OBVIOUS
  <2>1. CASE UNCHANGED vars
    <3>1. NoneRevives  BY <2>1 DEF vars, faultVars, IInv, NoneRevives, Live
    <3>2. QED  BY <2>1, <3>1, HostStays DEF vars, hostVars
  <2>2. CASE Next
    <3>1. CASE HostStep
      BY <2>2, <3>1, Starts, Waits, Stops, Passes, Finally DEF Next, HostStep
    <3>2. CASE \E n \in Nodes : GuestStep(n) \/ ReaderStep(n)
      BY <2>2, <3>2, GuestsAndReaders DEF Next
    <3>3. CASE HostTimesOut  BY <2>2, <3>3, Waits DEF Next
    <3>4. CASE Faulty
      BY <2>2, <3>4, Stops, Waits, Finally, GuestsAndReaders, Crashes DEF Next, Faulty
    <3>5. CASE Done  BY <2>1, <3>5 DEF Done
    <3>6. QED  BY <2>2, <3>1, <3>2, <3>3, <3>4, <3>5 DEF Next, Progress
  <2>3. QED  BY <2>1, <2>2
<1>3. QED  BY <1>1, <1>2, PTL DEF Spec

(* A run that is reported as passed leaves nothing alive but what           *)
(* terminate_owned overlooked, and no process whose end time it asked for.  *)
THEOREM PassedIsCleanAlways == Spec => []PassedRunIsClean
<1>1. IInv => PassedRunIsClean  BY DEF IInv
<1>2. QED  BY Invariance, <1>1, PTL

(* The ping-pong over two lines of shared memory.                           *)
VARIABLES value, sum, pending, round, pc, mismatches, fate
Ping == INSTANCE PingPong WITH errors <- mismatches

(* The initial state of the loop satisfies its inductive invariant.         *)
LEMMA PingStarts == Ping!Init => Ping!IInv
  BY IterationsAssumption
     DEF Ping!Init, Ping!IInv, Ping!TypeOK, Ping!Line, Ping!Ended, Ping!Handover, Ping!NoErrors,
         Ping!NoOvershoot, Ping!Nodes, Ping!Other, Ping!FirstPC

(* Publishing: each of the four steps of publish_signal, and each drain of  *)
(* its two stores, keeps the invariant.                                     *)
LEMMA PublishStep ==
    ASSUME Ping!IInv, NEW n \in Ping!Nodes,
           \/ Ping!StoreSum(n) \/ Ping!SumFence(n) \/ Ping!StoreValue(n)
           \/ Ping!DrainSum(n) \/ Ping!DrainValue(n)
    PROVE  Ping!IInv'
<1> USE IterationsAssumption DEF Ping!Nodes, Ping!FirstPC
<1>1. /\ Ping!TypeOK /\ Ping!Handover
      /\ \A m \in Ping!Nodes : Ping!Line(m) /\ Ping!Ended(m)
  BY DEF Ping!IInv
<1>2. /\ round' = round /\ mismatches' = mismatches /\ fate' = fate
      /\ \A m \in Ping!Nodes \ {n} :
            value'[m] = value[m] /\ sum'[m] = sum[m] /\ pending'[m] = pending[m] /\ pc'[m] = pc[m]
  BY <1>1 DEF Ping!StoreSum, Ping!SumFence, Ping!StoreValue, Ping!DrainSum, Ping!DrainValue,
              Ping!Goto, Ping!TypeOK
<1>3. Ping!TypeOK'
  <2>1. CASE Ping!StoreSum(n) \/ Ping!SumFence(n) \/ Ping!StoreValue(n)
    BY <1>1, <2>1 DEF Ping!StoreSum, Ping!SumFence, Ping!StoreValue, Ping!Goto, Ping!TypeOK
  <2>2. CASE Ping!DrainSum(n) \/ Ping!DrainValue(n)
    <3>1. round[n] \in 0 .. Iterations
      BY <1>1, <2>2 DEF Ping!DrainSum, Ping!DrainValue, Ping!TypeOK, Ping!Line, Ping!Ended
    <3> QED BY <1>1, <2>2, <3>1 DEF Ping!DrainSum, Ping!DrainValue, Ping!TypeOK
  <2> QED BY <2>1, <2>2
<1>4. \/ /\ pc[n] \in {"sum", "sumFence"} /\ pc'[n] \in {"sumFence", "value"}
         /\ value'[n] = value[n]
      \/ /\ pc[n] \in {"value", "valueFence"} /\ pc'[n] = "valueFence"
         /\ value'[n] \in {value[n], round[n]}
  BY <1>1 DEF Ping!StoreSum, Ping!SumFence, Ping!StoreValue, Ping!DrainSum, Ping!DrainValue,
              Ping!Goto, Ping!At, Ping!TypeOK, Ping!Line
<1>5. ASSUME NEW m \in Ping!Nodes, m # n
      PROVE  Ping!Line(m)' /\ Ping!Ended(m)'
  BY <1>1, <1>2, <1>5 DEF Ping!Line, Ping!Ended
<1>6. Ping!Line(n)'
  <2>1. CASE Ping!StoreSum(n) \/ Ping!SumFence(n)
    BY <1>1, <2>1, Zenon DEF Ping!StoreSum, Ping!SumFence, Ping!Goto, Ping!At, Ping!TypeOK, Ping!Line
  <2>2. CASE Ping!StoreValue(n)
    BY <1>1, <2>2 DEF Ping!StoreValue, Ping!Goto, Ping!At, Ping!TypeOK, Ping!Line
  <2>3. CASE Ping!DrainSum(n)
    BY <1>1, <2>3 DEF Ping!DrainSum, Ping!TypeOK, Ping!Line
  <2>4. CASE Ping!DrainValue(n)
    BY <1>1, <2>4 DEF Ping!DrainValue, Ping!TypeOK, Ping!Line
  <2> QED BY <2>1, <2>2, <2>3, <2>4
<1>7. Ping!Ended(n)'
  BY <1>1, <1>2, <1>4 DEF Ping!Ended, Ping!StoreSum, Ping!SumFence, Ping!StoreValue,
                          Ping!DrainSum, Ping!DrainValue, Ping!Goto, Ping!At, Ping!TypeOK, Ping!Line
<1>8. Ping!Handover'
  <2>1. CASE n = "reader"
    <3>1. /\ round["reader"] \in Nat /\ round["writer"] \in Nat
          /\ value["reader"] \in {round["reader"] - 1, round["reader"]}
          /\ value'["reader"] \in {value["reader"], round["reader"]}
          /\ pc["reader"] # "check" /\ pc'["reader"] # "check"
      BY <1>1, <1>4, <2>1 DEF Ping!Line, Ping!TypeOK
    <3> QED BY <1>1, <1>2, <2>1, <3>1 DEF Ping!Handover
  <2>2. CASE n = "writer"
    <3>1. /\ pc["writer"] \notin {"poll", "check"} /\ pc'["writer"] # "check"
          /\ value'["writer"] \in {value["writer"], round["writer"]}
      BY <1>4, <2>2
    <3>2. ~(pc["writer"] = "valueFence" /\ pending["writer"] = {})
      BY <2>2 DEF Ping!StoreSum, Ping!SumFence, Ping!StoreValue, Ping!DrainSum, Ping!DrainValue, Ping!At
    <3>3. round["writer"] = round["reader"]
      BY <1>1, <3>1, <3>2 DEF Ping!Handover
    <3> QED BY <1>1, <1>2, <2>2, <3>1, <3>3 DEF Ping!Handover
  <2> QED BY <2>1, <2>2
<1> QED BY <1>2, <1>3, <1>5, <1>6, <1>7, <1>8 DEF Ping!IInv, Ping!NoErrors, Ping!NoOvershoot

(* The fence that ends publish_signal keeps the invariant.                  *)
LEMMA FenceStep ==
    ASSUME Ping!IInv, NEW n \in Ping!Nodes, Ping!ValueFence(n)
    PROVE  Ping!IInv'
<1> USE IterationsAssumption DEF Ping!Nodes, Ping!FirstPC
<1> DEFINE r == round["reader"]
           w == round["writer"]
<1>1. /\ Ping!TypeOK /\ Ping!Handover
      /\ \A m \in Ping!Nodes : Ping!Line(m) /\ Ping!Ended(m)
  BY DEF Ping!IInv
<1>2. /\ round[n] \in 1 .. Iterations /\ pc[n] = "valueFence" /\ pending[n] = {}
      /\ pc' = [pc EXCEPT ![n] = "poll"]
      /\ UNCHANGED <<value, sum, pending, mismatches, fate>>
      /\ round' = IF n = "reader" THEN round ELSE [round EXCEPT !["writer"] = w + 1]
  BY <1>1 DEF Ping!ValueFence, Ping!At, Ping!Goto, Ping!NextRound, Ping!TypeOK
<1>3. Ping!TypeOK'
  BY <1>1, <1>2 DEF Ping!TypeOK
<1>4. \A m \in Ping!Nodes : Ping!Line(m)' /\ Ping!Ended(m)'
  <2>1. CASE n = "reader"
    BY <1>1, <1>2, <2>1 DEF Ping!TypeOK, Ping!Line, Ping!Ended
  <2>2. CASE n = "writer"
    <3>1. Ping!Line("writer")' /\ Ping!Ended("writer")'
      BY <1>1, <1>2, <2>2 DEF Ping!TypeOK, Ping!Line, Ping!Ended
    <3>2. Ping!Line("reader")' /\ Ping!Ended("reader")'
      BY <1>1, <1>2, <2>2 DEF Ping!TypeOK, Ping!Line, Ping!Ended
    <3> QED BY <3>1, <3>2
  <2> QED BY <2>1, <2>2
<1>5. Ping!Handover'
  <2>1. value["reader"] \in {r - 1, r} /\ r \in Nat /\ w \in Nat
    BY <1>1 DEF Ping!Line, Ping!TypeOK
  <2>2. CASE n = "reader"
    BY <1>1, <1>2, <2>2 DEF Ping!Handover, Ping!TypeOK
  <2>3. CASE n = "writer"
    BY <1>1, <1>2, <2>1, <2>3 DEF Ping!Handover, Ping!TypeOK
  <2> QED BY <2>2, <2>3
<1> QED BY <1>2, <1>3, <1>4, <1>5 DEF Ping!IInv, Ping!NoErrors, Ping!NoOvershoot

(* Waiting: a poll that succeeds, a poll that gives up and the checksum     *)
(* load keep the invariant.                                                 *)
LEMMA WaitStep ==
    ASSUME Ping!IInv, NEW n \in Ping!Nodes,
           Ping!PollSucceeds(n) \/ Ping!PollFails(n) \/ Ping!CheckSum(n)
    PROVE  Ping!IInv'
<1> USE IterationsAssumption DEF Ping!Nodes, Ping!FirstPC, Ping!Other
<1>1. /\ Ping!TypeOK /\ Ping!Handover /\ Ping!NoErrors /\ Ping!NoOvershoot
      /\ \A m \in Ping!Nodes : Ping!Line(m) /\ Ping!Ended(m)
  BY DEF Ping!IInv
<1>2. CASE Ping!PollSucceeds(n)
  <2>1. /\ pc[n] = "poll" /\ value[Ping!Other(n)] = round[n] /\ round[n] \in 1 .. Iterations
        /\ pc' = [pc EXCEPT ![n] = "check"]
        /\ UNCHANGED <<value, sum, pending, round, mismatches, fate>>
    BY <1>1, <1>2 DEF Ping!PollSucceeds, Ping!At, Ping!Goto, Ping!TypeOK
  <2>2. Ping!TypeOK' /\ Ping!NoErrors' /\ Ping!NoOvershoot'
    BY <1>1, <2>1 DEF Ping!TypeOK, Ping!NoErrors, Ping!NoOvershoot
  <2>3. \A m \in Ping!Nodes : Ping!Line(m)' /\ Ping!Ended(m)'
    BY <1>1, <2>1 DEF Ping!TypeOK, Ping!Line, Ping!Ended
  <2>4. Ping!Handover'
    BY <1>1, <2>1 DEF Ping!TypeOK, Ping!Handover, Ping!Line
  <2> QED BY <2>2, <2>3, <2>4 DEF Ping!IInv
<1>3. CASE Ping!PollFails(n)
  <2>1. value[Ping!Other(n)] <= round[n]
    <3>1. pc[n] = "poll"
      BY <1>3 DEF Ping!PollFails, Ping!At
    <3>2. \A m \in Ping!Nodes : round[m] \in Nat /\ value[m] \in {round[m] - 1, round[m]}
      BY <1>1 DEF Ping!TypeOK, Ping!Line
    <3>3. n = "writer" => value["reader"] <= round["writer"]
      BY <1>1, <3>1, <3>2 DEF Ping!Handover
    <3>4. n = "reader" => value["writer"] <= round["reader"]
      <4>1. pc["writer"] = "poll" => value["writer"] = round["writer"] - 1
        BY <1>1 DEF Ping!Line
      <4> QED BY <1>1, <3>1, <3>2, <4>1 DEF Ping!Handover
    <3> QED BY <3>3, <3>4
  <2>2. fate' = [fate EXCEPT ![n] = "ETIMEDOUT"] /\ UNCHANGED <<value, sum, pending, round, pc, mismatches>>
    <3>1. value[Ping!Other(n)] \in Int /\ round[n] \in Int
      BY <1>1 DEF Ping!TypeOK
    <3>2. ~(value[Ping!Other(n)] > round[n])
      BY <2>1, <3>1
    <3> QED BY <1>3, <3>2, Zenon DEF Ping!PollFails
  <2> QED BY <1>1, <2>2 DEF Ping!IInv, Ping!TypeOK, Ping!Line, Ping!Ended, Ping!Handover,
              Ping!NoErrors, Ping!NoOvershoot
<1>4. CASE Ping!CheckSum(n)
  <2>1. /\ pc[n] = "check" /\ round[n] \in 1 .. Iterations
        /\ UNCHANGED <<value, sum, pending, fate>>
    BY <1>1, <1>4 DEF Ping!CheckSum, Ping!At, Ping!TypeOK
  <2>2. value[Ping!Other(n)] = round[n] /\ sum[Ping!Other(n)] = round[n]
    BY <1>1, <2>1 DEF Ping!Handover, Ping!Line, Ping!TypeOK
  <2>3. mismatches' = mismatches
    BY <1>1, <1>4, <2>2 DEF Ping!CheckSum, Ping!TypeOK
  <2>4. CASE n = "reader"
    <3>1. /\ round' = [round EXCEPT !["reader"] = round["reader"] + 1]
          /\ pc' = [pc EXCEPT !["reader"] = "sum"]
      BY <1>4, <2>4 DEF Ping!CheckSum, Ping!NextRound, Ping!Goto
    <3>2. Ping!TypeOK' /\ Ping!NoErrors' /\ Ping!NoOvershoot'
      BY <1>1, <2>1, <2>3, <2>4, <3>1 DEF Ping!TypeOK, Ping!NoErrors, Ping!NoOvershoot
    <3>3. \A m \in Ping!Nodes : Ping!Line(m)' /\ Ping!Ended(m)'
      BY <1>1, <2>1, <2>4, <3>1 DEF Ping!TypeOK, Ping!Line, Ping!Ended
    <3>4. Ping!Handover'
      BY <1>1, <2>1, <2>2, <2>4, <3>1 DEF Ping!TypeOK, Ping!Handover, Ping!Line
    <3> QED BY <3>2, <3>3, <3>4 DEF Ping!IInv
  <2>5. CASE n = "writer"
    <3>1. round' = round /\ pc' = [pc EXCEPT !["writer"] = "sum"]
      BY <1>4, <2>5 DEF Ping!CheckSum, Ping!Goto
    <3>2. Ping!TypeOK' /\ Ping!NoErrors' /\ Ping!NoOvershoot'
      BY <1>1, <2>1, <2>3, <2>5, <3>1 DEF Ping!TypeOK, Ping!NoErrors, Ping!NoOvershoot
    <3>3. \A m \in Ping!Nodes : Ping!Line(m)' /\ Ping!Ended(m)'
      BY <1>1, <2>1, <2>5, <3>1 DEF Ping!TypeOK, Ping!Line, Ping!Ended
    <3>4. Ping!Handover'
      BY <1>1, <2>1, <2>2, <2>5, <3>1 DEF Ping!TypeOK, Ping!Handover, Ping!Line
    <3> QED BY <3>2, <3>3, <3>4 DEF Ping!IInv
  <2> QED BY <2>4, <2>5
<1> QED BY <1>2, <1>3, <1>4

(* The invariant holds for every number of iterations.                      *)
THEOREM PingInvariance == Ping!Spec => []Ping!IInv
<1>1. Ping!IInv /\ [Ping!Next]_(Ping!vars) => Ping!IInv'
  <2>1. SUFFICES ASSUME Ping!IInv, [Ping!Next]_(Ping!vars) PROVE Ping!IInv'
    OBVIOUS
  <2>2. CASE UNCHANGED Ping!vars
    BY <2>1, <2>2 DEF Ping!vars, Ping!IInv, Ping!TypeOK, Ping!Line, Ping!Ended, Ping!Handover,
                      Ping!NoErrors, Ping!NoOvershoot
  <2>3. CASE Ping!Next
    BY <2>1, <2>3, PublishStep, FenceStep, WaitStep, Zenon DEF Ping!Next
  <2> QED BY <2>1, <2>2, <2>3
<1> QED BY PingStarts, <1>1, PTL DEF Ping!Spec

(* wait_signal never counts an error in any round of either guest.          *)
THEOREM NeverAnError == Ping!Spec => []Ping!NoErrors
<1>1. Ping!IInv => Ping!NoErrors
  BY DEF Ping!IInv
<1> QED BY PingInvariance, <1>1, PTL

(* wait_signal's EPROTO exit is never taken.                                *)
THEOREM NeverOvershoots == Ping!Spec => []Ping!NoOvershoot
<1>1. Ping!IInv => Ping!NoOvershoot
  BY DEF Ping!IInv
<1> QED BY PingInvariance, <1>1, PTL

(* Requests in memory are level with the acknowledgements or one ahead.     *)
THEOREM StaysInLockstep == Ping!Spec => []Ping!Lockstep
<1>1. Ping!IInv => Ping!Lockstep
  <2>1. SUFFICES ASSUME Ping!IInv PROVE Ping!Lockstep
    OBVIOUS
  <2>2. \A m \in {"reader", "writer"} : round[m] \in Nat /\ value[m] \in {round[m] - 1, round[m]}
    BY <2>1 DEF Ping!IInv, Ping!TypeOK, Ping!Line, Ping!Nodes
  <2>3. /\ pc["writer"] = "poll" => value["writer"] = round["writer"] - 1
        /\ pc["writer"] = "valueFence" /\ pending["writer"] = {} => value["writer"] = round["writer"]
    BY <2>1 DEF Ping!IInv, Ping!Line, Ping!Nodes
  <2> QED BY <2>1, <2>2, <2>3 DEF Ping!IInv, Ping!Handover, Ping!Lockstep
<1> QED BY PingInvariance, <1>1, PTL


(***************************************************************************)
(* The runner of the Type 3 shared-memory guest (ShmRun).  It stops what   *)
(* it started in every run that is not cut off by a close, and a result it *)
(* writes was seen on the guest's console, of a guest that had connected   *)
(* to the memory server, while the server counted its accesses.            *)
(***************************************************************************)
CONSTANT ShmFaults
VARIABLES shm, server, qemu, pipe, output, linked, used, result, tmp
Shm == INSTANCE ShmRun WITH MaxFaults <- ShmFaults

(* The processes of the workflow, by where it is.                           *)
StoppedInOrder ==
    /\ phase \in {"check", "shm"} => qemu = "none"
    /\ phase = "check" => server = "none"
    /\ phase \in {"stop", "removed", "counts", "write", "replace"} => qemu # "running"
    /\ phase \in {"removed", "counts", "write", "replace"} => server # "running"
    /\ phase = "ended" /\ cause # "close" => qemu # "running"
    /\ phase = "ended" /\ cause \notin {"close", "survivor"} => server # "running"

(* What is established when the result is written.                         *)
Counted ==
    /\ phase \in {"counts", "write", "replace"} => shm = "none"
    /\ phase \in {"write", "replace"} => used /\ server = "reported"
    /\ result = "new" =>
         phase = "ended" /\ used /\ server = "reported" /\ shm = "none" /\ qemu # "running"

(* The processes are stopped in order, whatever the console says.           *)
LEMMA ProcessSteps ==
    ASSUME StoppedInOrder, Counted, [Shm!Next]_(Shm!vars)
    PROVE  StoppedInOrder' /\ Counted'
<1> USE DEF StoppedInOrder, Counted
<1>1. CASE UNCHANGED <<phase, cause, shm, server, qemu, used, result>>
  BY <1>1
<1>2. ASSUME phase = "console", UNCHANGED <<shm, server, used, result>>,
             qemu' = qemu \/ qemu' = "off", phase' \in {"console", "close"}
      PROVE  StoppedInOrder' /\ Counted'
  BY <1>2
<1>3. CASE UNCHANGED Shm!vars
  BY <1>1, <1>3, Zenon DEF Shm!vars, Shm!hostVars, Shm!guestVars, Shm!fileVars
<1>4. CASE Shm!StartServer
  BY <1>4 DEF Shm!StartServer, Shm!Raise, Shm!Throw, Shm!Go, Shm!guestVars, Shm!fileVars
<1>5. CASE Shm!WaitForShm
  BY <1>5 DEF Shm!WaitForShm, Shm!Raise, Shm!Throw, Shm!Go, Shm!guestVars, Shm!fileVars
<1>6. CASE Shm!Mark \/ Shm!WaitDone \/ Shm!Send \/ Shm!ValidateConsole \/ Shm!FirmwareMismatch
  <2>1. phase = "console" /\ phase' \in {"console", "close"}
    BY <1>6, Zenon DEF Shm!Mark, Shm!WaitDone, Shm!Send, Shm!ValidateConsole, Shm!FirmwareMismatch,
       Shm!HostAt, Shm!Proceed, Shm!Raise, Shm!Throw
  <2>2. UNCHANGED <<shm, server, used, result>> /\ qemu' = qemu
    BY <1>6, Zenon DEF Shm!Mark, Shm!WaitDone, Shm!Send, Shm!ValidateConsole, Shm!FirmwareMismatch,
       Shm!guestVars, Shm!fileVars
  <2> QED BY <1>2, <2>1, <2>2, Zenon
<1>7. CASE Shm!WaitReads
  <2>1. phase = "console" /\ UNCHANGED <<shm, server, used, result, qemu>>
    BY <1>7, Zenon DEF Shm!WaitReads, Shm!HostAt, Shm!fileVars
  <2>2. phase' \in {"console", "close"}
    BY <1>7, <2>1, Zenon DEF Shm!WaitReads, Shm!Throw
  <2> QED BY <1>2, <2>1, <2>2, Zenon
<1>8. CASE Shm!WaitForExit
  <2>1. phase = "console" /\ UNCHANGED <<shm, server, used, result>> /\ qemu' \in {qemu, "off"}
    BY <1>8, Zenon DEF Shm!WaitForExit, Shm!HostAt, Shm!fileVars
  <2>2. phase' \in {"console", "close"}
    BY <1>8, <2>1, Zenon DEF Shm!WaitForExit, Shm!Throw, Shm!Proceed
  <2> QED BY <1>2, <2>1, <2>2, Zenon
<1>9. CASE Shm!ConsoleDone
  BY <1>9 DEF Shm!ConsoleDone, Shm!Go, Shm!guestVars, Shm!fileVars
<1>10. CASE Shm!CloseConsole \/ Shm!CloseRaises
  BY <1>10 DEF Shm!CloseConsole, Shm!CloseRaises, Shm!Raise, Shm!Throw, Shm!guestVars, Shm!fileVars
<1>11. CASE Shm!StopServer \/ Shm!KillServer \/ Shm!KillFails
  BY <1>11 DEF Shm!StopServer, Shm!KillServer, Shm!KillFails, Shm!Raise, Shm!Throw, Shm!guestVars,
     Shm!fileVars
<1>12. CASE Shm!ShmRemoved \/ Shm!ParseCounts
  BY <1>12 DEF Shm!ShmRemoved, Shm!ParseCounts, Shm!Raise, Shm!Throw, Shm!Go, Shm!guestVars, Shm!fileVars
<1>13. CASE Shm!WriteTemporary \/ Shm!WriteRaises \/ Shm!Replace
  BY <1>13 DEF Shm!WriteTemporary, Shm!WriteRaises, Shm!Replace, Shm!Raise, Shm!Throw, Shm!Go,
     Shm!guestVars
<1>14. CASE Shm!ManifestMismatch \/ Shm!TimesOut
  BY <1>14 DEF Shm!ManifestMismatch, Shm!TimesOut, Shm!HostAt, Shm!Raise, Shm!Throw, Shm!guestVars,
     Shm!fileVars
<1>15. CASE Shm!ServerCreates \/ Shm!ServerDies
  BY <1>15 DEF Shm!ServerCreates, Shm!ServerDies, Shm!hostVars, Shm!guestVars, Shm!fileVars
<1>16. CASE Shm!QemuConnects \/ Shm!ShmError \/ Shm!GuestPrints \/ Shm!GuestReads \/ Shm!GuestFails
  BY <1>1, <1>16, Zenon DEF Shm!QemuConnects, Shm!ShmError, Shm!GuestPrints, Shm!GuestReads, Shm!GuestFails,
     Shm!hostVars, Shm!fileVars
<1>17. CASE Shm!GuestWorks
  BY <1>17 DEF Shm!GuestWorks, Shm!At, Shm!hostVars, Shm!fileVars
<1>18. CASE Shm!QemuExits \/ Shm!QemuCrashes
  BY <1>18 DEF Shm!QemuExits, Shm!QemuCrashes, Shm!At, Shm!hostVars, Shm!guestVars, Shm!fileVars
<1> QED
  BY <1>3, <1>4, <1>5, <1>6, <1>7, <1>8, <1>9, <1>10, <1>11, <1>12, <1>13, <1>14, <1>15, <1>16, <1>17,
     <1>18, Zenon DEF Shm!Next, Shm!HostStep, Shm!Machine, Shm!Faulty, Shm!Done

(* execute_workflow, however many things go wrong: when it ends, QEMU and    *)
(* the server have been stopped, unless closing the console itself raised,  *)
(* or the server survived SIGKILL.                                          *)
THEOREM NothingLeftAlways == Shm!Spec => []Shm!NothingLeftRunning
<1>1. Shm!Init => StoppedInOrder /\ Counted
  BY DEF Shm!Init, StoppedInOrder, Counted
<1>2. StoppedInOrder /\ Counted => Shm!NothingLeftRunning
  BY DEF StoppedInOrder, Shm!NothingLeftRunning
<1> QED BY <1>1, <1>2, ProcessSteps, PTL DEF Shm!Spec

-----------------------------------------------------------------------------
(* The scripts.  A console is validated before its script is through, and    *)
(* the guest leaves it to QEMU to say that it is connected.                 *)
ValidateAt == Len(Shm!run_uboot_guest)

HostMarkers == { Shm!Line(m) : m \in {"prompt", "PASS", "power_down"} }
HostSteps == [op : {"validate"}] \cup [op : {"mark"}, node : {"qemu"}]
             \cup [op : {"send"}, node : {"qemu"}, line : {"list", "info", "init", "setenv", "bootefi"}]
             \cup [op : {"await"}, node : {"qemu"}, marker : HostMarkers, after : BOOLEAN]
             \cup [op : {"exit"}, proc : {"qemu"}]

Says == {"prompt", "START", "DISK", "TOPOLOGY", "JSON", "PASS", "power_down"}
GuestSteps == [op : {"print"}, marker : { Shm!Line(m) : m \in Says }]
              \cup [op : {"gate"}, line : {"list", "info", "init", "setenv", "bootefi"}]
              \cup [op : {"work"}, with : {{}}, trace : {<<>>}] \cup [op : {"off"}]

(* Scripts are put together from scripts.                                   *)
LEMMA Joined ==
    ASSUME NEW S, NEW a \in Seq(S), NEW b \in Seq(S)
    PROVE  /\ a \o b \in Seq(S) /\ Len(a \o b) = Len(a) + Len(b)
           /\ \A i \in 1 .. Len(a) : (a \o b)[i] = a[i]
           /\ \A i \in 1 .. Len(b) : (a \o b)[Len(a) + i] = b[i]
  OBVIOUS

(* The instruction between two scripts.                                     *)
LEMMA JoinedAround ==
    ASSUME NEW S, NEW a \in Seq(S), NEW v \in Seq(S), NEW b \in Seq(S), Len(v) > 0
    PROVE  /\ Len((a \o v) \o b) \in Nat /\ Len(a \o v) \in 1 .. Len((a \o v) \o b)
           /\ ((a \o v) \o b)[Len(a \o v)] = v[Len(v)]
<1>1. a \o v \in Seq(S) /\ Len(a \o v) = Len(a) + Len(v) /\ (a \o v)[Len(a) + Len(v)] = v[Len(v)]
  OBVIOUS
<1> DEFINE c == a \o v
<1> HIDE DEF c
<1>2. Len(c \o b) = Len(c) + Len(b) /\ \A i \in 1 .. Len(c) : (c \o b)[i] = c[i]
  BY <1>1 DEF c
<1> QED BY <1>1, <1>2 DEF c

(* What follows two scripts.                                                *)
LEMMA JoinedBefore ==
    ASSUME NEW S, NEW a \in Seq(S), NEW b \in Seq(S), NEW v \in Seq(S), Len(v) > 0
    PROVE  /\ a \o (b \o v) \in Seq(S) /\ Len(a \o (b \o v)) = Len(a) + Len(b) + Len(v)
           /\ (a \o (b \o v))[Len(a) + Len(b) + Len(v)] = v[Len(v)]
<1>1. b \o v \in Seq(S) /\ Len(b \o v) = Len(b) + Len(v) /\ (b \o v)[Len(b) + Len(v)] = v[Len(v)]
  OBVIOUS
<1> DEFINE c == b \o v
<1> HIDE DEF c
<1>2. a \o c \in Seq(S) /\ Len(a \o c) = Len(a) + Len(c) /\ (a \o c)[Len(a) + Len(c)] = c[Len(c)]
  BY <1>1 DEF c
<1> QED BY <1>1, <1>2 DEF c

(* Where the host validates.                                                *)
LEMMA ShmScript ==
    /\ Len(Shm!Script) \in Nat /\ ValidateAt \in 1 .. Len(Shm!Script)
    /\ Shm!Script[ValidateAt].op = "validate"
<1> DEFINE c == Shm!BootCommands("qemu")
           w(m) == Shm!Await("qemu", m)
           s == Shm!SendLine("qemu", "bootefi")
           v == <<[op |-> "validate"]>>
           x == Shm!AwaitExit("qemu")
<1>1. c \in Seq(HostSteps)
  <2>1. \A l \in {"list", "info", "init", "setenv"} : Shm!Command("qemu", l) \in Seq(HostSteps)
    <3> SUFFICES ASSUME NEW l \in {"list", "info", "init", "setenv"}
                 PROVE  Shm!Command("qemu", l) \in Seq(HostSteps)
      OBVIOUS
    <3>1. [op |-> "mark", node |-> "qemu"] \in HostSteps
      BY DEF HostSteps
    <3>2. [op |-> "send", node |-> "qemu", line |-> l] \in HostSteps
      BY DEF HostSteps
    <3>3. [op |-> "await", node |-> "qemu", marker |-> Shm!Line("prompt"), after |-> TRUE] \in HostSteps
      BY DEF HostSteps, HostMarkers
    <3> QED BY <3>1, <3>2, <3>3 DEF Shm!Command
  <2> QED BY <2>1, Joined DEF Shm!BootCommands
<1>2. \A m \in {"prompt", "PASS", "power_down"} : w(m) \in Seq(HostSteps)
  <2> SUFFICES ASSUME NEW m \in {"prompt", "PASS", "power_down"}
               PROVE  w(m) \in Seq(HostSteps)
    OBVIOUS
  <2>1. [op |-> "await", node |-> "qemu", marker |-> Shm!Line(m), after |-> FALSE] \in HostSteps
    BY DEF HostSteps, HostMarkers
  <2> QED BY <2>1 DEF Shm!Await, Shm!AwaitLine
<1>3. s \in Seq(HostSteps)
  BY DEF Shm!SendLine, HostSteps
<1>4. x \in Seq(HostSteps)
  BY DEF Shm!AwaitExit, HostSteps
<1>5. v \in Seq(HostSteps) /\ Len(v) > 0 /\ v[Len(v)] = [op |-> "validate"]
  BY DEF HostSteps
<1> DEFINE a == w("prompt") \o c \o s \o w("PASS")
           b == w("power_down") \o x
<1>6. Shm!run_uboot_guest = a \o v /\ Shm!Script = (a \o v) \o b
  BY Zenon DEF Shm!Script, Shm!run_uboot_guest, Shm!finish_qemu
<1> HIDE DEF c, w, s, x
<1>7. a \in Seq(HostSteps) /\ b \in Seq(HostSteps)
  BY <1>1, <1>2, <1>3, <1>4, Joined
<1> HIDE DEF a, b, v
<1>8. /\ Len((a \o v) \o b) \in Nat /\ Len(a \o v) \in 1 .. Len((a \o v) \o b)
      /\ ((a \o v) \o b)[Len(a \o v)] = v[Len(v)]
  BY <1>5, <1>7, JoinedAround
<1>9. Shm!Script[ValidateAt] = [op |-> "validate"]
  BY <1>5, <1>6, <1>8, Zenon DEF ValidateAt
<1>10. Len(Shm!Script) \in Nat /\ ValidateAt \in 1 .. Len(Shm!Script)
  BY <1>6, <1>8, Zenon DEF ValidateAt
<1> QED BY <1>9, <1>10

(* What the guest says, and that it ends by turning itself off.             *)
LEMMA ShmGuest ==
    /\ Shm!Guest \in Seq(GuestSteps) /\ Len(Shm!Guest) \in Nat /\ Len(Shm!Guest) > 1
    /\ Shm!Guest[Len(Shm!Guest)].op = "off"
<1> DEFINE p(m) == Shm!Say(m)
           r(l) == Shm!ReadLine(l)
           k == Shm!Work
           o == Shm!PowerOff
<1>1. \A m \in Says : p(m) \in Seq(GuestSteps) /\ Len(p(m)) = 1
  BY DEF Shm!Say, Shm!Emit, GuestSteps
<1>2. \A l \in {"list", "info", "init", "setenv", "bootefi"} : r(l) \in Seq(GuestSteps)
  BY DEF Shm!ReadLine, GuestSteps
<1>3. k \in Seq(GuestSteps)
  BY DEF Shm!Work, Shm!Bench, GuestSteps
<1>4. o \in Seq(GuestSteps) /\ Len(o) > 0 /\ o[Len(o)].op = "off"
  BY DEF GuestSteps, Shm!PowerOff
<1> DEFINE f == p("prompt") \o r("list") \o p("prompt") \o r("info") \o p("prompt") \o r("init") \o
                p("prompt") \o r("setenv") \o p("prompt") \o r("bootefi")
           g == p("START") \o k \o p("DISK") \o k \o p("TOPOLOGY") \o k \o p("JSON") \o p("PASS")
                \o p("power_down")
<1>5. Shm!Guest = f \o (g \o o)
  BY Zenon DEF Shm!Guest, Shm!Prompts, Shm!init_main
<1> HIDE DEF p, r, k
<1>10. \A a, b \in Seq(GuestSteps) : a \o b \in Seq(GuestSteps)
  BY Joined, Zenon
<1>11. \A m \in {"prompt", "START", "DISK", "TOPOLOGY", "JSON", "PASS", "power_down"} :
         p(m) \in Seq(GuestSteps) /\ Len(p(m)) = 1
  BY <1>1, Zenon DEF Says
<1>6. f \in Seq(GuestSteps)
  BY <1>2, <1>10, <1>11, Zenon
<1>7. g \in Seq(GuestSteps) /\ Len(g) > 0
  <2>1. p("START") \o k \o p("DISK") \o k \o p("TOPOLOGY") \o k \o p("JSON") \o p("PASS") \in Seq(GuestSteps)
    BY <1>3, <1>10, <1>11, Zenon
  <2> QED BY <1>11, <2>1, Joined
<1> HIDE DEF f, g, o
<1>8. /\ f \o (g \o o) \in Seq(GuestSteps) /\ Len(f \o (g \o o)) = Len(f) + Len(g) + Len(o)
      /\ (f \o (g \o o))[Len(f) + Len(g) + Len(o)] = o[Len(o)]
  BY <1>4, <1>6, <1>7, JoinedBefore
<1>9. Len(f) \in Nat /\ Len(g) \in Nat /\ Len(o) \in Nat
  BY <1>4, <1>6, <1>7
<1> QED BY <1>4, <1>5, <1>7, <1>8, <1>9

(* What can be printed on the console.                                      *)
ShmLines == { Shm!Line(m) : m \in Says \cup {"connected", "shm_error", "FAIL"} }

(* What has been printed or read is the sum of its parts.                   *)
LEMMA Texts ==
    ASSUME NEW s \in Seq(ShmLines)
    PROVE  /\ \A x \in ShmLines : Append(s, x) \in Seq(ShmLines)
                  /\ Shm!Text(Append(s, x), 0) = Shm!Text(s, 0) \cup {x}
           /\ \A t \in Seq(ShmLines) : s \o t \in Seq(ShmLines)
                  /\ Shm!Text(s \o t, 0) = Shm!Text(s, 0) \cup Shm!Text(t, 0)
           /\ \A n \in 0 .. Len(s) :
                  /\ SubSeq(s, 1, n) \in Seq(ShmLines) /\ SubSeq(s, n + 1, Len(s)) \in Seq(ShmLines)
                  /\ Shm!Text(SubSeq(s, 1, n), 0) \subseteq Shm!Text(s, 0)
                  /\ Shm!Text(SubSeq(s, n + 1, Len(s)), 0) \subseteq Shm!Text(s, 0)
<1>1. ASSUME NEW x \in ShmLines
      PROVE  Append(s, x) \in Seq(ShmLines) /\ Shm!Text(Append(s, x), 0) = Shm!Text(s, 0) \cup {x}
  <2>1. \A y : y \in Shm!Text(Append(s, x), 0) <=> y \in Shm!Text(s, 0) \/ y = x
    BY DEF Shm!Text
  <2> QED BY <2>1
<1>2. ASSUME NEW t \in Seq(ShmLines)
      PROVE  s \o t \in Seq(ShmLines) /\ Shm!Text(s \o t, 0) = Shm!Text(s, 0) \cup Shm!Text(t, 0)
  <2>1. \A i \in 1 .. Len(s) : (s \o t)[i] = s[i]
    OBVIOUS
  <2>2. \A i \in 1 .. Len(t) : (s \o t)[Len(s) + i] = t[i]
    OBVIOUS
  <2>3. ASSUME NEW i \in 1 .. Len(s \o t)
        PROVE  (s \o t)[i] \in Shm!Text(s, 0) \cup Shm!Text(t, 0)
    <3>1. CASE i \in 1 .. Len(s)
      BY <2>1, <3>1 DEF Shm!Text
    <3>2. CASE i - Len(s) \in 1 .. Len(t)
      <4>1. (s \o t)[i] = t[i - Len(s)]
        BY <3>2
      <4> QED BY <3>2, <4>1 DEF Shm!Text
    <3> QED BY <3>1, <3>2
  <2>5. /\ Shm!Text(s \o t, 0) = { (s \o t)[i] : i \in 1 .. Len(s \o t) }
        /\ Shm!Text(s, 0) = { s[i] : i \in 1 .. Len(s) } /\ Shm!Text(t, 0) = { t[i] : i \in 1 .. Len(t) }
    BY DEF Shm!Text
  <2>4. ASSUME NEW i \in 1 .. Len(s) PROVE s[i] \in Shm!Text(s \o t, 0)
    <3>1. i \in 1 .. Len(s \o t)
      OBVIOUS
    <3>2. (s \o t)[i] = s[i]
      BY <2>1
    <3> QED BY <2>5, <3>1, <3>2, Zenon
  <2>6. ASSUME NEW i \in 1 .. Len(t) PROVE t[i] \in Shm!Text(s \o t, 0)
    <3>1. Len(s) + i \in 1 .. Len(s \o t)
      OBVIOUS
    <3>2. (s \o t)[Len(s) + i] = t[i]
      BY <2>2
    <3> QED BY <2>5, <3>1, <3>2, Zenon
  <2>7. Shm!Text(s \o t, 0) \subseteq Shm!Text(s, 0) \cup Shm!Text(t, 0)
    BY <2>3, <2>5, Zenon
  <2>8. Shm!Text(s, 0) \subseteq Shm!Text(s \o t, 0)
    BY <2>4, <2>5, Zenon
  <2>9. Shm!Text(t, 0) \subseteq Shm!Text(s \o t, 0)
    BY <2>5, <2>6, Zenon
  <2>10. s \o t \in Seq(ShmLines)
    BY Joined, Zenon
  <2> QED BY <2>7, <2>8, <2>9, <2>10, Zenon
<1>3. ASSUME NEW n \in 0 .. Len(s)
      PROVE  /\ SubSeq(s, 1, n) \in Seq(ShmLines) /\ SubSeq(s, n + 1, Len(s)) \in Seq(ShmLines)
             /\ Shm!Text(SubSeq(s, 1, n), 0) \subseteq Shm!Text(s, 0)
             /\ Shm!Text(SubSeq(s, n + 1, Len(s)), 0) \subseteq Shm!Text(s, 0)
  BY DEF Shm!Text
<1> QED BY <1>1, <1>2, <1>3, Zenon

(* Nothing on the console is lost, and it says "connected" only when QEMU   *)
(* is.                                                                      *)
ConsoleKept ==
    /\ gpc \in 1 .. Len(Shm!Guest)
    /\ pipe \in Seq(ShmLines) /\ output \in Seq(ShmLines)
    /\ Shm!Line("connected") \in Shm!Text(pipe, 0) \cup Shm!Text(output, 0) => linked = "yes"

(* What the harness has seen when it accepts a console.                     *)
Seen == { Shm!Line("PASS"), Shm!Line("JSON") } \subseteq Shm!Text(output, 0) /\ linked = "yes"

(* Every step keeps the console, and what was seen.                         *)
LEMMA ConsoleSteps ==
    ASSUME ConsoleKept, [Shm!Next]_(Shm!vars)
    PROVE  ConsoleKept' /\ (Seen => Seen')
<1> DEFINE Kept == ConsoleKept' /\ (Seen => Seen')
<1>1. CASE UNCHANGED <<gpc, pipe, output, linked>>
  BY <1>1 DEF ConsoleKept, Seen, Shm!Text
<1>2. ASSUME NEW n \in 0 .. Len(pipe), pipe' = SubSeq(pipe, n + 1, Len(pipe)),
             output' = output \o SubSeq(pipe, 1, n), UNCHANGED <<gpc, linked>>
      PROVE  Kept
  <2>1. /\ SubSeq(pipe, 1, n) \in Seq(ShmLines) /\ pipe' \in Seq(ShmLines)
        /\ Shm!Text(SubSeq(pipe, 1, n), 0) \subseteq Shm!Text(pipe, 0)
        /\ Shm!Text(pipe', 0) \subseteq Shm!Text(pipe, 0)
    BY <1>2, Texts DEF ConsoleKept
  <2>2. /\ output' \in Seq(ShmLines)
        /\ Shm!Text(output', 0) = Shm!Text(output, 0) \cup Shm!Text(SubSeq(pipe, 1, n), 0)
    BY <1>2, <2>1, Texts, Zenon DEF ConsoleKept
  <2>3. Shm!Text(pipe, 0)' = Shm!Text(pipe', 0) /\ Shm!Text(output, 0)' = Shm!Text(output', 0)
    BY DEF Shm!Text
  <2> QED BY <1>2, <2>1, <2>2, <2>3, Zenon DEF ConsoleKept, Seen
<1>3. ASSUME NEW x \in ShmLines, pipe' = Append(pipe, x), UNCHANGED output,
             gpc' \in 1 .. Len(Shm!Guest), linked = "yes" => linked' = "yes",
             x = Shm!Line("connected") => linked' = "yes"
      PROVE  Kept
  <2>1. pipe' \in Seq(ShmLines) /\ Shm!Text(pipe', 0) = Shm!Text(pipe, 0) \cup {x}
    BY <1>3, Texts DEF ConsoleKept
  <2>2. Shm!Text(pipe, 0)' = Shm!Text(pipe', 0) /\ Shm!Text(output, 0)' = Shm!Text(output, 0)
    BY <1>3 DEF Shm!Text
  <2> QED BY <1>3, <2>1, <2>2, Zenon DEF ConsoleKept, Seen
<1>4. ASSUME NEW m, m \in Says \cup {"connected", "shm_error", "FAIL"}
      PROVE  Shm!Line(m) \in ShmLines /\ (Shm!Line(m) = Shm!Line("connected") => m = "connected")
  BY <1>4 DEF ShmLines, Shm!Line
<1>5. CASE UNCHANGED Shm!vars
  BY <1>1, <1>5, Zenon DEF Shm!vars, Shm!hostVars, Shm!guestVars, Shm!fileVars
<1>6. CASE \/ Shm!StartServer \/ Shm!WaitForShm \/ Shm!Mark \/ Shm!Send \/ Shm!WaitDone
           \/ Shm!ValidateConsole \/ Shm!ConsoleDone \/ Shm!ManifestMismatch \/ Shm!FirmwareMismatch
           \/ Shm!TimesOut \/ Shm!CloseRaises \/ Shm!ShmRemoved \/ Shm!ParseCounts
  <2>1. UNCHANGED Shm!guestVars
    BY <1>6, Zenon DEF Shm!StartServer, Shm!WaitForShm, Shm!Mark, Shm!Send, Shm!WaitDone,
       Shm!ValidateConsole, Shm!ConsoleDone, Shm!ManifestMismatch, Shm!FirmwareMismatch, Shm!TimesOut,
       Shm!CloseRaises, Shm!ShmRemoved, Shm!ParseCounts
  <2>2. UNCHANGED output
    BY <1>6, Zenon DEF Shm!StartServer, Shm!WaitForShm, Shm!Mark, Shm!Send, Shm!WaitDone,
       Shm!ValidateConsole, Shm!ConsoleDone, Shm!ManifestMismatch, Shm!FirmwareMismatch, Shm!TimesOut,
       Shm!CloseRaises, Shm!ShmRemoved, Shm!ParseCounts, Shm!Go, Shm!Raise
  <2> QED BY <1>1, <2>1, <2>2, Zenon DEF Shm!guestVars
<1>7. CASE \/ Shm!StopServer \/ Shm!KillServer \/ Shm!KillFails \/ Shm!WriteTemporary \/ Shm!WriteRaises \/ Shm!Replace
           \/ Shm!ServerCreates \/ Shm!ServerDies \/ Shm!QemuExits \/ Shm!QemuCrashes
  <2>1. UNCHANGED Shm!guestVars /\ UNCHANGED output
    BY <1>7, Zenon DEF Shm!StopServer, Shm!KillServer, Shm!KillFails, Shm!WriteTemporary, Shm!WriteRaises, Shm!Replace,
       Shm!ServerCreates, Shm!ServerDies, Shm!QemuExits, Shm!QemuCrashes, Shm!Go, Shm!Raise, Shm!hostVars
  <2> QED BY <1>1, <2>1, Zenon DEF Shm!guestVars
<1>8. CASE Shm!WaitReads
  BY <1>2, <1>8, Zenon DEF Shm!WaitReads
<1>9. CASE Shm!WaitForExit \/ Shm!CloseConsole
  <2>1. output' = output \o pipe /\ pipe' = <<>> /\ UNCHANGED <<gpc, linked>>
    BY <1>9, Zenon DEF Shm!WaitForExit, Shm!CloseConsole
  <2>2. Len(pipe) \in 0 .. Len(pipe) /\ SubSeq(pipe, 1, Len(pipe)) = pipe
        /\ SubSeq(pipe, Len(pipe) + 1, Len(pipe)) = <<>>
    BY DEF ConsoleKept
  <2> QED BY <1>2, <2>1, <2>2, Zenon
<1>10. CASE Shm!QemuConnects
  <2>1. pipe' = Append(pipe, Shm!Line("connected")) /\ UNCHANGED <<output, gpc>> /\ linked' = "yes"
    BY <1>10, Zenon DEF Shm!QemuConnects, Shm!Prints, Shm!hostVars
  <2> QED BY <1>3, <1>4, <2>1, Zenon DEF ConsoleKept
<1>11. CASE Shm!ShmError
  <2>1. pipe' = Append(pipe, Shm!Line("shm_error")) /\ UNCHANGED <<output, gpc>>
        /\ (linked = "yes" => linked' = "yes")
    BY <1>11, Zenon DEF Shm!ShmError, Shm!Prints, Shm!hostVars
  <2> QED BY <1>3, <1>4, <2>1, Zenon DEF ConsoleKept
<1>12. CASE Shm!GuestPrints
  <2>1. Shm!Guest[gpc].op = "print" /\ pipe' = Append(pipe, Shm!Guest[gpc].marker)
        /\ UNCHANGED <<output, linked>> /\ gpc' = gpc + 1
    BY <1>12, Zenon DEF Shm!GuestPrints, Shm!At, Shm!hostVars
  <2>2. gpc' \in 1 .. Len(Shm!Guest)
    BY <2>1, ShmGuest DEF ConsoleKept
  <2>3. Shm!Guest[gpc] \in GuestSteps
    BY ShmGuest DEF ConsoleKept
  <2>4. PICK m \in Says : Shm!Guest[gpc].marker = Shm!Line(m)
    BY <2>1, <2>3 DEF GuestSteps
  <2>5. m # "connected"
    BY DEF Says
  <2> QED BY <1>3, <1>4, <2>1, <2>2, <2>4, <2>5, Zenon
<1>13. CASE Shm!GuestReads \/ Shm!GuestWorks
  <2>1. UNCHANGED <<pipe, output, linked>> /\ (gpc' = gpc \/ gpc' = gpc + 1)
        /\ Shm!Guest[gpc].op \in {"gate", "work"}
    BY <1>13, Zenon DEF Shm!GuestReads, Shm!GuestWorks, Shm!At, Shm!hostVars
  <2>2. gpc' \in 1 .. Len(Shm!Guest)
    BY <2>1, ShmGuest DEF ConsoleKept
  <2> QED BY <2>1, <2>2 DEF ConsoleKept, Seen, Shm!Text
<1>14. CASE Shm!GuestFails
  <2>1. pipe' = Append(pipe, Shm!Line("FAIL")) /\ UNCHANGED <<output, linked>>
        /\ gpc' = Len(Shm!Guest) - 1
    BY <1>14, Zenon DEF Shm!GuestFails, Shm!Prints, Shm!hostVars
  <2>2. gpc' \in 1 .. Len(Shm!Guest)
    BY <2>1, ShmGuest
  <2> QED BY <1>3, <1>4, <2>1, <2>2, Zenon
<1> QED
  BY <1>5, <1>6, <1>7, <1>8, <1>9, <1>10, <1>11, <1>12, <1>13, <1>14, Zenon
     DEF Shm!Next, Shm!HostStep, Shm!Machine, Shm!Faulty, Shm!Done

(* A console is accepted before anything that comes after it.               *)
AcceptedInTime ==
    /\ hpc \in Nat \ {0}
    /\ phase \in {"check", "shm"} => hpc = 1
    /\ phase = "console" /\ hpc > ValidateAt => Seen
    /\ phase \in {"close", "stop"} /\ cause = "none" => Seen
    /\ phase \in {"removed", "counts", "write", "replace"} \/ result = "new" => Seen

(* Every step keeps to that order.                                          *)
LEMMA AcceptSteps ==
    ASSUME ConsoleKept, AcceptedInTime, Seen => Seen', [Shm!Next]_(Shm!vars)
    PROVE  AcceptedInTime'
<1>0. ValidateAt' = ValidateAt /\ ValidateAt \in Nat \ {0}
  BY ShmScript DEF ValidateAt
<1>1. CASE UNCHANGED <<phase, hpc, cause, result>>
  BY <1>0, <1>1 DEF AcceptedInTime
<1>2. ASSUME UNCHANGED <<hpc, result>>, phase' \in {"close", "stop", "ended"}, cause' # "none"
      PROVE  AcceptedInTime'
  BY <1>0, <1>2 DEF AcceptedInTime
<1>3. ASSUME phase = "console", hpc' = hpc + 1, UNCHANGED <<phase, cause, result>>,
             Shm!Script[hpc].op # "validate" \/ Seen
      PROVE  AcceptedInTime'
  <2>1. hpc # ValidateAt \/ Seen
    BY <1>3, ShmScript, Zenon
  <2>2. hpc' \in Nat \ {0} /\ (hpc' > ValidateAt => Seen)
    BY <1>0, <1>3, <2>1 DEF AcceptedInTime
  <2> QED BY <1>0, <1>3, <2>2 DEF AcceptedInTime
<1>4. CASE UNCHANGED Shm!vars
  BY <1>1, <1>4, Zenon DEF Shm!vars, Shm!hostVars, Shm!fileVars
<1>5. CASE \/ Shm!ManifestMismatch \/ Shm!FirmwareMismatch \/ Shm!CloseRaises \/ Shm!WriteRaises
           \/ Shm!KillFails
  <2>1. /\ UNCHANGED <<hpc, result>> /\ phase' \in {"close", "ended"}
        /\ cause' \in {"error", "close", "survivor"}
    BY <1>5, Zenon DEF Shm!ManifestMismatch, Shm!FirmwareMismatch, Shm!CloseRaises, Shm!WriteRaises,
       Shm!KillFails, Shm!Raise, Shm!Throw, Shm!fileVars
  <2> QED BY <1>2, <2>1, Zenon
<1>6. CASE Shm!TimesOut
  <2>1. UNCHANGED <<hpc, result>> /\ phase' \in {"close", "stop", "ended"} /\ cause' = "deadline"
    BY <1>6, Zenon DEF Shm!TimesOut, Shm!Raise, Shm!Throw, Shm!fileVars
  <2> QED BY <1>2, <2>1, Zenon
<1>7. CASE Shm!StartServer
  BY <1>0, <1>7 DEF Shm!StartServer, Shm!Raise, Shm!Throw, Shm!Go, Shm!fileVars, AcceptedInTime
<1>8. CASE Shm!WaitForShm
  BY <1>0, <1>8 DEF Shm!WaitForShm, Shm!Raise, Shm!Throw, Shm!Go, Shm!fileVars, AcceptedInTime
<1>9. CASE Shm!Mark \/ Shm!WaitDone
  <2>1. /\ phase = "console" /\ hpc' = hpc + 1 /\ UNCHANGED <<phase, cause, result>>
        /\ Shm!Script[hpc].op \in {"mark", "await"}
    BY <1>9, Zenon DEF Shm!Mark, Shm!WaitDone, Shm!HostAt, Shm!Proceed, Shm!fileVars
  <2> QED BY <1>3, <2>1, Zenon
<1>10. CASE Shm!Send
  <2>1. phase = "console" /\ Shm!Script[hpc].op = "send" /\ UNCHANGED result
    BY <1>10, Zenon DEF Shm!Send, Shm!HostAt, Shm!fileVars
  <2>2. \/ hpc' = hpc + 1 /\ UNCHANGED <<phase, cause>>
        \/ UNCHANGED hpc /\ phase' = "close" /\ cause' = "error"
    BY <1>10, Zenon DEF Shm!Send, Shm!Raise, Shm!Throw, Shm!Proceed
  <2> QED BY <1>2, <1>3, <2>1, <2>2, Zenon
<1>11. CASE Shm!ValidateConsole
  <2>1. phase = "console" /\ UNCHANGED result
    BY <1>11, Zenon DEF Shm!ValidateConsole, Shm!HostAt, Shm!fileVars
  <2>2. \/ Shm!Validated(Shm!Text(output, 0)) /\ hpc' = hpc + 1 /\ UNCHANGED <<phase, cause>>
        \/ UNCHANGED hpc /\ phase' = "close" /\ cause' = "error"
    BY <1>11, Zenon DEF Shm!ValidateConsole, Shm!Raise, Shm!Throw, Shm!Proceed
  <2>3. Shm!Validated(Shm!Text(output, 0)) => Seen
    <3>1. Shm!Validated(Shm!Text(output, 0)) =>
             \A m \in {"connected", "PASS", "JSON"} : Shm!Line(m) \in Shm!Text(output, 0)
      BY Zenon DEF Shm!Validated
    <3> QED BY <3>1, Zenon DEF Seen, ConsoleKept
  <2> QED BY <1>2, <1>3, <2>1, <2>2, <2>3, Zenon
<1>12. CASE Shm!WaitReads
  <2>1. UNCHANGED <<hpc, result>>
    BY <1>12, Zenon DEF Shm!WaitReads, Shm!fileVars
  <2>2. UNCHANGED <<phase, cause>> \/ (phase' = "close" /\ cause' \in {"short_read", "error"})
    BY <1>12, Zenon DEF Shm!WaitReads, Shm!Throw
  <2> QED BY <1>1, <1>2, <2>1, <2>2, Zenon
<1>13. CASE Shm!WaitForExit
  <2>1. phase = "console" /\ Shm!Script[hpc].op = "exit" /\ UNCHANGED result
    BY <1>13, Zenon DEF Shm!WaitForExit, Shm!HostAt, Shm!fileVars
  <2>2. \/ hpc' = hpc + 1 /\ UNCHANGED <<phase, cause>>
        \/ UNCHANGED hpc /\ phase' = "close" /\ cause' = "error"
    BY <1>13, Zenon DEF Shm!WaitForExit, Shm!Throw, Shm!Proceed
  <2> QED BY <1>2, <1>3, <2>1, <2>2, Zenon
<1>14. CASE Shm!ConsoleDone
  BY <1>0, <1>14, ShmScript DEF Shm!ConsoleDone, Shm!Go, Shm!fileVars, AcceptedInTime
<1>15. CASE Shm!CloseConsole
  BY <1>0, <1>15 DEF Shm!CloseConsole, Shm!fileVars, AcceptedInTime
<1>16. CASE Shm!StopServer \/ Shm!KillServer
  BY <1>0, <1>16 DEF Shm!StopServer, Shm!KillServer, Shm!fileVars, AcceptedInTime
<1>17. CASE Shm!ShmRemoved \/ Shm!ParseCounts
  BY <1>0, <1>17 DEF Shm!ShmRemoved, Shm!ParseCounts, Shm!Raise, Shm!Throw, Shm!Go, Shm!fileVars,
     AcceptedInTime
<1>18. CASE Shm!WriteTemporary \/ Shm!Replace
  BY <1>0, <1>18 DEF Shm!WriteTemporary, Shm!Replace, Shm!Go, AcceptedInTime
<1>19. CASE Shm!Machine \/ Shm!ServerDies \/ Shm!ShmError \/ Shm!GuestFails \/ Shm!QemuCrashes
  <2>1. UNCHANGED <<hpc, phase, cause, result>>
    BY <1>19, Zenon DEF Shm!Machine, Shm!ServerCreates, Shm!QemuConnects, Shm!GuestPrints, Shm!GuestReads,
       Shm!GuestWorks, Shm!QemuExits, Shm!ServerDies, Shm!ShmError, Shm!GuestFails, Shm!QemuCrashes,
       Shm!hostVars, Shm!fileVars
  <2> QED BY <1>1, <2>1, Zenon
<1> QED
  BY <1>4, <1>5, <1>6, <1>7, <1>8, <1>9, <1>10, <1>11, <1>12, <1>13, <1>14, <1>15, <1>16, <1>17, <1>18,
     <1>19, Zenon DEF Shm!Next, Shm!HostStep, Shm!Faulty, Shm!Done

(* execute_workflow: the last successful result is replaced only            *)
(* by a run whose guest reported every stage over the connection, whose     *)
(* server counted its requests and ended in good order, and whose object is *)
(* gone.                                                                    *)
THEOREM ResultIsEarnedAlways == Shm!Spec => []Shm!ResultIsEarned
<1> DEFINE ShmInv == StoppedInOrder /\ Counted /\ ConsoleKept /\ AcceptedInTime
<1>1. ASSUME Shm!Init PROVE ShmInv
  <2>1. StoppedInOrder /\ Counted
    BY <1>1 DEF Shm!Init, StoppedInOrder, Counted
  <2>2. ConsoleKept
    BY <1>1, ShmGuest DEF Shm!Init, ConsoleKept, Shm!Text
  <2>3. AcceptedInTime
    BY <1>1, ShmScript DEF Shm!Init, AcceptedInTime
  <2> QED BY <2>1, <2>2, <2>3
<1>2. ShmInv /\ [Shm!Next]_(Shm!vars) => ShmInv'
  BY ProcessSteps, ConsoleSteps, AcceptSteps, Zenon
<1>3. ShmInv => Shm!ResultIsEarned
  BY DEF Counted, AcceptedInTime, Seen, Shm!ResultIsEarned
<1> HIDE DEF ShmInv
<1> QED BY <1>1, <1>2, <1>3, PTL DEF Shm!Spec

=============================================================================
