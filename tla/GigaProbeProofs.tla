--------------------------- MODULE GigaProbeProofs ---------------------------
(***************************************************************************)
(* For any number of clients, words and updates, the seqlock of the        *)
(* coherence probe never lets a torn snapshot be accepted, and the read    *)
(* after stop returns the last version: first for the same-cacheline phase *)
(* on its own, then for the whole probe.  Whatever the roles and the       *)
(* script do around it, and wherever they time out or are killed, the      *)
(* steps of the probe are steps of the phase or leave it alone.            *)
(***************************************************************************)
EXTENDS GigaProbe, TLAPS

USE SeqlockAssumption

-----------------------------------------------------------------------------
(* The phase.                                                               *)

(* The state in which the phase starts satisfies the inductive invariant.   *)
LEMMA InitIInv == Snapshot!Init => Snapshot!IInv
<1> SUFFICES ASSUME Snapshot!Init PROVE Snapshot!IInv
  OBVIOUS
<1>1. Snapshot!TypeOK
  <2>1. [w \in Words |-> 0] \in [Words -> 0 .. Updates]
    OBVIOUS
  <2>2. /\ seq \in 0 .. 2 * Updates
        /\ version \in 1 .. Updates + 1
        /\ 0 \in 0 .. 2 * Updates
        /\ -1 \in -1 .. Updates
    BY DEF Snapshot!Init
  <2>3. QED  BY <2>1, <2>2, Zenon DEF Snapshot!Init, Snapshot!TypeOK
<1>2. Snapshot!WriterInv  BY DEF Snapshot!Init, Snapshot!WriterInv
<1>3. ASSUME NEW c \in Clients PROVE Snapshot!ReaderInv(c)
  BY DEF Snapshot!Init, Snapshot!ReaderInv
<1>4. Snapshot!NoTornSnapshot  BY Zenon DEF Snapshot!Init, Snapshot!NoTornSnapshot
<1>5. QED  BY <1>1, <1>2, <1>3, <1>4 DEF Snapshot!IInv

(* An update in progress leaves the counter odd; halving an even one.       *)
LEMMA Parity ==
  \A k \in Int : (2 * k - 1) % 2 = 1 /\ (2 * k) \div 2 = k
  OBVIOUS

(* The update loop of run_server keeps the inductive invariant.             *)
LEMMA UpdatesKeep == ASSUME Snapshot!IInv, Snapshot!Server PROVE Snapshot!IInv'
<1> USE DEF Snapshot!IInv, Snapshot!TypeOK, Snapshot!WriterInv, Snapshot!ReaderInv,
        Snapshot!NoTornSnapshot, Snapshot!clientVars
<1>1. CASE Snapshot!OpenUpdate
  <2>1. Snapshot!TypeOK' /\ Snapshot!WriterInv' /\ Snapshot!NoTornSnapshot'
    BY <1>1 DEF Snapshot!OpenUpdate
  <2>2. \A c \in Clients : Snapshot!ReaderInv(c)'  BY <1>1 DEF Snapshot!OpenUpdate
  <2>3. QED  BY <2>1, <2>2, Zenon
<1>2. ASSUME NEW w \in Words, Snapshot!StoreWord(w) PROVE Snapshot!IInv'
  <2>1. seq = 2 * version - 1  BY <1>2 DEF Snapshot!StoreWord
  <2>2. Snapshot!TypeOK' /\ Snapshot!WriterInv' /\ Snapshot!NoTornSnapshot'
    BY <1>2, <2>1 DEF Snapshot!StoreWord
  <2>3. \A c \in Clients : Snapshot!ReaderInv(c)'  BY <1>2 DEF Snapshot!StoreWord
  <2>4. QED  BY <2>2, <2>3, Zenon
<1>3. CASE Snapshot!CloseUpdate
  <2>1. Snapshot!TypeOK' /\ Snapshot!WriterInv' /\ Snapshot!NoTornSnapshot'
    BY <1>3 DEF Snapshot!CloseUpdate
  <2>2. \A c \in Clients : Snapshot!ReaderInv(c)'  BY <1>3 DEF Snapshot!CloseUpdate
  <2>3. QED  BY <2>1, <2>2, Zenon
<1>4. CASE Snapshot!SetStop
  <2>1. Snapshot!TypeOK' /\ Snapshot!WriterInv' /\ Snapshot!NoTornSnapshot'
    BY <1>4 DEF Snapshot!SetStop
  <2>2. \A c \in Clients : Snapshot!ReaderInv(c)'  BY <1>4 DEF Snapshot!SetStop
  <2>3. QED  BY <2>1, <2>2, Zenon
<1>5. QED  BY <1>1, <1>2, <1>3, <1>4 DEF Snapshot!Server

(* snapshot_try_read and the loops around it keep the inductive invariant.  *)
LEMMA ReadsKeep == ASSUME Snapshot!IInv, NEW c \in Clients, Snapshot!Client(c) PROVE Snapshot!IInv'
<1> USE DEF Snapshot!IInv, Snapshot!TypeOK, Snapshot!WriterInv, Snapshot!ReaderInv,
        Snapshot!NoTornSnapshot, Snapshot!serverVars
<1>1. CASE Snapshot!CheckStop(c)  BY <1>1 DEF Snapshot!CheckStop
<1>2. CASE Snapshot!LoadFirst(c)
  <2>1. CASE seq % 2 = 1 /\ Snapshot!Retry(c)
    BY <1>2, <2>1 DEF Snapshot!LoadFirst, Snapshot!Retry, Snapshot!DropLocals
  <2>2. CASE seq % 2 = 0
    <3>1. seq = 2 * version - 2
      <4>1. (2 * version - 1) % 2 = 1  BY Parity
      <4>2. QED  BY <2>2, <4>1, Zenon
    <3>2. /\ first' = [first EXCEPT ![c] = seq]
          /\ unread' = [unread EXCEPT ![c] = Words]
          /\ rpc' = [rpc EXCEPT ![c] = "words"]
          /\ UNCHANGED <<value, last, accepted, torn>>
          /\ UNCHANGED Snapshot!serverVars
      BY <1>2, <2>2 DEF Snapshot!LoadFirst
    <3>3. Snapshot!TypeOK' /\ Snapshot!WriterInv' /\ Snapshot!NoTornSnapshot'  BY <3>2
    <3>4. ASSUME NEW d \in Clients  PROVE Snapshot!ReaderInv(d)'
      <4>1. CASE d # c  BY <3>2, <4>1
      <4>2. CASE d = c
        <5>1. version - 1 \in 0 .. Updates /\ seq = 2 * (version - 1)  BY <3>1
        <5>2. last[c] => seq = 2 * Updates  BY <3>1
        <5>3. first'[c] = seq /\ unread'[c] = Words /\ rpc'[c] = "words"
          BY <3>2
        <5>4. /\ \E k \in 0 .. Updates : first'[c] = 2 * k
              /\ Words \ unread'[c] = {}
          BY <5>1, <5>3, Zenon
        <5>5. first'[c] <= seq' /\ 2 * accepted'[c] <= first'[c]
          BY <3>2, <5>3
        <5>6. /\ last'[c] => stop' /\ first'[c] = 2 * Updates
              /\ rpc'[c] # "done"
          BY <3>2, <5>2, <5>3
        <5>7. QED  BY <3>2, <4>2, <5>4, <5>5, <5>6, Zenon
      <4>3. QED  BY <4>1, <4>2
    <3>5. QED  BY <3>3, <3>4, Zenon
  <2>3. QED  BY <1>2, <2>1, <2>2 DEF Snapshot!LoadFirst
<1>3. ASSUME NEW w \in Words, Snapshot!LoadWord(c, w) PROVE Snapshot!IInv'
  <2>1. seq = first[c] => 2 * word[w] = seq
    BY <1>3 DEF Snapshot!LoadWord
  <2>2. Snapshot!TypeOK' /\ Snapshot!WriterInv' /\ Snapshot!NoTornSnapshot'
    BY <1>3 DEF Snapshot!LoadWord
  <2>3. \A d \in Clients : Snapshot!ReaderInv(d)'  BY <1>3, <2>1 DEF Snapshot!LoadWord
  <2>4. QED  BY <2>2, <2>3, Zenon
<1>4. CASE Snapshot!LoadSecond(c)
  <2>1. CASE seq # first[c] /\ Snapshot!Retry(c)
    BY <1>4, <2>1 DEF Snapshot!LoadSecond, Snapshot!Retry, Snapshot!DropLocals
  <2>2. CASE seq = first[c]
    <3>1. PICK k \in 0 .. Updates : seq = 2 * k
      BY <1>4, <2>2 DEF Snapshot!LoadSecond
    <3>2. seq \div 2 = k
      BY <3>1, Parity
    <3>3. \A w \in Words : 2 * value[c][w] = seq
      BY <1>4, <2>2 DEF Snapshot!LoadSecond
    <3>4. /\ accepted' = [accepted EXCEPT ![c] = k]
          /\ torn' = [torn EXCEPT ![c] = FALSE]
          /\ rpc' = [rpc EXCEPT ![c] = IF last[c] THEN "done" ELSE "loop"]
          /\ first' = [first EXCEPT ![c] = 0]
          /\ value' = [value EXCEPT ![c] = [w \in Words |-> 0]]
          /\ UNCHANGED <<unread, last>>
          /\ UNCHANGED Snapshot!serverVars
      BY <1>4, <2>2, <3>2, <3>3 DEF Snapshot!LoadSecond, Snapshot!DropLocals
    <3>5. Snapshot!TypeOK' /\ Snapshot!WriterInv' /\ Snapshot!NoTornSnapshot'
      BY <3>4
    <3>6. last[c] => k = Updates
      BY <1>4, <2>2, <3>1 DEF Snapshot!LoadSecond
    <3>7. \A d \in Clients : Snapshot!ReaderInv(d)'
      BY <3>1, <3>4, <3>6
    <3>8. QED  BY <3>5, <3>7, Zenon
  <2>3. QED  BY <1>4, <2>1, <2>2 DEF Snapshot!LoadSecond
<1>5. QED  BY <1>1, <1>2, <1>3, <1>4 DEF Snapshot!Client

(* IInv is an invariant for all Clients, Words and Updates.                 *)
THEOREM SeqlockInvariance == Snapshot!Spec => []Snapshot!IInv
<1>1. Snapshot!IInv /\ [Snapshot!Next]_(Snapshot!vars) => Snapshot!IInv'
  <2>1. SUFFICES ASSUME Snapshot!IInv, [Snapshot!Next]_(Snapshot!vars)  PROVE Snapshot!IInv'
    OBVIOUS
  <2>2. CASE UNCHANGED Snapshot!vars
    BY <2>1, <2>2 DEF Snapshot!vars, Snapshot!serverVars, Snapshot!clientVars, Snapshot!IInv,
       Snapshot!TypeOK, Snapshot!WriterInv,
                      Snapshot!ReaderInv, Snapshot!NoTornSnapshot
  <2>3. CASE Snapshot!Next  BY <2>1, <2>3, UpdatesKeep, ReadsKeep DEF Snapshot!Next
  <2>4. QED  BY <2>1, <2>2, <2>3
<1>2. QED  BY InitIInv, <1>1, PTL DEF Snapshot!Spec

(* No client of the probe ever accepts a torn snapshot.                     *)
THEOREM NeverTorn == Snapshot!Spec => []Snapshot!NoTornSnapshot
<1>1. Snapshot!IInv => Snapshot!NoTornSnapshot  BY DEF Snapshot!IInv
<1>2. QED  BY SeqlockInvariance, <1>1, PTL

(* The read each client makes after stop returns the last version.          *)
THEOREM FinalReadIsLast == Snapshot!Spec => []Snapshot!LastReadIsFinal
<1>1. Snapshot!IInv => Snapshot!LastReadIsFinal
  BY DEF Snapshot!IInv, Snapshot!ReaderInv, Snapshot!LastReadIsFinal
<1>2. QED  BY SeqlockInvariance, <1>1, PTL

(* The snapshots a client accepts are of non-decreasing versions.           *)
THEOREM MonotonicReads == Snapshot!Spec => Snapshot!SnapshotsMonotonic
<1> DEFINE Grows == \A c \in Clients : accepted'[c] >= accepted[c]
<1>1. Snapshot!IInv /\ [Snapshot!Next]_(Snapshot!vars) => [Grows]_(Snapshot!vars)
  <2>1. SUFFICES ASSUME Snapshot!IInv, Snapshot!Next  PROVE Grows
    OBVIOUS
  <2>2. CASE Snapshot!Server
    BY <2>1, <2>2 DEF Snapshot!Server, Snapshot!OpenUpdate, Snapshot!StoreWord,
       Snapshot!CloseUpdate, Snapshot!SetStop, Snapshot!clientVars,
                      Snapshot!IInv, Snapshot!TypeOK
  <2>3. ASSUME NEW c \in Clients, Snapshot!Client(c)  PROVE Grows
    <3>1. CASE Snapshot!LoadSecond(c) /\ seq = first[c]
      <4>1. PICK k \in 0 .. Updates : seq = 2 * k
        BY <2>1, <3>1 DEF Snapshot!LoadSecond, Snapshot!IInv, Snapshot!ReaderInv
      <4>2. seq \div 2 = k
        BY <4>1, Parity
      <4>3. accepted' = [accepted EXCEPT ![c] = k]
        BY <3>1, <4>2 DEF Snapshot!LoadSecond, Snapshot!Retry
      <4>4. accepted[c] <= k
        BY <2>1, <3>1, <4>1 DEF Snapshot!LoadSecond, Snapshot!IInv, Snapshot!ReaderInv,
           Snapshot!TypeOK
      <4>5. QED  BY <2>1, <4>3, <4>4 DEF Snapshot!IInv, Snapshot!TypeOK
    <3>2. CASE ~(Snapshot!LoadSecond(c) /\ seq = first[c])
      BY <2>1, <2>3, <3>2 DEF Snapshot!Client, Snapshot!CheckStop, Snapshot!LoadFirst,
         Snapshot!LoadWord, Snapshot!LoadSecond, Snapshot!Retry,
                              Snapshot!IInv, Snapshot!TypeOK
    <3>3. QED  BY <3>1, <3>2
  <2>4. QED  BY <2>1, <2>2, <2>3 DEF Snapshot!Next
<1>2. QED  BY SeqlockInvariance, <1>1, PTL DEF Snapshot!Spec, Snapshot!SnapshotsMonotonic

-----------------------------------------------------------------------------
(* The probe.                                                               *)

(* Before and around the phase nothing touches the snapshot or the readers. *)
LEMMA OutsideThePhase ==
  ASSUME Next, ~SnapshotServer, \A c \in Clients : ~SnapshotClient(c)
  PROVE  UNCHANGED seqlockVars
  BY Zenon DEF Next, Runner, StartServer, StartClients, Inspect, Verdict, RunnerGivesUp,
         ServerStep, ClientStep, RoleStep, Store, CheckedLoad, checksum_step, StoreSum, PrintLine, WaitEnds,
         WaitTimesOut, ClientCannotBegin, ClientReturns, ServerReturns

(* The phase's invariant is an invariant of the probe.                      *)
THEOREM PhaseInvariance == Spec => []Snapshot!IInv
<1>1. Init => Snapshot!IInv  BY InitIInv DEF Init
<1>2. Snapshot!IInv /\ [Next]_vars => Snapshot!IInv'
  <2> SUFFICES ASSUME Snapshot!IInv, [Next]_vars  PROVE Snapshot!IInv'
    OBVIOUS
  <2>1. CASE SnapshotServer
    <3>1. Snapshot!Server  BY <2>1 DEF SnapshotServer
    <3>2. QED  BY <3>1, UpdatesKeep
  <2>2. ASSUME NEW c \in Clients, SnapshotClient(c)  PROVE Snapshot!IInv'
    <3>1. Snapshot!Client(c)  BY <2>2 DEF SnapshotClient
    <3>2. QED  BY <3>1, ReadsKeep
  <2>3. CASE UNCHANGED seqlockVars
    BY <2>3 DEF seqlockVars, Snapshot!IInv, Snapshot!TypeOK, Snapshot!WriterInv,
                Snapshot!ReaderInv, Snapshot!NoTornSnapshot
  <2>4. CASE UNCHANGED vars  BY <2>4, <2>3 DEF vars
  <2>5. QED  BY <2>1, <2>2, <2>3, <2>4, OutsideThePhase
<1>3. QED  BY <1>1, <1>2, PTL DEF Spec

(* No client of the probe ever accepts a torn snapshot (the *errors of      *)
(* snapshot_try_read stays zero), also in runs that time out or are killed. *)
THEOREM ProbeNeverTorn == Spec => []NoTornSnapshot
<1>1. Snapshot!IInv => NoTornSnapshot
  BY DEF Snapshot!IInv, NoTornSnapshot
<1>2. QED  BY PhaseInvariance, <1>1, PTL

(* A client that has left the seqlock phase has accepted the last version.  *)
THEOREM ProbeFinalReadIsLast == Spec => []LastReadIsFinal
<1>1. Snapshot!IInv => LastReadIsFinal
  BY DEF Snapshot!IInv, Snapshot!ReaderInv, LastReadIsFinal, Snapshot!LastReadIsFinal
<1>2. QED  BY PhaseInvariance, <1>1, PTL
=============================================================================
