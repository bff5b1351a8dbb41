--------------------------- MODULE Io500RunProofs ---------------------------
(***************************************************************************)
(* One IO500 run, for any number of guests and faults: the failure that its *)
(* result names and the order in which its processes end.                   *)
(*                                                                          *)
(* The audit of a server's payload durability counters, for any finite set  *)
(* of writes and any number of steps left out.  A job of the authority that *)
(* leaves the persisting out is missing among the persist jobs for good; a  *)
(* dependency that is closed without a receipt, among the receipts.         *)
(***************************************************************************)
EXTENDS Io500Run, Integers, FiniteSets, TLAPS

(* The guests of a run: any number of servers, at least one client.         *)
Counts == ServerCount \in Nat /\ ClientCount \in Nat \ {0}

-----------------------------------------------------------------------------
(* The failure that result.json names.  Until the except clause the         *)
(* exception in flight is the first one or an interrupt; from then on the   *)
(* recorded failure is, and the cleanup only fills in an empty place.       *)
FailureInv ==
    /\ result = NoResult \/ (pc = "done" /\ result.failure = failure)
    /\ first # "none" => pc \in {"diagnose", "drain", "except", "finally", "done"}
    /\ pc \in {"diagnose", "drain", "except"} => first # "none" /\ raised \in {first, "interrupt"}
    /\ pc \in {"finally", "done"} /\ first # "none" => failure \in {first, "interrupt"}

(* A step of the runner that raises in the try block, where nothing has     *)
(* been raised yet.                                                         *)
LEMMA Raises ==
    ASSUME FailureInv, NEW what, what # "none", Raise(what),
           pc \notin {"diagnose", "drain", "except", "finally", "done"}
    PROVE  FailureInv'
BY DEF FailureInv, Raise, InPool

(* A step within the try block, and one that leaves the runner alone.       *)
LEMMA GoesOn ==
    ASSUME FailureInv, UNCHANGED <<raised, first, result, failure>>,
           \/ pc' = pc
           \/ /\ pc \notin {"diagnose", "drain", "except", "finally", "done"}
              /\ pc' \notin {"diagnose", "drain", "except", "done"}
    PROVE  FailureInv'
BY DEF FailureInv

(* Every step of the run keeps the failure invariant.                       *)
LEMMA FailureStep ==
    ASSUME FailureInv, [Next]_vars
    PROVE  FailureInv'
<1> USE DEF runnerVars, outsideVars, Goto
<1>1. CASE UNCHANGED vars
  BY <1>1, GoesOn DEF vars
<1>2. CASE Outside \/ Threads
  BY <1>2, GoesOn
     DEF Outside, Threads, _read_output, Prints, GuestReady, StageEnds,
         GuestFails, GuestPowersOff, ProviderEnds, Crashes, Sticks,
         boot_guest
<1>3. CASE StartsProvider \/ wait_log \/ StartsGuest
  BY <1>3, GoesOn, Raises DEF StartsProvider, wait_log, StartsGuest
<1>4. CASE JoinsBoots \/ wait_guest_marker
  BY <1>4, GoesOn, Raises DEF JoinsBoots, wait_guest_marker
<1>5. CASE Prepares \/ launch_mpi \/ dump_observations_safely \/ Gates
  BY <1>5, GoesOn, Raises
     DEF Prepares, launch_mpi, dump_observations_safely, Gates
<1>6. CASE wait_mpi_exit
  <2>1. /\ pc = "mpi"
        /\ \/ Raise("trouble")
           \/ Raise("wait")
           \/ pc' = "observe" /\ UNCHANGED <<raised, first, result, failure>>
           \/ /\ raised' = "stage" /\ first' = "stage" /\ pc' = "diagnose"
              /\ UNCHANGED <<result, failure>>
    BY <1>6 DEF wait_mpi_exit
  <2>2. CASE raised' = "stage" /\ first' = "stage" /\ pc' = "diagnose"
             /\ UNCHANGED <<result, failure>>
    BY <2>1, <2>2 DEF FailureInv
  <2> QED BY <2>1, <2>2, GoesOn, Raises
<1>7. CASE PowersOff \/ (\E g \in Guests : FinishesGuest(g)) \/ FinishesGroup
  BY <1>7, GoesOn, Raises DEF PowersOff, FinishesGuest, FinishesGroup
<1>8. CASE RetiresProvider \/ ReadsStats \/ Rechecks
  BY <1>8, GoesOn, Raises DEF RetiresProvider, ReadsStats, Rechecks
<1>9. CASE DrainsPool \/ Diagnoses \/ Excepts \/ Interrupted
  BY <1>9 DEF FailureInv, DrainsPool, Diagnoses, Excepts, Interrupted, InPool
<1>10. CASE StopsProcess
  BY <1>10, GoesOn DEF StopsProcess
<1>11. CASE WritesResult
  BY <1>11 DEF FailureInv, WritesResult
<1> QED BY <1>1, <1>2, <1>3, <1>4, <1>5, <1>6, <1>7, <1>8, <1>9, <1>10, <1>11
        DEF Next, Runner, Done

-----------------------------------------------------------------------------
(* The order in which the processes of a run end.  Whoever is asked to end, *)
(* or stopped, comes after those that depend on it: these have ended or     *)
(* cannot be stopped, and stay so.                                          *)

Down(p) == proc[p] # "running" \/ p \in stuck
ServersDown == \A p \in Group("server") : Down(p)
GuestsDown == \A p \in Guests : Down(p)

(* Nobody is asked to end while the run is still being set up.              *)
SettingUp == {"provider", "listen", "start", "join", "ready", "sync", "launch", "mpi",
              "observe", "gates"}

TeardownInv ==
    /\ DOMAIN proc = Processes
    /\ role \in {"server", "client"} /\ at \in Nat \ {0}
    /\ pc \in SettingUp => asked = {}
    /\ \A p \in asked : p[1] = "client" => ServersDown
    /\ Provider \in asked => GuestsDown
    /\ pc \in {"off", "finish"} /\ role = "client" => ServersDown
    /\ pc = "retire" => GuestsDown
    /\ pc = "finally" => \A i \in 1 .. Len(dependency_order) :
                            i < at => Down(dependency_order[i])

(* The list that the finally clause stops one by one.                       *)
LEMMA DependencyOrder ==
    ASSUME Counts
    PROVE  /\ Len(dependency_order) = ServerCount + ClientCount + 1
           /\ \A i \in 1 .. ServerCount : dependency_order[i] = <<"server", i>>
           /\ \A i \in 1 .. ClientCount : dependency_order[ServerCount + i] = <<"client", i>>
           /\ dependency_order[ServerCount + ClientCount + 1] = Provider
<1> USE DEF Counts
<1> DEFINE servers == [i \in 1 .. ServerCount |-> <<"server", i>>]
           clients == [i \in 1 .. ClientCount |-> <<"client", i>>]
           guests == servers \o clients
           D == {Provider} \cup ({"server", "client"} \X Nat)
<1>1. dependency_order = guests \o <<Provider>>
  BY DEF dependency_order, InOrder, Count
<1>2. servers \in Seq(D) /\ Len(servers) = ServerCount
  OBVIOUS
<1>3. clients \in Seq(D) /\ Len(clients) = ClientCount
  OBVIOUS
<1>4. Provider \in D
  OBVIOUS
<1> HIDE DEF D
<1>5. /\ guests \in Seq(D)
      /\ Len(guests) = ServerCount + ClientCount
      /\ \A i \in 1 .. ServerCount : guests[i] = <<"server", i>>
      /\ \A i \in 1 .. ClientCount : guests[ServerCount + i] = <<"client", i>>
  BY <1>2, <1>3
<1> HIDE DEF servers, clients, guests
<1>6. \A s, c \in Nat : /\ \A i \in 1 .. s : i \in 1 .. s + c
                        /\ \A i \in 1 .. c : s + i \in 1 .. s + c
  OBVIOUS
<1>7. ServerCount \in Nat /\ ClientCount \in Nat
  OBVIOUS
<1>8. /\ Len(guests \o <<Provider>>) = Len(guests) + 1
      /\ (guests \o <<Provider>>)[Len(guests) + 1] = Provider
      /\ \A i \in 1 .. Len(guests) : (guests \o <<Provider>>)[i] = guests[i]
  <2>1. guests \in Seq(D)
    BY <1>5
  <2> QED BY <1>4, <2>1
<1>9. /\ Len(dependency_order) = Len(guests) + 1
      /\ dependency_order[Len(guests) + 1] = Provider
      /\ \A i \in 1 .. Len(guests) : dependency_order[i] = guests[i]
  BY <1>1, <1>8, Zenon
<1> QED BY <1>5, <1>6, <1>7, <1>9, Zenon

(* All of it is processes of the run.                                       *)
LEMMA ListedProcesses ==
    ASSUME Counts
    PROVE  \A i \in 1 .. Len(dependency_order) : dependency_order[i] \in Processes
<1> USE DEF Counts
<1> SUFFICES ASSUME NEW i \in 1 .. Len(dependency_order)
             PROVE  dependency_order[i] \in Processes
  OBVIOUS
<1>1. CASE i \in 1 .. ServerCount
  BY <1>1, DependencyOrder, Zenon DEF Processes, Guests, Group, Count
<1>2. ASSUME NEW k \in 1 .. ClientCount, i = ServerCount + k
      PROVE  dependency_order[i] \in Processes
  BY <1>2, DependencyOrder, Zenon DEF Processes, Guests, Group, Count
<1>3. CASE i = ServerCount + ClientCount + 1
  BY <1>3, DependencyOrder DEF Processes
<1>4. i \in 1 .. ServerCount \/ (\E k \in 1 .. ClientCount : i = ServerCount + k)
        \/ i = ServerCount + ClientCount + 1
  <2>1. i \in ServerCount + 1 .. ServerCount + ClientCount =>
          i - ServerCount \in 1 .. ClientCount /\ i = ServerCount + (i - ServerCount)
    OBVIOUS
  <2> QED BY <2>1, DependencyOrder
<1> QED BY <1>1, <1>2, <1>3, <1>4

(* Who comes earlier in that list.                                          *)
LEMMA StoppedBefore ==
    ASSUME Counts, NEW i \in 1 .. Len(dependency_order),
           \A j \in 1 .. Len(dependency_order) : j < i => Down(dependency_order[j])
    PROVE  /\ dependency_order[i][1] = "client" => ServersDown
           /\ dependency_order[i] = Provider => GuestsDown
<1> USE DEF Counts, Group, Count, Guests, Provider
<1>1. CASE i <= ServerCount
  <2>1. dependency_order[i] = <<"server", i>>
    BY <1>1, DependencyOrder
  <2> QED BY <2>1
<1>2. CASE i > ServerCount
  <2>1. ServersDown
    BY <1>2, DependencyOrder DEF ServersDown
  <2>2. ASSUME i # ServerCount + ClientCount + 1
        PROVE  dependency_order[i][1] = "client"
    <3>1. i - ServerCount \in 1 .. ClientCount /\ i = ServerCount + (i - ServerCount)
      BY <1>2, <2>2, DependencyOrder
    <3>2. dependency_order[i] = <<"client", i - ServerCount>>
      BY <3>1, DependencyOrder
    <3> QED BY <3>2
  <2>3. ASSUME i = ServerCount + ClientCount + 1 PROVE GuestsDown
    <3>1. ASSUME NEW k \in 1 .. ClientCount PROVE Down(<<"client", k>>)
      <4>1. ServerCount + k \in 1 .. Len(dependency_order) /\ ServerCount + k < i
        BY <2>3, DependencyOrder
      <4>2. dependency_order[ServerCount + k] = <<"client", k>>
        BY DependencyOrder, Zenon
      <4> QED BY <4>1, <4>2
    <3>2. \A g \in Group("client") : Down(g)
      BY <3>1, Zenon
    <3> HIDE DEF Counts, Group
    <3> QED BY <2>1, <3>2, Zenon DEF GuestsDown, ServersDown
  <2> QED BY <2>1, <2>2, <2>3
<1> QED BY <1>1, <1>2, DependencyOrder

(* What is down stays down when nothing is started, so the invariant only   *)
(* depends on where the runner is and on whom it has asked.                 *)
LEMMA StaysDown ==
    ASSUME TeardownInv, DOMAIN proc' = Processes, stuck \subseteq stuck',
           \A p \in Processes : proc'[p] = "running" => proc[p] = "running"
    PROVE  /\ \A p \in Processes : Down(p) => Down(p)'
           /\ ServersDown => ServersDown'
           /\ GuestsDown => GuestsDown'
<1>1. \A p \in Processes : Down(p) => Down(p)'
  BY DEF Down
<1> QED BY <1>1 DEF ServersDown, GuestsDown, Processes, Guests

(* Steps of the guests and of boot threads, and those of the runner that    *)
(* stop a process where it is.                                              *)
LEMMA OutsideSteps ==
    ASSUME Counts, TeardownInv, DOMAIN proc' = Processes, stuck \subseteq stuck',
           \A p \in Processes : proc'[p] = "running" => proc[p] = "running",
           UNCHANGED <<pc, role, at, asked>>
    PROVE  TeardownInv'
<1>1. \A i \in 1 .. Len(dependency_order) :
        Down(dependency_order[i]) => Down(dependency_order[i])'
  BY StaysDown, ListedProcesses
<1> QED BY <1>1, StaysDown DEF TeardownInv

(* Steps of the runner that only move it.                                   *)
Goes ==
    /\ UNCHANGED <<proc, asked, stuck>>
    /\ role' \in {"server", "client"} /\ at' \in Nat \ {0}
    /\ \/ pc \in SettingUp /\ pc' \in SettingUp
       \/ pc' \in {"drain", "diagnose", "except", "stats", "recheck", "done"}
       \/ pc' = "finally" /\ at' = 1
       \/ pc' = "off" /\ role' = "server"
       \/ pc' = "off" /\ ServersDown
       \/ pc = "off" /\ pc' \in {"off", "finish"} /\ role' = role
       \/ pc' = "retire" /\ GuestsDown

(* They keep the teardown invariant.                                        *)
LEMMA RunnerGoes ==
    ASSUME TeardownInv, Goes
    PROVE  TeardownInv'
<1>1. ServersDown' = ServersDown /\ GuestsDown' = GuestsDown
  BY DEF Goes, ServersDown, GuestsDown, Down
<1> QED BY <1>1 DEF TeardownInv, Goes, SettingUp

(* The actions of the runner that do no more.                               *)
LEMMA ActionsThatGo ==
    ASSUME role \in {"server", "client"}, at \in Nat \ {0}
    PROVE  /\ \A what : Raise(what) => Goes
           /\ wait_log \/ JoinsBoots \/ wait_guest_marker => Goes
           /\ Prepares \/ launch_mpi \/ wait_mpi_exit => Goes
           /\ dump_observations_safely \/ DrainsPool \/ Diagnoses => Goes
           /\ Excepts \/ Interrupted \/ WritesResult => Goes
           /\ Gates \/ ReadsStats \/ Rechecks => Goes
<1> USE DEF outsideVars, Goes, SettingUp
<1>1. ASSUME NEW what, Raise(what) PROVE Goes
  BY <1>1 DEF Raise
<1>2. ASSUME NEW next, NEW r, Goto(next, r), UNCHANGED outsideVars
      PROVE  /\ UNCHANGED <<proc, asked, stuck>> /\ pc' = next /\ role' = r /\ at' = 1
  BY <1>2 DEF Goto
<1>3. ASSUME wait_log PROVE Goes
  BY <1>1, <1>2, <1>3 DEF wait_log
<1>4. ASSUME JoinsBoots PROVE Goes
  BY <1>1, <1>2, <1>4 DEF JoinsBoots
<1>5. ASSUME wait_guest_marker PROVE Goes
  BY <1>1, <1>2, <1>5 DEF wait_guest_marker
<1>6. ASSUME Prepares PROVE Goes
  BY <1>1, <1>2, <1>6 DEF Prepares
<1>7. ASSUME launch_mpi PROVE Goes
  BY <1>1, <1>7 DEF launch_mpi
<1>8. ASSUME wait_mpi_exit PROVE Goes
  BY <1>1, <1>2, <1>8 DEF wait_mpi_exit
<1>9. ASSUME dump_observations_safely PROVE Goes
  BY <1>2, <1>9 DEF dump_observations_safely
<1>10. ASSUME DrainsPool PROVE Goes
  BY <1>2, <1>10 DEF DrainsPool
<1>11. ASSUME Diagnoses PROVE Goes
  BY <1>11 DEF Diagnoses
<1>12. ASSUME Excepts PROVE Goes
  BY <1>12 DEF Excepts
<1>13. ASSUME Interrupted PROVE Goes
  BY <1>13 DEF Interrupted
<1>14. ASSUME WritesResult PROVE Goes
  BY <1>14 DEF WritesResult
<1>15. ASSUME Gates PROVE Goes
  BY <1>1, <1>2, <1>15 DEF Gates
<1>16. ASSUME ReadsStats PROVE Goes
  BY <1>1, <1>2, <1>16 DEF ReadsStats
<1>17. ASSUME Rechecks PROVE Goes
  BY <1>1, <1>17 DEF Rechecks
<1> HIDE DEF outsideVars, Goes, SettingUp
<1> QED BY <1>1, <1>3, <1>4, <1>5, <1>6, <1>7, <1>8, <1>9, <1>10, <1>11, <1>12, <1>13, <1>14,
           <1>15, <1>16, <1>17, Zenon

(* What the guests, the boot threads and accidents can do to the processes. *)
LEMMA OutsideMoves ==
    ASSUME Outside \/ Threads
    PROVE  /\ UNCHANGED <<pc, role, at, asked>>
           /\ UNCHANGED stuck \/ \E p : stuck' = stuck \cup {p}
           /\ UNCHANGED proc \/ \E p : proc' = [proc EXCEPT ![p] = "exited"]
           /\ faults' = faults \/ faults' = faults + 1
<1> USE DEF runnerVars, outsideVars
<1>1. ASSUME NEW g, boot_guest(g)
      PROVE  UNCHANGED <<pc, role, at, asked, stuck, proc, faults>>
  BY <1>1 DEF boot_guest
<1>2. ASSUME NEW g, NEW line, Prints(g, line)
      PROVE  UNCHANGED <<pc, role, at, asked, stuck, proc>>
  BY <1>2 DEF Prints
<1>3. ASSUME NEW g, NEW line, GuestFails(g, line)
      PROVE  UNCHANGED <<pc, role, at, asked, stuck, proc>> /\ faults' = faults + 1
  BY <1>2, <1>3 DEF GuestFails
<1>4. ASSUME NEW line, StageEnds(line)
      PROVE  UNCHANGED <<pc, role, at, asked, stuck, proc>> /\ faults' \in {faults, faults + 1}
  BY <1>2, <1>4 DEF StageEnds
<1>5. ASSUME NEW g, _read_output(g) \/ GuestReady(g)
      PROVE  UNCHANGED <<pc, role, at, asked, stuck, proc, faults>>
  BY <1>2, <1>5 DEF _read_output, GuestReady
<1>6. ASSUME NEW g, GuestPowersOff(g) \/ ProviderEnds
      PROVE  /\ UNCHANGED <<pc, role, at, asked, stuck, faults>>
             /\ \E p : proc' = [proc EXCEPT ![p] = "exited"]
  BY <1>6 DEF GuestPowersOff, ProviderEnds
<1>7. ASSUME NEW p, Crashes(p)
      PROVE  /\ UNCHANGED <<pc, role, at, asked, stuck>> /\ faults' = faults + 1
             /\ proc' = [proc EXCEPT ![p] = "exited"]
  BY <1>7 DEF Crashes
<1>8. ASSUME NEW p, Sticks(p)
      PROVE  /\ UNCHANGED <<pc, role, at, asked, proc>> /\ faults' = faults + 1
             /\ stuck' = stuck \cup {p}
  BY <1>8 DEF Sticks
<1>9. CASE Threads
  BY <1>1, <1>9 DEF Threads
<1>10. CASE Outside
  BY <1>3, <1>4, <1>5, <1>6, <1>7, <1>8, <1>10 DEF Outside
<1> QED BY <1>9, <1>10, Zenon

(* Every step of the run keeps the teardown invariant.                      *)
LEMMA TeardownStep ==
    ASSUME Counts, TeardownInv, [Next]_vars
    PROVE  TeardownInv'
<1>0. /\ role \in {"server", "client"} /\ at \in Nat \ {0} /\ DOMAIN proc = Processes
  BY DEF TeardownInv
<1>1. CASE UNCHANGED vars
  <2>1. UNCHANGED <<pc, role, at, asked, stuck, proc>>
    BY <1>1 DEF vars, runnerVars, outsideVars
  <2> QED BY <1>0, <2>1, OutsideSteps
<1>2. CASE Outside \/ Threads
  <2>1. /\ UNCHANGED <<pc, role, at, asked>> /\ stuck \subseteq stuck'
        /\ UNCHANGED proc \/ \E p : proc' = [proc EXCEPT ![p] = "exited"]
    BY <1>2, OutsideMoves
  <2>2. /\ DOMAIN proc' = Processes
        /\ \A p \in Processes : proc'[p] = "running" => proc[p] = "running"
    BY <1>0, <2>1
  <2> QED BY <2>1, <2>2, OutsideSteps
<1>3. CASE Goes
  BY <1>3, RunnerGoes
<1>4. CASE StartsProvider \/ StartsGuest
  <2>1. ASSUME NEW p, proc' = [proc EXCEPT ![p] = "running"], pc \in SettingUp,
               pc' \in SettingUp, asked' = asked, role' \in {"server", "client"},
               at' \in Nat \ {0}
        PROVE  TeardownInv'
    BY <2>1 DEF TeardownInv, SettingUp
  <2>2. ASSUME NEW next, NEW r, Goto(next, r)
        PROVE  pc' = next /\ role' = r /\ at' = 1
    BY <2>2 DEF Goto
  <2>3. CASE StartsProvider
    <3>1. \/ Raise("start")
          \/ /\ proc' = [proc EXCEPT ![Provider] = "running"] /\ pc = "provider"
             /\ pc' = "listen" /\ role' = role /\ at' = 1 /\ asked' = asked
      BY <2>2, <2>3 DEF StartsProvider
    <3> QED BY <1>0, <1>3, <2>1, <3>1, ActionsThatGo DEF SettingUp
  <2>4. CASE StartsGuest
    <3>1. \/ Raise("start")
          \/ /\ proc' = [proc EXCEPT ![<<role, at>>] = "running"] /\ at' = at + 1
             /\ UNCHANGED <<pc, role, asked>>
          \/ Goto("join", role) /\ UNCHANGED outsideVars
      BY <2>4 DEF StartsGuest
    <3>2. pc = "start"
      BY <2>4 DEF StartsGuest
    <3>3. CASE Goto("join", role) /\ UNCHANGED outsideVars
      <4>1. Goes
        BY <1>0, <2>2, <3>2, <3>3 DEF Goes, SettingUp, outsideVars
      <4> QED BY <1>3, <4>1
    <3>4. CASE proc' = [proc EXCEPT ![<<role, at>>] = "running"] /\ at' = at + 1
               /\ UNCHANGED <<pc, role, asked>>
      <4>1. at' \in Nat \ {0} /\ role' \in {"server", "client"} /\ asked' = asked
        BY <1>0, <3>4
      <4>2. pc \in SettingUp /\ pc' \in SettingUp
        BY <3>2, <3>4 DEF SettingUp
      <4> QED BY <2>1, <3>4, <4>1, <4>2, Zenon
    <3>5. CASE Raise("start")
      BY <1>0, <1>3, <3>5, ActionsThatGo
    <3> QED BY <3>1, <3>3, <3>4, <3>5
  <2> QED BY <1>4, <2>3, <2>4
<1>5. ASSUME \/ wait_log \/ JoinsBoots \/ wait_guest_marker \/ Prepares
             \/ launch_mpi \/ wait_mpi_exit \/ dump_observations_safely
             \/ DrainsPool \/ Diagnoses \/ Excepts \/ Interrupted
             \/ WritesResult \/ Gates \/ ReadsStats \/ Rechecks
      PROVE  TeardownInv'
  BY <1>0, <1>3, <1>5, ActionsThatGo, Zenon
<1>6. CASE PowersOff
  <2>1. /\ pc = "off"
        /\ \/ Goto("finish", role) /\ UNCHANGED outsideVars
           \/ Raise("send")
           \/ /\ asked' = asked \cup {<<role, at>>} /\ at' = at + 1
              /\ UNCHANGED <<pc, role, proc, stuck>>
    BY <1>6 DEF PowersOff
  <2>2. CASE Goto("finish", role) /\ UNCHANGED outsideVars
    <3>1. Goes
      BY <1>0, <2>1, <2>2 DEF Goto, Goes, outsideVars
    <3> QED BY <1>3, <3>1
  <2>3. CASE /\ asked' = asked \cup {<<role, at>>} /\ at' = at + 1
             /\ UNCHANGED <<pc, role, proc, stuck>>
    <3>1. ServersDown' = ServersDown /\ GuestsDown' = GuestsDown
      BY <2>3 DEF ServersDown, GuestsDown, Down
    <3>2. <<role, at>>[1] = role /\ <<role, at>> # Provider
      BY <1>0 DEF Provider
    <3> QED BY <2>1, <2>3, <3>1, <3>2 DEF TeardownInv, SettingUp
  <2>4. CASE Raise("send")
    BY <1>0, <1>3, <2>4, ActionsThatGo
  <2> QED BY <2>1, <2>2, <2>3, <2>4
<1>7. ASSUME NEW p, proc' = Stopped(p)
      PROVE  /\ \A q \in Processes : proc'[q] = "running" => proc[q] = "running"
             /\ DOMAIN proc' = Processes
             /\ p \in Processes => proc'[p] # "running" \/ p \in stuck
  BY <1>0, <1>7 DEF Stopped
<1>8. CASE \E g \in Guests : FinishesGuest(g)
  <2>1. PICK g \in Guests : FinishesGuest(g)
    BY <1>8
  <2>2. proc' = Stopped(g) /\ UNCHANGED <<pc, role, at, asked, stuck>>
    BY <2>1 DEF FinishesGuest, runnerVars
  <2> QED BY <1>7, <2>2, OutsideSteps
<1>9. CASE FinishesGroup
  <2>1. \A g \in Group(role) : Down(g)
    BY <1>9 DEF FinishesGroup, Down
  <2>2. /\ pc = "finish" /\ UNCHANGED <<proc, asked, stuck>> /\ at' = 1
        /\ role = "server" => pc' = "off" /\ role' = "client"
        /\ role # "server" => pc' = "retire" /\ role' = role
    BY <1>9 DEF FinishesGroup, Goto, outsideVars
  <2>3. ASSUME role = "server" PROVE Goes
    BY <2>1, <2>2, <2>3 DEF Goes, ServersDown
  <2>4. ASSUME role = "client" PROVE Goes
    <3>1. ServersDown
      BY <2>2, <2>4 DEF TeardownInv
    <3>2. GuestsDown
      BY <2>1, <2>4, <3>1 DEF ServersDown, GuestsDown, Guests
    <3> QED BY <1>0, <2>2, <2>4, <3>2 DEF Goes
  <2> QED BY <1>0, <1>3, <2>3, <2>4
<1>10. CASE RetiresProvider
  <2>0. /\ pc = "retire" /\ role' = role /\ UNCHANGED stuck
        /\ \/ asked' = asked \cup {Provider} /\ UNCHANGED <<pc, at, proc>>
           \/ proc' = Stopped(Provider) /\ pc' = "stats" /\ at' = 1 /\ UNCHANGED asked
    BY <1>10 DEF RetiresProvider
  <2>1. CASE asked' = asked \cup {Provider} /\ UNCHANGED <<pc, at, proc>>
    <3>1. ServersDown' = ServersDown /\ GuestsDown' = GuestsDown
      BY <2>0, <2>1 DEF ServersDown, GuestsDown, Down
    <3>2. Provider[1] # "client"
      BY DEF Provider
    <3> QED BY <2>0, <2>1, <3>1, <3>2 DEF TeardownInv, SettingUp
  <2>2. CASE proc' = Stopped(Provider) /\ pc' = "stats" /\ at' = 1 /\ UNCHANGED asked
    <3>1. (ServersDown => ServersDown') /\ (GuestsDown => GuestsDown')
      BY <1>7, <2>0, <2>2, StaysDown
    <3>2. DOMAIN proc' = Processes
      BY <1>7, <2>2
    <3> QED BY <2>0, <2>2, <3>1, <3>2 DEF TeardownInv, SettingUp
  <2> QED BY <2>0, <2>1, <2>2
<1>11. CASE StopsProcess
  <2>1. /\ pc = "finally" /\ pc' = "finally" /\ role' = role /\ at' = at + 1
        /\ at \in 1 .. Len(dependency_order)
        /\ proc' = Stopped(dependency_order[at]) /\ UNCHANGED <<asked, stuck>>
    BY <1>0, <1>11, DependencyOrder DEF StopsProcess
  <2>2. /\ DOMAIN proc' = Processes
        /\ \A q \in Processes : proc'[q] = "running" => proc[q] = "running"
        /\ proc'[dependency_order[at]] # "running" \/ dependency_order[at] \in stuck'
    <3>1. dependency_order[at] \in Processes
      BY <2>1, ListedProcesses
    <3>2. proc' = Stopped(dependency_order[at]) /\ UNCHANGED stuck
      BY <2>1
    <3> QED BY <1>7, <3>1, <3>2, Zenon
  <2>3. /\ \A p \in Processes : Down(p) => Down(p)'
        /\ (ServersDown => ServersDown') /\ (GuestsDown => GuestsDown')
    BY <2>1, <2>2, StaysDown
  <2>4. \A i \in 1 .. Len(dependency_order) : i < at => Down(dependency_order[i])
    BY <2>1 DEF TeardownInv
  <2>5. ASSUME NEW i \in 1 .. Len(dependency_order), i < at + 1
        PROVE  Down(dependency_order[i])'
    <3>1. CASE i = at
      BY <2>2, <3>1, Zenon DEF Down
    <3>2. CASE i < at
      <4>1. dependency_order[i] \in Processes /\ Down(dependency_order[i])
        BY <2>4, <3>2, ListedProcesses
      <4>2. \A p \in Processes : Down(p) => proc'[p] # "running" \/ p \in stuck'
        BY <2>3 DEF Down
      <4> QED BY <4>1, <4>2, Zenon DEF Down
    <3> QED BY <1>0, <2>5, <3>1, <3>2, DependencyOrder
  <2> QED BY <2>1, <2>2, <2>3, <2>5 DEF TeardownInv, SettingUp
<1> QED BY <1>1, <1>2, <1>4, <1>5, <1>6, <1>8, <1>9, <1>10, <1>11, Zenon
        DEF Next, Runner, Done

(* The faults are counted.                                                  *)
LEMMA FaultsStep ==
    ASSUME faults \in Nat, [Next]_vars
    PROVE  faults' \in Nat
<1>1. ASSUME UNCHANGED vars PROVE UNCHANGED faults
  BY <1>1 DEF vars, outsideVars
<1>2. CASE Outside \/ Threads
  BY <1>2, OutsideMoves
<1>3. CASE Interrupted
  BY <1>3 DEF Interrupted
<1>4. ASSUME Runner PROVE UNCHANGED faults
  <2> USE DEF outsideVars
  <2>1. ASSUME NEW what, Raise(what) PROVE UNCHANGED faults
    BY <2>1 DEF Raise
  <2>2. ASSUME StartsProvider \/ wait_log \/ StartsGuest PROVE UNCHANGED faults
    BY <2>1, <2>2 DEF StartsProvider, wait_log, StartsGuest
  <2>3. ASSUME DrainsPool \/ JoinsBoots PROVE UNCHANGED faults
    BY <2>1, <2>3 DEF DrainsPool, JoinsBoots
  <2>4. ASSUME Prepares \/ launch_mpi PROVE UNCHANGED faults
    BY <2>1, <2>4 DEF Prepares, launch_mpi
  <2>5. ASSUME wait_guest_marker PROVE UNCHANGED faults
    BY <2>1, <2>5 DEF wait_guest_marker
  <2>6. ASSUME wait_mpi_exit PROVE UNCHANGED faults
    BY <2>1, <2>6 DEF wait_mpi_exit
  <2>7. ASSUME dump_observations_safely \/ Diagnoses \/ Gates PROVE UNCHANGED faults
    BY <2>1, <2>7 DEF dump_observations_safely, Diagnoses, Gates
  <2>8. ASSUME PowersOff \/ (\E g \in Guests : FinishesGuest(g)) \/ FinishesGroup
        PROVE  UNCHANGED faults
    BY <2>1, <2>8 DEF PowersOff, FinishesGuest, FinishesGroup
  <2>9. ASSUME RetiresProvider \/ ReadsStats \/ Rechecks PROVE UNCHANGED faults
    BY <2>1, <2>9 DEF RetiresProvider, ReadsStats, Rechecks
  <2>10. ASSUME Excepts \/ StopsProcess \/ WritesResult PROVE UNCHANGED faults
    BY <2>10 DEF Excepts, StopsProcess, WritesResult
  <2> QED BY <1>4, <2>2, <2>3, <2>4, <2>5, <2>6, <2>7, <2>8, <2>9, <2>10, Zenon DEF Runner
<1> QED BY <1>1, <1>2, <1>3, <1>4 DEF Next, Done

(* A process that ends, and not by accident, was asked to or is stopped;    *)
(* the invariant says of each who must have ended before.                   *)
LEMMA EndsAfter ==
    ASSUME Counts, TeardownInv, faults \in Nat, [Next]_vars
    PROVE  EndsInOrder
<1> SUFFICES ASSUME NEW p \in Processes, Ends(p)
             PROVE  /\ p[1] = "client" => ServersDown
                    /\ p = Provider => GuestsDown
  <2>1. \A q \in Processes : q[1] = "server" => q \in Group("server")
    BY DEF Processes, Guests, Group, Provider
  <2> QED BY <2>1 DEF EndsInOrder, ServersDown, GuestsDown, Down
<1> USE DEF runnerVars, outsideVars
<1>1. \/ p \in asked
      \/ pc = "finish" /\ p \in Group(role)
      \/ pc = "retire" /\ p = Provider
      \/ /\ pc = "finally" /\ at <= Len(dependency_order)
         /\ p = dependency_order[at]
  <2>1. proc[p] = "running" /\ proc'[p] = "exited" /\ UNCHANGED faults /\ proc' # proc
    BY DEF Ends
  <2>2. ~UNCHANGED vars
    BY <2>1 DEF vars
  <2>3. ~\E what : Raise(what)
    BY <2>1 DEF Raise
  <2>4. ~\E q : proc' = [proc EXCEPT ![q] = "running"]
    BY <2>1 DEF TeardownInv
  <2>5. \A q : proc' = [proc EXCEPT ![q] = "exited"] => q = p
    BY <2>1 DEF TeardownInv
  <2>6. \A q : proc' = Stopped(q) => q = p
    BY <2>1, <2>5, Zenon DEF Stopped
  <2>7. ASSUME Outside PROVE p \in asked
    <3>0. ~\E g, line : Prints(g, line)
      BY <2>1 DEF Prints
    <3>1. ~\E g \in Guests : _read_output(g) \/ GuestReady(g)
      BY <2>1, <3>0 DEF _read_output, GuestReady
    <3>2. ~\E g \in Guests, line \in {"fatal", "fault"} : GuestFails(g, line)
      BY <3>0, Zenon DEF GuestFails
    <3>3. ~\E line \in {"rc0", "rc1"} : StageEnds(line)
      BY <3>0, Zenon DEF StageEnds
    <3>4. ~\E q \in Processes : Crashes(q) \/ Sticks(q)
      BY <2>1 DEF Crashes, Sticks
    <3>5. (\E g \in Guests : GuestPowersOff(g)) \/ ProviderEnds
      BY <2>7, <3>1, <3>2, <3>3, <3>4, Zenon DEF Outside
    <3>6. \A q : q \in asked /\ proc' = [proc EXCEPT ![q] = "exited"] => p \in asked
      BY <2>5, Zenon
    <3> QED BY <3>5, <3>6, Zenon DEF GuestPowersOff, ProviderEnds
  <2>8. ~(Threads \/ Done)
    BY <2>1, <2>2 DEF Threads, boot_guest, Done
  <2>9. ~(StartsProvider \/ StartsGuest)
    BY <2>1, <2>3, <2>4 DEF StartsProvider, StartsGuest
  <2>10. ~Goes
    BY <2>1 DEF Goes
  <2>11. /\ ~(wait_log \/ JoinsBoots \/ wait_guest_marker \/ Prepares)
         /\ ~(launch_mpi \/ wait_mpi_exit \/ dump_observations_safely)
         /\ ~(DrainsPool \/ Diagnoses \/ Excepts \/ Interrupted)
         /\ ~(WritesResult \/ Gates \/ ReadsStats \/ Rechecks)
    <3>1. role \in {"server", "client"} /\ at \in Nat \ {0}
      BY DEF TeardownInv
    <3> QED BY <2>10, <3>1, ActionsThatGo, Zenon
  <2>12. ~(PowersOff \/ FinishesGroup)
    BY <2>1, <2>3 DEF PowersOff, FinishesGroup
  <2>13. CASE (\E g \in Guests : FinishesGuest(g)) \/ RetiresProvider \/ StopsProcess
    BY <2>1, <2>6, <2>13 DEF FinishesGuest, RetiresProvider, StopsProcess
  <2> QED BY <2>2, <2>7, <2>8, <2>9, <2>11, <2>12, <2>13, Zenon DEF Next, Runner
<1>2. CASE p \in asked
  BY <1>2 DEF TeardownInv
<1>3. CASE pc = "finish" /\ p \in Group(role)
  BY <1>3 DEF TeardownInv, Group, Provider
<1>4. CASE pc = "retire" /\ p = Provider
  BY <1>4 DEF TeardownInv, Provider
<1>5. CASE pc = "finally" /\ at <= Len(dependency_order) /\ p = dependency_order[at]
  <2>1. at \in 1 .. Len(dependency_order)
    BY <1>5, DependencyOrder DEF TeardownInv
  <2> QED BY <1>5, <2>1, StoppedBefore DEF TeardownInv
<1> QED BY <1>1, <1>2, <1>3, <1>4, <1>5
-----------------------------------------------------------------------------
(* The result names the first failure of the run, or the interrupt that     *)
(* took its place, whatever fails while it is diagnosed and cleaned up.     *)
THEOREM FirstFailureAlways == Init /\ [][Next]_vars => []FirstFailureKept
<1>1. Init => FailureInv
  BY DEF Init, FailureInv
<1>2. FailureInv => FirstFailureKept
  BY DEF FailureInv, FirstFailureKept
<1> QED BY <1>1, <1>2, FailureStep, PTL

(* On the orderly and on the failing path: unless a process ends by         *)
(* accident, a client ends only when every server has ended or cannot be    *)
(* stopped, and the memory provider only when the same holds of every guest.*)
THEOREM EndsInOrderAlways == Counts /\ Init /\ [][Next]_vars => [][EndsInOrder]_vars
<1> DEFINE I == TeardownInv /\ faults \in Nat
<1>1. Init => I
  BY DEF Init, TeardownInv
<1>2. Counts /\ I /\ [Next]_vars => I' /\ EndsInOrder
  BY TeardownStep, FaultsStep, EndsAfter
<1>3. Counts => Counts'
  BY DEF Counts
<1> QED BY <1>1, <1>2, <1>3, PTL

-----------------------------------------------------------------------------
(* The audit.  A write is committed on a path that its owner allows; it is  *)
(* closed by a receipt, or by a job that acquires and then persists.        *)
CONSTANTS Items, Owners, MaxReceipts
VARIABLES owner, item, durable, sent, counts
Payload == INSTANCE PayloadPersistence

ItemStates ==
    {"none", "writer", "provider", "skipped", "byWriter", "byAuthority", "acquired", "persisted",
     "closedWriter", "closedUnreceipted", "closedAuthority"}
Counters ==
    [acquireJobs : Nat, acquireRanges : Nat, persistJobs : Nat, persistRanges : Nat,
     barriers : Nat, duplicate : Nat, rejected : Nat, faults : Nat]
ByWriter == {"byWriter", "closedWriter", "closedUnreceipted"}
Acquired == {"acquired", "persisted", "closedAuthority"}
Persisted == {"persisted", "closedAuthority"}
ByAuthority == {"byAuthority", "acquired", "persisted", "closedAuthority"}

AuditType ==
    item \in [Items -> ItemStates] /\ counts \in Counters /\ sent \subseteq durable

(* Each path is of the owners that have it.                                 *)
PathOfOwner ==
    /\ \A i \in Items :
        /\ item[i] \in {"writer", "provider"} => owner = "WRITER_BEFORE_VISIBILITY"
        /\ item[i] \in ByWriter => owner \in {"WRITER_RECEIPT", "PLACEMENT_ROUTED"}
        /\ item[i] \in ByAuthority => owner \in {"AUTHORITY_BI_ACQUIRE", "PLACEMENT_ROUTED"}
    /\ counts.acquireJobs > 0 => owner \in {"AUTHORITY_BI_ACQUIRE", "PLACEMENT_ROUTED"}
    /\ counts.duplicate > 0 => owner \in {"WRITER_RECEIPT", "PLACEMENT_ROUTED"}

(* A job whose persist step was left out is missing among the persist jobs. *)
LeftOut == \E i \in Items : item[i] \in Persisted /\ i \notin durable
UnderWay == \E i \in Items : item[i] = "acquired"
JobsAreCounted ==
    /\ \A i \in Items : item[i] \in {"writer", "provider", "closedWriter"} => i \in durable
    /\ counts.persistJobs <= counts.acquireJobs
    /\ UnderWay \/ LeftOut => counts.persistJobs < counts.acquireJobs
    /\ UnderWay /\ LeftOut => counts.persistJobs + 1 < counts.acquireJobs

(* The ranges are the items; a server that leaves nothing out counts all.   *)
RangesAreCounted ==
    /\ counts.acquireRanges = Payload!Count(Acquired)
    /\ counts.acquireJobs > 0 <=> counts.acquireRanges > 0
    /\ \A i \in Items : item[i] = "provider" => counts.barriers > 0
SoundServer ==
    counts.faults = 0 =>
        /\ counts.persistRanges = Payload!Count(Persisted)
        /\ counts.persistJobs > 0 => counts.barriers > 0
        /\ counts.acquireJobs = counts.persistJobs + (IF UnderWay THEN 1 ELSE 0)
        /\ \A i \in Items : item[i] \notin {"closedUnreceipted", "skipped"}

AuditInv == AuditType /\ PathOfOwner /\ JobsAreCounted /\ RangesAreCounted /\ SoundServer

(* What a finite set of writes has: sizes are numbers, only nothing has none  *)
(* of it, and those of sets apart add up.                                   *)
SizesOfItems ==
    \A S \in SUBSET Items :
        /\ Cardinality(S) \in Nat
        /\ Cardinality(S) = 0 <=> S = {}
        /\ \A T \in SUBSET Items : S \cap T = {} =>
              Cardinality(S \cup T) = Cardinality(S) + Cardinality(T)

(* The two definitions of the size of a set are one.                        *)
LEMMA SizeOf == \A S : Payload!Cardinality(S) = Cardinality(S)
  BY Zenon DEF Payload!Cardinality, Cardinality

(* A count is a number, and zero when no item is in one of the states.      *)
LEMMA Counted ==
    ASSUME SizesOfItems, NEW Q
    PROVE  /\ Payload!Count(Q) \in Nat
           /\ Payload!Count(Q) = 0 <=> \A i \in Items : item[i] \notin Q
<1>1. Payload!Count(Q) = Cardinality(Payload!Are(Q))
  BY SizeOf, Zenon DEF Payload!Count
<1>2. Payload!Are(Q) \subseteq Items /\ (Payload!Are(Q) = {} <=> \A i \in Items : item[i] \notin Q)
  BY DEF Payload!Are
<1> QED BY <1>1, <1>2 DEF SizesOfItems

(* Counts of states apart add up.                                           *)
LEMMA CountsAdd ==
    ASSUME SizesOfItems, NEW P, NEW Q, P \cap Q = {}
    PROVE  Payload!Count(P \cup Q) = Payload!Count(P) + Payload!Count(Q)
<1> DEFINE p == Payload!Are(P)
           q == Payload!Are(Q)
           pq == Payload!Are(P \cup Q)
<1>1. /\ Payload!Count(P) = Cardinality(p) /\ Payload!Count(Q) = Cardinality(q)
      /\ Payload!Count(P \cup Q) = Cardinality(pq)
  BY SizeOf, Zenon DEF Payload!Count
<1>2. p \subseteq Items /\ q \subseteq Items /\ pq = p \cup q /\ p \cap q = {}
  BY DEF Payload!Are
<1> HIDE DEF p, q, pq
<1>3. Cardinality(p \cup q) = Cardinality(p) + Cardinality(q)
  BY <1>2 DEF SizesOfItems
<1> QED BY <1>1, <1>2, <1>3

(* Items that move stay among those counted, or come to be among them.      *)
Keep(S, to, Q) == \A i \in S : item[i] \in Q <=> to \in Q
Enter(S, to, Q) == to \in Q /\ \A i \in S : item[i] \notin Q

(* What moves: which items, where to, and what is counted.                  *)
LEMMA CountMoves ==
    ASSUME SizesOfItems, NEW S \in SUBSET Items, NEW to, NEW Q, Payload!Moved(S, to)
    PROVE  /\ Keep(S, to, Q) => Payload!Count(Q)' = Payload!Count(Q)
           /\ Enter(S, to, Q) => Payload!Count(Q)' = Payload!Count(Q) + Cardinality(S)
<1>1. \A i \in Items : item'[i] = IF i \in S THEN to ELSE item[i]
  BY DEF Payload!Moved
<1> DEFINE old == Payload!Are(Q)
           new == { i \in Items : item'[i] \in Q }
<1>2. Payload!Count(Q) = Cardinality(old) /\ Payload!Count(Q)' = Cardinality(new)
  BY SizeOf, Zenon DEF Payload!Count, Payload!Are
<1>3. \A i : i \in old <=> i \in Items /\ item[i] \in Q
  BY DEF Payload!Are
<1> HIDE DEF old
<1>4. old \in SUBSET Items
  BY <1>3
<1>5. ASSUME Keep(S, to, Q)
      PROVE  new = old
  BY <1>1, <1>3, <1>5 DEF Keep
<1>6. ASSUME Enter(S, to, Q)
      PROVE  Cardinality(new) = Cardinality(old) + Cardinality(S)
  <2>1. new = old \cup S /\ old \cap S = {}
    BY <1>1, <1>3, <1>6 DEF Enter
  <2> HIDE DEF new
  <2>2. Cardinality(old \cup S) = Cardinality(old) + Cardinality(S)
    BY <1>4, <2>1 DEF SizesOfItems
  <2> QED BY <2>1, <2>2
<1> HIDE DEF new
<1> QED BY <1>2, <1>5, <1>6

(* One item moves: what is counted of it.                                   *)
LEMMA OneMoves ==
    ASSUME SizesOfItems, AuditType, NEW i \in Items, NEW to \in ItemStates,
           Payload!Moved({i}, to)
    PROVE  /\ item' \in [Items -> ItemStates] /\ item'[i] = to
           /\ \A j \in Items \ {i} : item'[j] = item[j]
           /\ \A Q : (item[i] \in Q <=> to \in Q) => Payload!Count(Q)' = Payload!Count(Q)
<1>1. item' \in [Items -> ItemStates] /\ item'[i] = to /\ \A j \in Items \ {i} : item'[j] = item[j]
  BY DEF AuditType, Payload!Moved
<1>2. ASSUME NEW Q, item[i] \in Q <=> to \in Q
      PROVE  Payload!Count(Q)' = Payload!Count(Q)
  <2>1. {i} \in SUBSET Items /\ Keep({i}, to, Q)
    BY <1>2 DEF Keep
  <2> QED BY <2>1, CountMoves, Zenon
<1> QED BY <1>1, <1>2

(* A step outside a job of the authority changes neither what the jobs count  *)
(* nor what they left out.                                                  *)
OutsideJobs ==
    /\ counts'.acquireJobs = counts.acquireJobs /\ counts'.acquireRanges = counts.acquireRanges
    /\ counts'.persistJobs = counts.persistJobs /\ counts'.persistRanges = counts.persistRanges
    /\ counts'.barriers >= counts.barriers
    /\ Payload!Count(Acquired)' = Payload!Count(Acquired)
    /\ Payload!Count(Persisted)' = Payload!Count(Persisted)
    /\ UnderWay' <=> UnderWay
    /\ LeftOut' => LeftOut

(* Such a step keeps the counters right, if it does right by its own item.  *)
LEMMA JobsUntouched ==
    ASSUME AuditType, counts' \in Counters, JobsAreCounted, RangesAreCounted, SoundServer, OutsideJobs,
           \A j \in Items : item'[j] \in {"writer", "provider", "closedWriter"} => j \in durable',
           \A j \in Items : item'[j] = "provider" => counts'.barriers > 0,
           counts'.faults = 0 =>
               counts.faults = 0 /\ \A j \in Items : item'[j] \notin {"closedUnreceipted", "skipped"}
    PROVE  JobsAreCounted' /\ RangesAreCounted' /\ SoundServer'
<1>1. JobsAreCounted'
  BY DEF JobsAreCounted, OutsideJobs
<1>2. RangesAreCounted'
  BY DEF RangesAreCounted, OutsideJobs
<1>3. counts.barriers \in Nat /\ counts'.barriers \in Nat
  BY DEF AuditType, Counters
<1>4. SoundServer'
  BY <1>3 DEF SoundServer, OutsideJobs
<1> QED BY <1>1, <1>2, <1>4

(* A write is committed: persistent before it is visible, deferred, or with *)
(* neither.                                                                 *)
LEMMA CommitStep ==
    ASSUME SizesOfItems, AuditInv, NEW i \in Items,
           Payload!CommitPersisted(i) \/ Payload!CommitDeferred(i) \/ Payload!CommitUnpersisted(i)
    PROVE  AuditInv'
<1>1. PICK to \in {"writer", "provider", "byWriter", "byAuthority", "skipped"} :
        /\ Payload!Moved({i}, to) /\ item[i] = "none" /\ owner' = owner /\ sent' = sent
        /\ to \in {"writer", "provider"} =>
               owner = "WRITER_BEFORE_VISIBILITY" /\ durable' = durable \cup {i}
        /\ to = "byWriter" => owner \in {"WRITER_RECEIPT", "PLACEMENT_ROUTED"} /\ durable' = durable
        /\ to = "byAuthority" =>
               owner \in {"AUTHORITY_BI_ACQUIRE", "PLACEMENT_ROUTED"} /\ durable' = durable
        /\ to = "skipped" => durable' = durable
        /\ counts' = IF to = "provider" THEN [counts EXCEPT !.barriers = @ + 1]
                     ELSE IF to = "skipped" THEN [counts EXCEPT !.faults = @ + 1] ELSE counts
  BY DEF Payload!CommitPersisted, Payload!CommitDeferred, Payload!CommitUnpersisted, Payload!Faults
<1>2. /\ item' \in [Items -> ItemStates] /\ item'[i] = to
      /\ \A j \in Items \ {i} : item'[j] = item[j]
      /\ Payload!Count(Acquired)' = Payload!Count(Acquired)
      /\ Payload!Count(Persisted)' = Payload!Count(Persisted)
  BY <1>1, OneMoves, Zenon DEF AuditInv, ItemStates, Acquired, Persisted
<1>3. /\ counts' \in Counters
      /\ counts'.acquireJobs = counts.acquireJobs /\ counts'.acquireRanges = counts.acquireRanges
      /\ counts'.persistJobs = counts.persistJobs /\ counts'.persistRanges = counts.persistRanges
      /\ counts'.faults = 0 => counts.faults = 0 /\ to # "skipped"
      /\ counts'.duplicate = counts.duplicate
      /\ counts'.barriers >= counts.barriers /\ (to = "provider" => counts'.barriers > 0)
  BY <1>1 DEF AuditInv, AuditType, Counters
<1>4. AuditType'
  BY <1>1, <1>2, <1>3 DEF AuditInv, AuditType
<1>5. PathOfOwner'
  BY <1>1, <1>2, <1>3 DEF AuditInv, PathOfOwner, ByWriter, ByAuthority
<1>6. OutsideJobs
  <2>1. (UnderWay' <=> UnderWay) /\ (LeftOut' => LeftOut)
    BY <1>1, <1>2 DEF UnderWay, LeftOut, Persisted
  <2> QED BY <1>2, <1>3, <2>1, Zenon DEF OutsideJobs
<1>7. \A j \in Items : item'[j] \in {"writer", "provider", "closedWriter"} => j \in durable'
  BY <1>1, <1>2 DEF AuditInv, JobsAreCounted
<1>8. \A j \in Items : item'[j] = "provider" => counts'.barriers > 0
  <2>1. counts.barriers \in Nat /\ counts'.barriers \in Nat
    BY <1>3 DEF AuditInv, AuditType, Counters
  <2> QED BY <1>1, <1>2, <1>3, <2>1 DEF AuditInv, RangesAreCounted
<1>9. counts'.faults = 0 => counts.faults = 0 /\ \A j \in Items : item'[j] \notin {"closedUnreceipted", "skipped"}
  BY <1>1, <1>2, <1>3 DEF AuditInv, SoundServer
<1> QED BY <1>3, <1>4, <1>5, <1>6, <1>7, <1>8, <1>9, JobsUntouched, Zenon DEF AuditInv

(* A receipt sets out, is lost, or arrives: in time, rejected, or again.    *)
LEMMA ReceiptStep ==
    ASSUME SizesOfItems, AuditInv, NEW i \in Items,
           Payload!WriterPersists(i) \/ Payload!ReceiptLost(i) \/ Payload!ReceiptArrives(i)
    PROVE  AuditInv'
<1>1. /\ owner' = owner /\ sent' \subseteq durable' /\ durable \subseteq durable'
      /\ \/ item' = item
         \/ item[i] = "byWriter" /\ i \in durable /\ Payload!Moved({i}, "closedWriter")
  BY DEF Payload!WriterPersists, Payload!ReceiptLost, Payload!ReceiptArrives, AuditInv, AuditType
<1>2. /\ counts' \in Counters
      /\ counts'.acquireJobs = counts.acquireJobs /\ counts'.acquireRanges = counts.acquireRanges
      /\ counts'.persistJobs = counts.persistJobs /\ counts'.persistRanges = counts.persistRanges
      /\ counts'.faults = counts.faults /\ counts'.barriers = counts.barriers
      /\ counts'.duplicate > 0 => counts.duplicate > 0 \/ item[i] \in ByWriter
  BY DEF Payload!WriterPersists, Payload!ReceiptLost, Payload!ReceiptArrives, AuditInv, AuditType,
         Counters, ByWriter
<1>3. /\ item' \in [Items -> ItemStates]
      /\ \A j \in Items : \/ item'[j] = item[j]
                          \/ item[j] = "byWriter" /\ item'[j] = "closedWriter" /\ j \in durable
      /\ Payload!Count(Acquired)' = Payload!Count(Acquired)
      /\ Payload!Count(Persisted)' = Payload!Count(Persisted)
  <2>1. CASE item' = item
    BY <2>1 DEF AuditInv, AuditType, Payload!Count, Payload!Are
  <2>2. CASE item[i] = "byWriter" /\ i \in durable /\ Payload!Moved({i}, "closedWriter")
    <3>1. AuditType /\ "closedWriter" \in ItemStates
      BY DEF AuditInv, ItemStates
    <3>2. /\ item[i] \in Acquired <=> "closedWriter" \in Acquired
          /\ item[i] \in Persisted <=> "closedWriter" \in Persisted
      BY <2>2 DEF Acquired, Persisted
    <3> QED BY <2>2, <3>1, <3>2, OneMoves, Zenon
  <2> QED BY <1>1, <2>1, <2>2
<1>4. AuditType'
  BY <1>1, <1>2, <1>3 DEF AuditType
<1>5. PathOfOwner'
  <2>1. \A j \in Items : item'[j] # item[j] => {item[j], item'[j]} \subseteq ByWriter
    BY <1>3 DEF ByWriter
  <2>2. PathOfOwner /\ \A j \in Items : item'[j] \in ByWriter => item'[j] \notin ByAuthority \cup {"writer", "provider"}
    BY DEF AuditInv, ByWriter, ByAuthority
  <2> QED BY <1>1, <1>2, <2>1, <2>2 DEF PathOfOwner
<1>6. OutsideJobs
  <2>1. UnderWay' <=> UnderWay
    BY <1>3 DEF UnderWay
  <2>2. LeftOut' => LeftOut
    BY <1>1, <1>3 DEF LeftOut, Persisted
  <2>3. counts'.barriers >= counts.barriers
    BY <1>2 DEF AuditInv, AuditType, Counters
  <2> QED BY <1>2, <1>3, <2>1, <2>2, <2>3, Zenon DEF OutsideJobs
<1>7. \A j \in Items : item'[j] \in {"writer", "provider", "closedWriter"} => j \in durable'
  BY <1>1, <1>3 DEF AuditInv, JobsAreCounted
<1>8. \A j \in Items : item'[j] = "provider" => counts'.barriers > 0
  BY <1>2, <1>3 DEF AuditInv, RangesAreCounted
<1>9. counts'.faults = 0 => counts.faults = 0 /\ \A j \in Items : item'[j] \notin {"closedUnreceipted", "skipped"}
  BY <1>2, <1>3 DEF AuditInv, SoundServer
<1> QED BY <1>2, <1>4, <1>5, <1>6, <1>7, <1>8, <1>9, JobsUntouched, Zenon DEF AuditInv

(* A dependency is closed, by the job's end or without a receipt.           *)
LEMMA CloseStep ==
    ASSUME SizesOfItems, AuditInv, NEW i \in Items,
           Payload!AuthorityCloses(i) \/ Payload!ClosedWithoutReceipt(i)
    PROVE  AuditInv'
<1>1. PICK to \in {"closedAuthority", "closedUnreceipted"} :
        /\ Payload!Moved({i}, to) /\ owner' = owner /\ sent' = sent /\ durable' = durable
        /\ to = "closedAuthority" => item[i] = "persisted" /\ counts' = counts
        /\ to = "closedUnreceipted" =>
               item[i] = "byWriter" /\ counts' = [counts EXCEPT !.faults = @ + 1]
  BY DEF Payload!AuthorityCloses, Payload!ClosedWithoutReceipt, Payload!Faults
<1>2. /\ AuditType /\ to \in ItemStates
      /\ item[i] \in Acquired <=> to \in Acquired
      /\ item[i] \in Persisted <=> to \in Persisted
  BY <1>1 DEF AuditInv, ItemStates, Acquired, Persisted
<1>3. /\ item' \in [Items -> ItemStates] /\ item'[i] = to
      /\ \A j \in Items \ {i} : item'[j] = item[j]
      /\ Payload!Count(Acquired)' = Payload!Count(Acquired)
      /\ Payload!Count(Persisted)' = Payload!Count(Persisted)
  BY <1>1, <1>2, OneMoves, Zenon
<1>4. /\ counts' \in Counters
      /\ counts'.acquireJobs = counts.acquireJobs /\ counts'.acquireRanges = counts.acquireRanges
      /\ counts'.persistJobs = counts.persistJobs /\ counts'.persistRanges = counts.persistRanges
      /\ counts'.duplicate = counts.duplicate /\ counts'.barriers = counts.barriers
      /\ counts'.faults = 0 => counts.faults = 0 /\ to = "closedAuthority"
  BY <1>1 DEF AuditInv, AuditType, Counters
<1>5. AuditType'
  BY <1>1, <1>2, <1>3, <1>4 DEF AuditType
<1>6. PathOfOwner'
  BY <1>1, <1>3, <1>4 DEF AuditInv, PathOfOwner, ByWriter, ByAuthority
<1>7. OutsideJobs
  <2>1. (UnderWay' <=> UnderWay) /\ (LeftOut' => LeftOut)
    BY <1>1, <1>3 DEF UnderWay, LeftOut, Persisted
  <2>2. counts'.barriers >= counts.barriers
    BY <1>4 DEF AuditInv, AuditType, Counters
  <2> QED BY <1>3, <1>4, <2>1, <2>2, Zenon DEF OutsideJobs
<1>8. \A j \in Items : item'[j] \in {"writer", "provider", "closedWriter"} => j \in durable'
  BY <1>1, <1>3 DEF AuditInv, JobsAreCounted
<1>9. \A j \in Items : item'[j] = "provider" => counts'.barriers > 0
  BY <1>1, <1>3, <1>4 DEF AuditInv, RangesAreCounted
<1>10. counts'.faults = 0 => counts.faults = 0 /\ \A j \in Items : item'[j] \notin {"closedUnreceipted", "skipped"}
  BY <1>1, <1>3, <1>4 DEF AuditInv, SoundServer
<1> QED BY <1>4, <1>5, <1>6, <1>7, <1>8, <1>9, <1>10, JobsUntouched, Zenon DEF AuditInv

(* The items that are acquired move as one.                                 *)
LEMMA JobMoves ==
    ASSUME SizesOfItems, AuditType, NEW S \in SUBSET Items, NEW to \in ItemStates,
           Payload!Moved(S, to)
    PROVE  /\ Cardinality(S) \in Nat /\ (S # {} => Cardinality(S) > 0)
           /\ item' \in [Items -> ItemStates]
           /\ \A j \in Items : item'[j] = IF j \in S THEN to ELSE item[j]
<1>1. Cardinality(S) \in Nat /\ (S # {} => Cardinality(S) # 0)
  BY DEF SizesOfItems
<1> QED BY <1>1 DEF AuditType, Payload!Moved

(* The authority begins a job: the ranges it acquires are counted at once.  *)
LEMMA AcquireStep ==
    ASSUME SizesOfItems, AuditInv, Payload!AuthorityAcquires
    PROVE  AuditInv'
<1>1. PICK S \in SUBSET Items :
        /\ S # {} /\ Payload!Moved(S, "acquired") /\ \A i \in S : item[i] = "byAuthority"
        /\ counts' = [counts EXCEPT !.acquireJobs = @ + 1,
                                    !.acquireRanges = @ + Payload!Cardinality(S)]
  <2>1. PICK S \in (SUBSET Payload!Are({"byAuthority"})) \ {{}} :
          /\ Payload!Moved(S, "acquired")
          /\ counts' = [counts EXCEPT !.acquireJobs = @ + 1,
                                      !.acquireRanges = @ + Payload!Cardinality(S)]
    BY Zenon DEF Payload!AuthorityAcquires
  <2>2. S \in SUBSET Items /\ S # {} /\ \A i \in S : item[i] = "byAuthority"
    BY DEF Payload!Are
  <2> QED BY <2>1, <2>2, Zenon
<1>2. /\ \A i \in Items : item[i] # "acquired" /\ item[i] # "persisted"
      /\ owner' = owner /\ durable' = durable /\ sent' = sent
  BY DEF Payload!AuthorityAcquires, Payload!Are
<1>3. /\ Cardinality(S) \in Nat /\ Cardinality(S) > 0 /\ item' \in [Items -> ItemStates]
      /\ \A j \in Items : item'[j] = IF j \in S THEN "acquired" ELSE item[j]
  <2>1. AuditType /\ "acquired" \in ItemStates
    BY DEF AuditInv, ItemStates
  <2> QED BY <1>1, <2>1, JobMoves, Zenon
<1>4. /\ Payload!Count(Acquired)' = Payload!Count(Acquired) + Cardinality(S)
      /\ Payload!Count(Persisted)' = Payload!Count(Persisted)
  <2>1. Enter(S, "acquired", Acquired) /\ Keep(S, "acquired", Persisted)
    BY <1>1 DEF Acquired, Persisted, Enter, Keep
  <2> QED BY <1>1, <2>1, CountMoves, Zenon
<1>5. /\ counts' \in Counters /\ counts'.acquireJobs = counts.acquireJobs + 1
      /\ counts'.acquireRanges = counts.acquireRanges + Cardinality(S)
      /\ counts'.persistJobs = counts.persistJobs /\ counts'.persistRanges = counts.persistRanges
      /\ counts'.faults = counts.faults /\ counts'.barriers = counts.barriers
      /\ counts'.duplicate = counts.duplicate
  <2>1. PICK n \in Nat : n = Cardinality(S) /\ n = Payload!Cardinality(S)
    BY <1>3, SizeOf, Zenon
  <2>2. counts' = [counts EXCEPT !.acquireJobs = @ + 1, !.acquireRanges = @ + n]
    BY <1>1, <2>1, Zenon
  <2>3. counts \in Counters
    BY DEF AuditInv, AuditType
  <2>4. /\ counts' \in Counters /\ counts'.acquireJobs = counts.acquireJobs + 1
        /\ counts'.acquireRanges = counts.acquireRanges + n
        /\ counts'.persistJobs = counts.persistJobs /\ counts'.persistRanges = counts.persistRanges
        /\ counts'.faults = counts.faults /\ counts'.barriers = counts.barriers
        /\ counts'.duplicate = counts.duplicate
    <3> DEFINE jobs == counts.acquireJobs + 1
               ranges == counts.acquireRanges + n
    <3>1. /\ jobs \in Nat /\ ranges \in Nat
          /\ counts' = [counts EXCEPT !.acquireJobs = jobs, !.acquireRanges = ranges]
      BY <2>2, <2>3 DEF Counters
    <3> HIDE DEF jobs, ranges
    <3>2. /\ counts' \in Counters /\ counts'.acquireJobs = jobs /\ counts'.acquireRanges = ranges
          /\ counts'.persistJobs = counts.persistJobs /\ counts'.persistRanges = counts.persistRanges
          /\ counts'.faults = counts.faults /\ counts'.barriers = counts.barriers
          /\ counts'.duplicate = counts.duplicate
      BY <2>3, <3>1, Zenon DEF Counters
    <3> QED BY <3>2, Zenon DEF jobs, ranges
  <2> QED BY <2>1, <2>4, Zenon
<1>6. /\ counts.acquireJobs \in Nat /\ counts.acquireRanges \in Nat /\ counts.persistJobs \in Nat
      /\ counts.persistRanges \in Nat /\ counts.barriers \in Nat
  BY DEF AuditInv, AuditType, Counters
<1>7. ~UnderWay /\ UnderWay' /\ (LeftOut' => LeftOut)
  BY <1>1, <1>2, <1>3 DEF UnderWay, LeftOut, Persisted
<1>8. AuditType'
  BY <1>2, <1>3, <1>5 DEF AuditInv, AuditType
<1>9. PathOfOwner'
  BY <1>1, <1>2, <1>3, <1>5 DEF AuditInv, PathOfOwner, ByWriter, ByAuthority
<1>10. JobsAreCounted'
  BY <1>2, <1>3, <1>5, <1>6, <1>7 DEF AuditInv, JobsAreCounted
<1>11. RangesAreCounted'
  BY <1>3, <1>4, <1>5, <1>6 DEF AuditInv, RangesAreCounted
<1>12. SoundServer'
  BY <1>3, <1>4, <1>5, <1>6, <1>7 DEF AuditInv, SoundServer
<1> QED BY <1>8, <1>9, <1>10, <1>11, <1>12 DEF AuditInv

(* The job persists what it acquired, or leaves that out.                   *)
LEMMA PersistStep ==
    ASSUME SizesOfItems, AuditInv, Payload!AuthorityPersists \/ Payload!PersistLeftOut
    PROVE  AuditInv'
<1> DEFINE S == Payload!Are({"acquired"})
<1>1. /\ S \in SUBSET Items /\ S # {} /\ Payload!Moved(S, "persisted")
      /\ \A i \in Items : i \in S <=> item[i] = "acquired"
      /\ owner' = owner /\ sent' = sent
  BY DEF Payload!AuthorityPersists, Payload!PersistLeftOut, Payload!Are
<1>2. \/ /\ durable' = durable \cup S
         /\ counts' = [counts EXCEPT !.persistJobs = @ + 1, !.barriers = @ + 1,
                                     !.persistRanges = @ + Payload!Cardinality(S)]
      \/ durable' = durable /\ counts' = [counts EXCEPT !.faults = @ + 1]
  BY DEF Payload!AuthorityPersists, Payload!PersistLeftOut, Payload!Faults
<1> HIDE DEF S
<1>3. /\ Cardinality(S) \in Nat /\ item' \in [Items -> ItemStates]
      /\ \A j \in Items : item'[j] = IF j \in S THEN "persisted" ELSE item[j]
  <2>1. AuditType /\ "persisted" \in ItemStates
    BY DEF AuditInv, ItemStates
  <2> QED BY <1>1, <2>1, JobMoves, Zenon
<1>4. /\ Payload!Count(Acquired)' = Payload!Count(Acquired)
      /\ Payload!Count(Persisted)' = Payload!Count(Persisted) + Cardinality(S)
  <2>1. Keep(S, "persisted", Acquired) /\ Enter(S, "persisted", Persisted)
    BY <1>1 DEF Acquired, Persisted, Enter, Keep
  <2> QED BY <1>1, <2>1, CountMoves, Zenon
<1>5. /\ counts.acquireJobs \in Nat /\ counts.acquireRanges \in Nat /\ counts.persistJobs \in Nat
      /\ counts.persistRanges \in Nat /\ counts.barriers \in Nat /\ counts.faults \in Nat
  BY DEF AuditInv, AuditType, Counters
<1>6. /\ counts' \in Counters /\ counts'.acquireJobs = counts.acquireJobs
      /\ counts'.acquireRanges = counts.acquireRanges /\ counts'.duplicate = counts.duplicate
      /\ \/ /\ durable' = durable \cup S /\ counts'.persistJobs = counts.persistJobs + 1
            /\ counts'.persistRanges = counts.persistRanges + Cardinality(S)
            /\ counts'.barriers = counts.barriers + 1 /\ counts'.faults = counts.faults
         \/ /\ durable' = durable /\ counts'.persistJobs = counts.persistJobs
            /\ counts'.barriers = counts.barriers /\ counts'.faults = counts.faults + 1
  <2>1. PICK n \in Nat : n = Cardinality(S) /\ n = Payload!Cardinality(S)
    BY <1>3, SizeOf, Zenon
  <2>2. counts \in Counters
    BY DEF AuditInv, AuditType
  <2>3. CASE /\ durable' = durable \cup S
             /\ counts' = [counts EXCEPT !.persistJobs = @ + 1, !.barriers = @ + 1,
                                         !.persistRanges = @ + n]
    <3>1. /\ counts' \in Counters /\ counts'.acquireJobs = counts.acquireJobs
          /\ counts'.acquireRanges = counts.acquireRanges /\ counts'.duplicate = counts.duplicate
          /\ counts'.persistJobs = counts.persistJobs + 1
          /\ counts'.persistRanges = counts.persistRanges + n
          /\ counts'.barriers = counts.barriers + 1 /\ counts'.faults = counts.faults
      <4> DEFINE jobs == counts.persistJobs + 1
                 ranges == counts.persistRanges + n
                 barriers == counts.barriers + 1
      <4>1. /\ jobs \in Nat /\ ranges \in Nat /\ barriers \in Nat
            /\ counts' = [counts EXCEPT !.persistJobs = jobs, !.barriers = barriers,
                                        !.persistRanges = ranges]
        BY <2>2, <2>3 DEF Counters
      <4> HIDE DEF jobs, ranges, barriers
      <4>2. /\ counts' \in Counters /\ counts'.acquireJobs = counts.acquireJobs
            /\ counts'.acquireRanges = counts.acquireRanges /\ counts'.duplicate = counts.duplicate
            /\ counts'.persistJobs = jobs /\ counts'.persistRanges = ranges
            /\ counts'.barriers = barriers /\ counts'.faults = counts.faults
        BY <2>2, <4>1, Zenon DEF Counters
      <4> QED BY <4>2, Zenon DEF jobs, ranges, barriers
    <3> QED BY <2>1, <2>3, <3>1, Zenon
  <2>4. CASE durable' = durable /\ counts' = [counts EXCEPT !.faults = @ + 1]
    BY <2>2, <2>4 DEF Counters
  <2> QED BY <1>2, <2>1, <2>3, <2>4, Zenon
<1>7. /\ UnderWay /\ ~UnderWay'
      /\ LeftOut' => LeftOut \/ durable' = durable
  BY <1>1, <1>3, <1>6 DEF UnderWay, LeftOut, Persisted
<1>8. AuditType'
  BY <1>1, <1>3, <1>6 DEF AuditInv, AuditType
<1>9. PathOfOwner'
  BY <1>1, <1>3, <1>6 DEF AuditInv, PathOfOwner, ByWriter, ByAuthority
<1>10. JobsAreCounted'
  <2>1. \A i \in Items : item'[i] \in {"writer", "provider", "closedWriter"} => i \in durable'
    BY <1>3, <1>6 DEF AuditInv, JobsAreCounted
  <2>2. /\ counts.persistJobs < counts.acquireJobs
        /\ LeftOut => counts.persistJobs + 1 < counts.acquireJobs
    BY <1>7, Zenon DEF AuditInv, JobsAreCounted
  <2>3. CASE counts'.persistJobs = counts.persistJobs + 1 /\ (LeftOut' => LeftOut)
    BY <1>5, <1>6, <1>7, <2>1, <2>2, <2>3 DEF JobsAreCounted
  <2>4. CASE counts'.persistJobs = counts.persistJobs
    BY <1>5, <1>6, <1>7, <2>1, <2>2, <2>4 DEF JobsAreCounted
  <2>5. \/ counts'.persistJobs = counts.persistJobs
        \/ counts'.persistJobs = counts.persistJobs + 1 /\ (LeftOut' => LeftOut)
    BY <1>1, <1>3, <1>6 DEF LeftOut, Persisted
  <2> QED BY <2>3, <2>4, <2>5
<1>11. RangesAreCounted'
  BY <1>3, <1>4, <1>5, <1>6 DEF AuditInv, RangesAreCounted
<1>12. SoundServer'
  BY <1>3, <1>4, <1>5, <1>6, <1>7 DEF AuditInv, SoundServer
<1> QED BY <1>8, <1>9, <1>10, <1>11, <1>12 DEF AuditInv

(* How the figures of an audit hang together, whatever the server did.      *)
LEMMA Figures ==
    ASSUME SizesOfItems, AuditType
    PROVE  LET a == Payload!Audit IN
           /\ a.direct \in Nat /\ a.writer \in Nat /\ a.receipts \in Nat /\ a.pending \in Nat
           /\ a.created \in Nat /\ a.completed \in Nat /\ a.byAuthority \in Nat /\ a.byWriter \in Nat
           /\ a.created = a.completed + a.pending
           /\ a.completed = a.byAuthority + a.byWriter
           /\ a.direct = a.writer + Payload!Count({"provider"}) + Payload!Count({"skipped"}) + a.created
           /\ a.byWriter = a.receipts + Payload!Count({"closedUnreceipted"})
           /\ Payload!Count(Acquired) = Payload!Count({"acquired", "persisted"}) + a.byAuthority
           /\ Payload!Count(Acquired) = Payload!Count({"acquired"}) + Payload!Count(Persisted)
<1> DEFINE N(Q) == Payload!Count(Q)
           begun == {"none", "writer", "provider", "skipped"}
           open == {"byWriter", "byAuthority", "acquired", "persisted"}
           over == {"closedWriter", "closedUnreceipted", "closedAuthority"}
<1>1. \A Q : N(Q) \in Nat
  BY Counted
<1>2. Payload!Cardinality(Items) = N(begun \cup open \cup over)
  <2>1. Payload!Are(begun \cup open \cup over) = Items
    BY DEF Payload!Are, AuditType, ItemStates
  <2> HIDE DEF begun, open, over
  <2> QED BY <2>1, Zenon DEF Payload!Count
<1>3. N(begun \cup open \cup over) = N(begun) + N(open) + N(over)
  <2>1. begun \cap open = {} /\ (begun \cup open) \cap over = {}
    OBVIOUS
  <2> HIDE DEF begun, open, over
  <2>2. N(begun \cup open) = N(begun) + N(open)
    BY <2>1, CountsAdd
  <2>3. N((begun \cup open) \cup over) = N(begun \cup open) + N(over)
    BY <2>1, CountsAdd
  <2> QED BY <2>2, <2>3
<1>4. N(begun) = N({"none"}) + N({"writer"}) + N({"provider"}) + N({"skipped"})
  <2>1. /\ begun = {"none", "writer"} \cup {"provider", "skipped"}
        /\ {"none", "writer"} = {"none"} \cup {"writer"}
        /\ {"provider", "skipped"} = {"provider"} \cup {"skipped"}
        /\ {"none"} \cap {"writer"} = {} /\ {"none", "writer"} \cap {"provider", "skipped"} = {}
        /\ {"provider"} \cap {"skipped"} = {}
    OBVIOUS
  <2> HIDE DEF begun
  <2>2. N({"none"} \cup {"writer"}) = N({"none"}) + N({"writer"})
    BY <2>1, CountsAdd
  <2>3. N({"provider"} \cup {"skipped"}) = N({"provider"}) + N({"skipped"})
    BY <2>1, CountsAdd
  <2>4. N({"none", "writer"} \cup {"provider", "skipped"})
        = N({"none", "writer"}) + N({"provider", "skipped"})
    BY <2>1, CountsAdd
  <2> QED BY <1>1, <2>1, <2>2, <2>3, <2>4
<1>5. N(over) = N({"closedAuthority"}) + N({"closedWriter", "closedUnreceipted"})
  <2>1. /\ over = {"closedAuthority"} \cup {"closedWriter", "closedUnreceipted"}
        /\ {"closedAuthority"} \cap {"closedWriter", "closedUnreceipted"} = {}
    OBVIOUS
  <2> HIDE DEF over
  <2> QED BY <2>1, CountsAdd
<1>6. N({"closedWriter", "closedUnreceipted"}) = N({"closedWriter"}) + N({"closedUnreceipted"})
  <2>1. /\ {"closedWriter", "closedUnreceipted"} = {"closedWriter"} \cup {"closedUnreceipted"}
        /\ {"closedWriter"} \cap {"closedUnreceipted"} = {}
    OBVIOUS
  <2> QED BY <2>1, CountsAdd
<1>7. N(Acquired) = N({"acquired", "persisted"}) + N({"closedAuthority"})
  <2>1. /\ Acquired = {"acquired", "persisted"} \cup {"closedAuthority"}
        /\ {"acquired", "persisted"} \cap {"closedAuthority"} = {}
    BY DEF Acquired
  <2> QED BY <2>1, CountsAdd
<1>8. N(Acquired) = N({"acquired"}) + N(Persisted)
  <2>1. Acquired = {"acquired"} \cup Persisted /\ {"acquired"} \cap Persisted = {}
    BY Zenon DEF Acquired, Persisted
  <2> QED BY <2>1, CountsAdd
<1>9. LET a == Payload!Audit IN
      /\ a.direct = Payload!Cardinality(Items) - N({"none"}) /\ a.writer = N({"writer"})
      /\ a.receipts = N({"closedWriter"}) /\ a.pending = N(open)
      /\ a.created = Payload!Cardinality(Items) - N(begun) /\ a.completed = N(over)
      /\ a.byAuthority = N({"closedAuthority"})
      /\ a.byWriter = N({"closedWriter", "closedUnreceipted"})
  BY DEF Payload!Audit
<1> HIDE DEF N, begun, open, over
<1> DEFINE a == Payload!Audit
<1>10. /\ a.writer \in Nat /\ a.receipts \in Nat /\ a.pending \in Nat /\ a.completed \in Nat
       /\ a.byAuthority \in Nat /\ a.byWriter \in Nat
  BY <1>1, <1>9, Zenon
<1>11. /\ a.created = a.completed + a.pending
       /\ a.direct = a.writer + N({"provider"}) + N({"skipped"}) + a.created
       /\ a.completed = a.byAuthority + a.byWriter
  BY <1>1, <1>2, <1>3, <1>4, <1>5, <1>9
<1>12. /\ a.created \in Nat /\ a.direct \in Nat
  BY <1>1, <1>10, <1>11
<1>13. /\ a.byWriter = a.receipts + N({"closedUnreceipted"})
       /\ N(Acquired) = N({"acquired", "persisted"}) + a.byAuthority
  BY <1>6, <1>7, <1>9
<1> QED BY <1>8, <1>10, <1>11, <1>12, <1>13, Zenon DEF N

(* An audit that passes leaves no payload that is not durable, but for one  *)
(* that was committed without a persist and without a dependency.           *)
LEMMA PassedIsDurable ==
    ASSUME SizesOfItems, AuditInv, Payload!AuditPasses,
           NEW i \in Items, item[i] \notin {"none", "skipped"}
    PROVE  i \in durable
<1> DEFINE a == Payload!Audit
           open == {"byWriter", "byAuthority", "acquired", "persisted"}
           over == {"closedWriter", "closedUnreceipted", "closedAuthority"}
<1>1. /\ a.created = a.completed + a.pending /\ Payload!OwnerIsSatisfied(a)
      /\ counts.acquireJobs > 0 => Payload!AuthorityComplete
  BY Zenon DEF Payload!AuditPasses
<1>2. /\ a.completed \in Nat /\ a.pending \in Nat /\ a.receipts \in Nat
      /\ a.byWriter = a.receipts + Payload!Count({"closedUnreceipted"})
  BY Figures DEF AuditInv
<1>3. a.pending = Payload!Count(open) /\ a.completed = Payload!Count(over)
  BY DEF Payload!Audit
<1>4. item[i] \in open => a.pending # 0
  BY <1>3, Counted
<1>5. item[i] \in over => a.completed # 0
  BY <1>3, Counted
<1>6. /\ Payload!Count({"closedUnreceipted"}) \in Nat
      /\ item[i] = "closedUnreceipted" => Payload!Count({"closedUnreceipted"}) # 0
  BY Counted
<1> HIDE DEF a
<1>7. CASE item[i] \in {"writer", "provider", "closedWriter"}
  BY <1>7 DEF AuditInv, JobsAreCounted
<1>8. CASE item[i] \in open \cup {"closedUnreceipted"}
  <2>1. a.created > 0
    BY <1>1, <1>2, <1>4, <1>5, <1>8
  <2>2. owner \in {"AUTHORITY_BI_ACQUIRE", "WRITER_RECEIPT", "PLACEMENT_ROUTED"}
    BY <1>8 DEF AuditInv, PathOfOwner, ByWriter, ByAuthority
  <2>3. a.pending = 0
    BY <1>1, <2>1, <2>2 DEF Payload!OwnerIsSatisfied, Payload!WriterHostReceiptComplete
  <2>4. item[i] = "closedUnreceipted" /\ owner # "AUTHORITY_BI_ACQUIRE"
    BY <1>4, <1>8, <2>3 DEF AuditInv, PathOfOwner, ByWriter
  <2>5. a.receipts = a.byWriter
    BY <1>1, <2>1, <2>2, <2>4 DEF Payload!OwnerIsSatisfied, Payload!WriterHostReceiptComplete
  <2> QED BY <1>2, <1>6, <2>4, <2>5
<1>9. CASE item[i] = "closedAuthority"
  <2>1. SUFFICES ASSUME i \notin durable PROVE FALSE
    OBVIOUS
  <2>2. /\ counts.persistJobs \in Nat /\ counts.acquireJobs \in Nat
        /\ counts.persistJobs < counts.acquireJobs
    BY <1>9, <2>1 DEF AuditInv, JobsAreCounted, LeftOut, Persisted, AuditType, Counters
  <2> QED BY <1>1, <2>2 DEF Payload!AuthorityComplete
<1> QED BY <1>7, <1>8, <1>9 DEF AuditInv, AuditType, ItemStates

(* Without a barrier of the provider such a write fails the audit of an     *)
(* owner that persists before visibility.                                   *)
LEMMA SkippedIsSeen ==
    ASSUME SizesOfItems, AuditInv, Payload!AuditPasses,
           owner \notin Payload!Deferring, ~Payload!Provider
    PROVE  Payload!Are({"skipped"}) = {}
<1> DEFINE a == Payload!Audit
           provided == Payload!Count({"provider"})
           skipped == Payload!Count({"skipped"})
<1>1. a.direct > 0 => a.writer = a.direct
  BY Zenon DEF Payload!AuditPasses, Payload!OwnerIsSatisfied, Payload!WriterComplete
<1>2. /\ a.direct \in Nat /\ a.writer \in Nat /\ a.created \in Nat
      /\ a.direct = a.writer + provided + skipped + a.created
  BY Figures DEF AuditInv
<1>3. provided \in Nat /\ skipped \in Nat /\ (skipped = 0 => \A i \in Items : item[i] \notin {"skipped"})
  BY Counted
<1> HIDE DEF a, provided, skipped
<1>4. skipped = 0
  BY <1>1, <1>2, <1>3
<1> QED BY <1>3, <1>4 DEF Payload!Are

(* The audit of a sound server at rest passes.                              *)
LEMMA SoundPasses ==
    ASSUME SizesOfItems, AuditInv, counts.faults = 0, ~(counts.rejected > 0),
           Payload!Are({"byWriter", "byAuthority", "acquired", "persisted"}) = {}
    PROVE  Payload!AuditPasses
<1> DEFINE a == Payload!Audit
           provided == Payload!Count({"provider"})
<1>1. \A i \in Items : item[i] \notin {"byWriter", "byAuthority", "acquired", "persisted"}
  BY DEF Payload!Are
<1>2. /\ a.direct \in Nat /\ a.writer \in Nat /\ a.receipts \in Nat /\ a.pending \in Nat
      /\ a.created \in Nat /\ a.completed \in Nat /\ a.byAuthority \in Nat /\ a.byWriter \in Nat
      /\ a.created = a.completed + a.pending
      /\ a.completed = a.byAuthority + a.byWriter
      /\ a.direct = a.writer + provided + a.created
      /\ a.byWriter = a.receipts + Payload!Count({"closedUnreceipted"})
      /\ Payload!Count(Acquired) = Payload!Count({"acquired", "persisted"}) + a.byAuthority
      /\ Payload!Count(Acquired) = Payload!Count({"acquired"}) + Payload!Count(Persisted)
  <2>1. Payload!Count({"skipped"}) = 0 /\ provided \in Nat
    BY Counted DEF AuditInv, SoundServer
  <2>2. /\ a.direct = a.writer + provided + Payload!Count({"skipped"}) + a.created
        /\ a.writer \in Nat /\ a.created \in Nat
    BY Figures DEF AuditInv
  <2> HIDE DEF a, provided
  <2>3. a.direct = a.writer + provided + a.created
    BY <2>1, <2>2
  <2> USE DEF a
  <2> QED BY <2>3, Figures DEF AuditInv
<1>3. /\ counts \in Counters /\ counts.acquireJobs \in Nat /\ counts.persistJobs \in Nat
      /\ counts.acquireRanges \in Nat /\ counts.barriers \in Nat /\ counts.duplicate \in Nat
      /\ counts.rejected = 0
  BY DEF AuditInv, AuditType, Counters
<1>4. a.pending = 0
  <2>1. a.pending = Payload!Count({"byWriter", "byAuthority", "acquired", "persisted"})
    BY DEF Payload!Audit
  <2> QED BY <1>1, <2>1, Counted
<1>5. Payload!Count({"acquired"}) = 0 /\ Payload!Count({"acquired", "persisted"}) = 0
  BY <1>1, Counted
<1>6. a.receipts = a.byWriter
  <2>1. Payload!Count({"closedUnreceipted"}) = 0
    BY Counted DEF AuditInv, SoundServer
  <2> QED BY <1>2, <2>1
<1>7. /\ owner \notin {"WRITER_RECEIPT", "PLACEMENT_ROUTED"} => a.byWriter = 0
      /\ owner \notin {"AUTHORITY_BI_ACQUIRE", "PLACEMENT_ROUTED"} => a.byAuthority = 0
  <2>1. /\ a.byWriter = Payload!Count({"closedWriter", "closedUnreceipted"})
        /\ a.byAuthority = Payload!Count({"closedAuthority"})
    BY DEF Payload!Audit
  <2>2. /\ owner \notin {"WRITER_RECEIPT", "PLACEMENT_ROUTED"} =>
              \A i \in Items : item[i] \notin {"closedWriter", "closedUnreceipted"}
        /\ owner \notin {"AUTHORITY_BI_ACQUIRE", "PLACEMENT_ROUTED"} =>
              \A i \in Items : item[i] \notin {"closedAuthority"}
    BY DEF AuditInv, PathOfOwner, ByWriter, ByAuthority
  <2> QED BY <2>1, <2>2, Counted, Zenon
<1>8. provided \in Nat /\ (provided > 0 => counts.barriers > 0)
  <2>1. provided \in Nat /\ (provided # 0 => \E i \in Items : item[i] = "provider")
    BY Counted
  <2> QED BY <2>1 DEF AuditInv, RangesAreCounted
<1> HIDE DEF a, provided
<1>9. /\ counts.acquireJobs > 0 <=> counts.acquireRanges > 0
      /\ counts.acquireRanges = Payload!Count(Acquired)
  BY DEF AuditInv, RangesAreCounted
<1>10. /\ counts.persistRanges = Payload!Count(Persisted)
       /\ counts.persistJobs = counts.acquireJobs
       /\ counts.persistJobs > 0 => counts.barriers > 0
  <2>1. ~UnderWay
    BY <1>1 DEF UnderWay
  <2>2. /\ counts.persistRanges = Payload!Count(Persisted)
        /\ counts.persistJobs > 0 => counts.barriers > 0
        /\ counts.acquireJobs = counts.persistJobs + 0
    BY <2>1 DEF AuditInv, SoundServer
  <2> QED BY <1>3, <2>2
<1>11. Payload!Count(Persisted) \in Nat
  BY Counted
<1>12. counts.acquireJobs > 0 => Payload!AuthorityComplete
  BY <1>2, <1>3, <1>5, <1>9, <1>10, <1>11 DEF Payload!AuthorityComplete
<1>13. Payload!AuthorityOwned(a)
  <2>1. a.byAuthority > 0 => counts.acquireJobs > 0 /\ counts.acquireRanges >= a.byAuthority
    BY <1>2, <1>3, <1>5, <1>9
  <2> QED BY <1>10, <1>12, <2>1 DEF Payload!AuthorityOwned, Payload!Provider
<1>14. /\ owner \notin {"AUTHORITY_BI_ACQUIRE", "PLACEMENT_ROUTED"} => counts.acquireJobs = 0
       /\ owner \notin {"WRITER_RECEIPT", "PLACEMENT_ROUTED"} => counts.duplicate = 0
  BY <1>3 DEF AuditInv, PathOfOwner
<1>15. Payload!OwnerIsSatisfied(a)
  <2>1. owner = "AUTHORITY_BI_ACQUIRE" =>
            /\ a.byWriter = 0 /\ a.receipts = 0 /\ counts.duplicate = 0 /\ counts.rejected = 0
            /\ a.pending = 0 /\ Payload!AuthorityOwned(a)
    BY <1>3, <1>4, <1>6, <1>7, <1>13, <1>14, Zenon
  <2>2. owner = "WRITER_RECEIPT" =>
            /\ counts.acquireJobs = 0 /\ counts.persistJobs = 0 /\ a.byAuthority = 0
            /\ a.created > 0 => Payload!WriterHostReceiptComplete(a)
    BY <1>2, <1>3, <1>4, <1>6, <1>7, <1>10, <1>14 DEF Payload!WriterHostReceiptComplete
  <2>3. owner = "PLACEMENT_ROUTED" =>
            /\ a.pending = 0 /\ counts.rejected = 0 /\ a.receipts = a.byWriter
            /\ Payload!AuthorityOwned(a)
            /\ a.created > 0 => a.byAuthority > 0 \/ a.byWriter > 0
    BY <1>2, <1>3, <1>4, <1>6, <1>13
  <2>4. owner \notin Payload!Deferring =>
            /\ counts.acquireJobs = 0 /\ counts.persistJobs = 0 /\ a.created = 0
            /\ a.direct > 0 => Payload!Provider \/ Payload!WriterComplete(a)
    BY <1>2, <1>4, <1>7, <1>8, <1>10, <1>14
       DEF Payload!Deferring, Payload!Provider, Payload!WriterComplete
  <2> QED BY <2>1, <2>2, <2>3, <2>4, Zenon DEF Payload!OwnerIsSatisfied
<1>16. a.writer <= a.direct /\ a.receipts <= a.direct - a.writer
  BY <1>2, <1>4, <1>6, <1>8
<1> QED BY <1>2, <1>12, <1>15, <1>16, Zenon DEF Payload!AuditPasses, a

(* An audit that passes tells of every payload but one that was committed    *)
(* with no persist and no dependency that it is durable, and fails a sound   *)
(* server only while something is open or after a rejected receipt, as far   *)
(* as the sizes of sets of writes are numbers that add up.                   *)
LEMMA DurableBySizes ==
    SizesOfItems /\ Payload!Init /\ [][Payload!Next]_(Payload!vars) =>
        []Payload!DurableWhenAudited
<1>0. SUFFICES ASSUME SizesOfItems
               PROVE  Payload!Init /\ [][Payload!Next]_(Payload!vars) => []Payload!DurableWhenAudited
  OBVIOUS
<1>1. ASSUME Payload!Init PROVE AuditInv
  <2>1. \A i \in Items : item[i] = "none"
    BY <1>1 DEF Payload!Init
  <2>2. Payload!Count(Acquired) = 0 /\ Payload!Count(Persisted) = 0
    BY <1>0, <2>1, Counted, Zenon DEF Acquired, Persisted
  <2>3. AuditType /\ PathOfOwner
    BY <1>1, <2>1 DEF Payload!Init, AuditType, ItemStates, Counters, PathOfOwner, ByWriter, ByAuthority
  <2>4. JobsAreCounted /\ RangesAreCounted /\ SoundServer
    BY <1>1, <2>1, <2>2
       DEF Payload!Init, JobsAreCounted, RangesAreCounted, SoundServer, UnderWay, LeftOut, Persisted
  <2> QED BY <2>3, <2>4 DEF AuditInv
<1>2. ASSUME AuditInv, [Payload!Next]_(Payload!vars)
      PROVE  AuditInv'
  <2>1. CASE Payload!Next
    BY <1>0, <1>2, <2>1, CommitStep, ReceiptStep, CloseStep, AcquireStep, PersistStep, Zenon DEF Payload!Next
  <2>2. CASE UNCHANGED Payload!vars
    <3>1. owner' = owner /\ item' = item /\ durable' = durable /\ sent' = sent /\ counts' = counts
      BY <2>2 DEF Payload!vars
    <3> QED BY <1>2, <3>1 DEF AuditInv, AuditType, PathOfOwner, JobsAreCounted, RangesAreCounted,
                SoundServer, UnderWay, LeftOut, Payload!Count, Payload!Are
  <2> QED BY <1>2, <2>1, <2>2
<1>3. ASSUME AuditInv PROVE Payload!DurableWhenAudited
  <2>1. Payload!AuditPasses => Items \ durable \subseteq Payload!Are({"none", "skipped"})
    BY <1>0, <1>3, PassedIsDurable DEF Payload!Are
  <2>2. Payload!AuditPasses /\ owner \notin Payload!Deferring /\ ~Payload!Provider =>
            Payload!Are({"skipped"}) = {}
    BY <1>0, <1>3, SkippedIsSeen, Zenon
  <2> QED BY <1>0, <1>3, <2>1, <2>2, SoundPasses, Zenon DEF Payload!DurableWhenAudited
<1> QED BY <1>1, <1>2, <1>3, PTL

(* The sizes of sets of a finite set of writes are such numbers.            *)
Finite == INSTANCE FiniteSetTheorems

(* Sizes are those of the library's facts about finite sets.                *)
LEMMA SetsAreTheirs ==
    \A S : Finite!Cardinality(S) = Cardinality(S) /\ (Finite!IsFiniteSet(S) <=> IsFiniteSet(S))
  BY Zenon DEF Finite!Cardinality, Cardinality, Finite!IsFiniteSet, IsFiniteSet

(* Sizes are numbers, and those of sets apart add up.                       *)
LEMMA FiniteSizes ==
    ASSUME IsFiniteSet(Items)
    PROVE  SizesOfItems
<1>1. \A S : IsFiniteSet(S) => Cardinality(S) \in Nat
  BY SetsAreTheirs, Finite!FS_CardinalityType
<1>2. \A S : IsFiniteSet(S) /\ Cardinality(S) = 0 <=> S = {}
  BY SetsAreTheirs, Finite!FS_EmptySet
<1>3. \A T \in SUBSET Items : IsFiniteSet(T)
  BY SetsAreTheirs, Finite!FS_Subset
<1>4. \A S, T : IsFiniteSet(S) /\ IsFiniteSet(T) =>
            Cardinality(S \cup T) = Cardinality(S) + Cardinality(T) - Cardinality(S \cap T)
  BY SetsAreTheirs, Finite!FS_Union
<1>5. ASSUME NEW S \in SUBSET Items, NEW T \in SUBSET Items, S \cap T = {}
      PROVE  Cardinality(S \cup T) = Cardinality(S) + Cardinality(T)
  <2>1. IsFiniteSet(S) /\ IsFiniteSet(T) /\ Cardinality({}) = 0
    BY <1>2, <1>3
  <2>2. Cardinality(S) \in Nat /\ Cardinality(T) \in Nat
    BY <1>1, <2>1
  <2>3. Cardinality(S \cup T) = Cardinality(S) + Cardinality(T) - Cardinality(S \cap T)
    BY <1>4, <2>1, Zenon
  <2>4. Cardinality(S \cap T) = 0
    BY <1>5, <2>1, Zenon
  <2> QED BY <2>2, <2>3, <2>4
<1> QED BY <1>1, <1>2, <1>3, <1>5 DEF SizesOfItems

(* lifecycle_payload_persistence_evidence, for any finite set of writes: when *)
(* the counters pass the audit, every payload is durable that was counted as *)
(* persisted or left a dependency (a write committed with neither escapes it, *)
(* under WRITER_BEFORE_VISIBILITY only if a provider barrier was counted);   *)
(* and a server that left no step out fails it only while a dependency is    *)
(* open or after a rejected receipt.                                         *)
THEOREM DurableAlways ==
    IsFiniteSet(Items) /\ Payload!Init /\ [][Payload!Next]_(Payload!vars) =>
        []Payload!DurableWhenAudited
<1>1. SUFFICES ASSUME IsFiniteSet(Items)
               PROVE  Payload!Init /\ [][Payload!Next]_(Payload!vars) => []Payload!DurableWhenAudited
  OBVIOUS
<1>2. SizesOfItems
  BY <1>1, FiniteSizes
<1> QED BY <1>2, DurableBySizes

=============================================================================
