-------------------------------- MODULE Labs --------------------------------
(***************************************************************************)
(* The three runners that are built from Runner, side by side: a behaviour *)
(* is a run of one of them.                                                *)
(***************************************************************************)
EXTENDS Runner

FirstCase == 4   \* bound: the three-node runner runs the cases from this one on

Two == INSTANCE TwoNode
Bi == INSTANCE BiRun
Three == INSTANCE ThreeNode

(* The three-node runner never reads its sidecars, so the order in which    *)
(* its readers write them is of no consequence.                             *)
RunnerTable ==
    [ TwoNode |->
        [ nodes |-> Two!TwoNodes, host |-> Two!execute, guests |-> Two!GuestPrograms,
          cleanupOrder |-> Two!ReversedOwned,
          captureUnderLock |-> FALSE, countsRemaining |-> FALSE ],
      BiRun |->
        [ nodes |-> Bi!Guests, host |-> Bi!run_experiment, guests |-> Bi!GuestPrograms,
          cleanupOrder |-> Bi!ReversedConsoles,
          captureUnderLock |-> TRUE, countsRemaining |-> TRUE ],
      ThreeNode |->
        [ nodes |-> Three!ThreeNodes, host |-> Three!execute, guests |-> Three!GuestPrograms,
          cleanupOrder |-> Three!ReversedOwned,
          captureUnderLock |-> TRUE, countsRemaining |-> TRUE ] ]

FaultsPerRun == [TwoNode |-> 1, BiRun |-> 2, ThreeNode |-> 1]

-----------------------------------------------------------------------------
Printed(n) == { out[n][i] : i \in 1 .. Len(out[n]) }

(* The clients of the three-node runner run the same case: none begins a    *)
(* case before both have passed the one before it, although each is         *)
(* released by a line of its own and inside a case they meet only at the    *)
(* barriers.                                                                *)
CaseLockstep ==
    lab = "ThreeNode" =>
        \A i \in 2 .. Len(Three!Cases) :
            (\E n \in {"node1", "node2"} : CaseLine("BEGIN", Three!Cases[i]) \in Printed(n)) =>
                \A n \in {"node1", "node2"} :
                    CaseLine("PASS", Three!Cases[i - 1]) \in Printed(n)

(* How a run without faults can fail before any deadline: a client powers   *)
(* off before its reader has delivered the line the host waits for, and the *)
(* two-node runner validates sidecars that its readers, which it does not   *)
(* join, may still be writing.                                              *)
Races == [TwoNode |-> {"exited", "evidence"}, BiRun |-> {}, ThreeNode |-> {"exited"}]

(* A run without faults and in which no deadline passes ends, and passes,   *)
(* unless it loses one of its runner's races: the dialogue of host and      *)
(* guests has no deadlock of its own, and no other check of a healthy run   *)
(* can fail.                                                                *)
PassesUnlessDisturbed ==
    [](faults = 0 /\ cause # "timeout") =>
        <>(phase = "written" /\ (verdict = "passed" \/ cause \in Races[lab]))
=============================================================================
