----------------------------- MODULE ThreeNode -----------------------------
(***************************************************************************)
(* The 2-client/1-server LegoFS runner (execute of                         *)
(* scripts/legofs_type3_3node.py) and its guests: node0 serves, the two    *)
(* clients run the cases one after the other, each released by a line from *)
(* the host and synchronised inside a case at the barriers (BarrierServer) *)
(* of that case.                                                           *)
(***************************************************************************)
EXTENDS RunnerScript, SequencesExt

CONSTANT FirstCase   \* bound: the cases from this one on are run

CASES == << "disjoint-write", "same-range", "writer-reader-handoff", "shared-read",
            "client-crash" >>
Cases == SubSeq(CASES, FirstCase, Len(CASES))

(* How many of BARRIERS belong to a case.                                   *)
Barriers(case) == IF case = "client-crash" THEN 1 ELSE 2

ThreeNodes == {"node0", "node1", "node2"}
Other(n) == IF n = "node1" THEN "node2" ELSE "node1"

-----------------------------------------------------------------------------
(* guest/legofs_node_init.c after Boot (see RunnerScript)                  *)

(* Mutant: the clients take the barriers of a case in different orders.     *)
two_client_case_crossed(n, case) ==
    Bench({"node0"}, <<>>) \o
    FlattenSeq([i \in 1 .. Barriers(case) |->
        Meet(Other(n), <<case, IF n = "node1" THEN i ELSE Barriers(case) + 1 - i>>)])

(* badfs-bench in mode 2c1s: the case's barriers in order.                  *)
two_client_case(n, case) ==
    Bench({"node0"}, <<>>) \o
    FlattenSeq([i \in 1 .. Barriers(case) |-> Meet(Other(n), <<case, i>>)])

(* Mutant: the run gate is read once, before the first case.                *)
run_case_ungated(n, case) ==
    Emit(CaseLine("READY", case)) \o
    (IF case = Cases[1] THEN ReadLine("RUN") ELSE <<>>) \o Emit(CaseLine("BEGIN", case)) \o
    two_client_case(n, case) \o Emit(CaseLine("PASS", case))

run_case(n, case) ==
    Emit(CaseLine("READY", case)) \o ReadLine("RUN") \o Emit(CaseLine("BEGIN", case)) \o
    two_client_case(n, case) \o Emit(CaseLine("PASS", case))

run_two_client(n) ==
    FlattenSeq([i \in 1 .. Len(Cases) |-> run_case(n, Cases[i])]) \o
    Bench({"node0"}, <<>>) \o Say("COMPLETE") \o PowerOff

GuestPrograms ==
    [n \in ThreeNodes |-> Boot \o IF n = "node0" THEN run_node0 ELSE run_two_client(n)]

-----------------------------------------------------------------------------
(* scripts/legofs_type3_3node.py                                           *)

AwaitBoth(marker) == AwaitLine("node1", marker) \o AwaitLine("node2", marker)
ReleaseBoth == SendLine("node1", "RUN") \o SendLine("node2", "RUN")

StartNode(n) ==
    StartProcess(n) \o RunUboot(n) \o Await(n, "CXL_READY") \o
    AwaitLine(n, IF n = "node0" THEN Line("SERVER_READY") ELSE CaseLine("READY", Cases[1]))

(* One turn of the case loop; of the first case the READY lines have been   *)
(* seen already.                                                            *)
RunCase(case) ==
    AwaitBoth(CaseLine("READY", case)) \o ReleaseBoth \o
    AwaitBoth(CaseLine("PASS", case)) \o RequireLive({"node0"})

FinishClient(n) == Await(n, "COMPLETE") \o AwaitExit(n)

(* validate_case_outputs, and assert_complete of the barrier server: every  *)
(* case was passed by both clients, every barrier by both parties.          *)
Evidence ==
    [ output  |-> [n \in ThreeNodes |-> IF n = "node0" THEN {}
                                   ELSE { CaseLine("PASS", Cases[i]) : i \in 1 .. Len(Cases) }],
      sidecar |-> [n \in ThreeNodes |-> {}] ]

execute ==
    StartProcess("cxlmemsim") \o AwaitLog \o
    StartNode("node0") \o StartNode("node1") \o StartNode("node2") \o RequireLive(ThreeNodes) \o
    FlattenSeq([i \in 1 .. Len(Cases) |-> RunCase(Cases[i])]) \o
    FinishClient("node1") \o FinishClient("node2") \o
    Terminate("node0") \o Terminate("cxlmemsim") \o RequireEnded(ThreeNodes) \o
    Require(Evidence)

(* reversed(owned)                                                          *)
ReversedOwned == <<"node2", "node1", "node0", "cxlmemsim">>

=============================================================================
