------------------------------ MODULE TwoNode ------------------------------
(***************************************************************************)
(* The two-node LegoFS runner (execute of scripts/legofs_type3_2node.py)   *)
(* and its guests (guest/legofs_node_init.c): node0 serves, node1 runs one *)
(* benchmark when the host opens its run gate, and powers off.             *)
(***************************************************************************)
EXTENDS RunnerScript

TwoNodes == {"node0", "node1"}

-----------------------------------------------------------------------------
(* guest/legofs_node_init.c after Boot (see RunnerScript)                  *)

(* run_node1: the benchmark and the inspection, both against the server.    *)
Trace == [n \in TwoNodes |-> IF n = "node0" THEN Line("lifecycle") ELSE Line("direct")]

run_node1 ==
    Say("CLIENT_READY") \o ReadLine("RUN") \o Say("BEGIN") \o
    Bench({"node0"}, Trace) \o Bench({"node0"}, <<>>) \o Say("PASS") \o PowerOff

GuestPrograms ==
    [n \in TwoNodes |-> Boot \o IF n = "node0" THEN run_node0 ELSE run_node1]

-----------------------------------------------------------------------------
(* scripts/legofs_type3_2node.py                                           *)

(* What validate_runtime_evidence reads: the consoles, and for the capture  *)
(* order the event sidecars.                                                *)
Evidence ==
    [ output  |-> [n \in TwoNodes |-> IF n = "node0" THEN {Line("lifecycle")}
                                   ELSE {Line("direct"), Line("PASS")}],
      sidecar |-> [n \in TwoNodes |-> IF n = "node0" THEN {Line("lifecycle")}
                                   ELSE {Line("direct")}] ]

StartNode0 ==
    StartProcess("node0") \o RunUboot("node0") \o
    Await("node0", "CXL_READY") \o Await("node0", "SERVER_READY")

StartNode1 ==
    StartProcess("node1") \o RunUboot("node1") \o
    Await("node1", "CXL_READY") \o Await("node1", "CLIENT_READY")

Benchmark ==
    RequireLive(TwoNodes) \o SendLine("node1", "RUN") \o Await("node1", "PASS") \o
    RequireLive({"node0"}) \o AwaitExit("node1")

Shutdown == Terminate("node0") \o Terminate("cxlmemsim")

execute ==
    StartProcess("cxlmemsim") \o AwaitLog \o StartNode0 \o StartNode1 \o
    Benchmark \o Shutdown \o RequireEnded(TwoNodes) \o Require(Evidence)

(* reversed(owned)                                                          *)
ReversedOwned == <<"node1", "node0", "cxlmemsim">>

=============================================================================
