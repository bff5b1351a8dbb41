------------------------------- MODULE BiRun -------------------------------
(***************************************************************************)
(* The back-invalidation experiment's runner (run_experiment of            *)
(* scripts/cxl_bi_app.py) and its two guests as it sees them               *)
(* (guest/cxl_bi_app_init.c; what they do in shared memory is BiApp).      *)
(* Unlike the guests of TwoNode these never power off: the host ends them  *)
(* after it has seen both summaries.                                       *)
(***************************************************************************)
EXTENDS RunnerScript

Guests == {"reader", "writer"}

-----------------------------------------------------------------------------
(* guest/cxl_bi_app_init.c                                                 *)

main(role) ==
    Uboot \o Work \o Say("mapped") \o
    (IF role = "reader" THEN Say("ready") \o Meet("writer", "area") ELSE Meet("reader", "area")) \o
    Say("summary") \o Serve

GuestPrograms == [n \in Guests |-> main(n)]

-----------------------------------------------------------------------------
(* scripts/cxl_bi_app.py                                                   *)

(* validate_guest_evidence and _host_capture_summary.                       *)
Evidence ==
    [ output  |-> [n \in Guests |-> {Line("mapped"), Line("summary")}],
      sidecar |-> [n \in Guests |-> {Line("mapped"), Line("summary")}] ]

StartGuests ==
    StartProcess("reader") \o RunUboot("reader") \o Await("reader", "ready") \o
    StartProcess("writer") \o RunUboot("writer")

AwaitSummaries == Await("writer", "summary") \o Await("reader", "summary")

StopAll ==
    Terminate("reader") \o Terminate("writer") \o JoinReaders \o Terminate("cxlmemsim")

run_experiment ==
    StartProcess("cxlmemsim") \o AwaitLog \o StartGuests \o AwaitSummaries \o
    StopAll \o Require(Evidence)

(* reversed(consoles), then the server                                      *)
ReversedConsoles == <<"writer", "reader", "cxlmemsim">>

=============================================================================
