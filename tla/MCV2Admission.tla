---------------------------- MODULE MCV2Admission ----------------------------
(* The workload of two clients whose consoles are waited for one at a time,   *)
(* an admission of two at once, and the single client; and the workload of   *)
(* one client.                                                              *)
EXTENDS V2Admission
AllSetups ==
    {[mode |-> "workload", clients |-> 2, parallelism |-> 1],
     [mode |-> "admission", clients |-> 2, parallelism |-> 2],
     [mode |-> "single", clients |-> 1, parallelism |-> 1]}
OneClient == {[mode |-> "workload", clients |-> 1, parallelism |-> 1]}
==============================================================================
