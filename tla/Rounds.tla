------------------------------- MODULE Rounds -------------------------------
(* The length of the ping-pong of guest/cxl_bi_app_init.c, which the whole   *)
(* application (BiApp) and the loop on its own (PingPong) share.             *)
EXTENDS Integers

CONSTANT Iterations    \* options.iterations

(* main() rejects a command line with iterations = 0.                       *)
ASSUME IterationsAssumption == Iterations \in Nat \ {0}

=============================================================================
