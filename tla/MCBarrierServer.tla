-------------------------- MODULE MCBarrierServer --------------------------
(* The barrier server for TLC.  Barriers do not share state but the lock,   *)
(* so one expected barrier is kept.  A load of four lets both of its        *)
(* parties try it again after it was passed, or one unusable request of any *)
(* kind come in between two good ones, or both parties disappear.           *)
EXTENDS BarrierServer, TLC

Symmetry == Permutations(Connections)
=============================================================================
