------------------------------ MODULE MCTimers ------------------------------
(* Timers for TLC: the constants are given in the cfg. *)
EXTENDS Timers
=============================================================================
