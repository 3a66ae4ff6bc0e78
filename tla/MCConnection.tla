---------------------------- MODULE MCConnection ----------------------------
(* Connection for TLC: the constants are model values of the cfg. *)
EXTENDS Connection
=============================================================================
