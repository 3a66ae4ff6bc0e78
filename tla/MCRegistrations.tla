--------------------------- MODULE MCRegistrations ---------------------------
(* Two threads and the five rules of the module.                             *)
EXTENDS Registrations

MCRules == {"changed", "elsewhere", "removed", "added_top", "added_below"}
MCMaxCalls == [k \in KindsUsed |-> IF k \in {"manager", "properties"} THEN 2 ELSE 3]
=============================================================================
