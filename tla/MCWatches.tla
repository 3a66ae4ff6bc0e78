------------------------------ MODULE MCWatches ------------------------------
(* A connection as libdbus makes it: its socket has a watch to write and one   *)
(* to read, here with the one to write first in the map.                       *)
EXTENDS Watches

MCFdOf == [w \in Watches |-> "f"]
MCFlagsOf == [w \in Watches |-> IF w = 1 THEN {"out"} ELSE {"in"}]
=============================================================================
