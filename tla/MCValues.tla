------------------------------ MODULE MCValues ------------------------------
(* Integers of 2 to 5 bits; -1 is also the largest unsigned number, and 0    *)
(* comes from the defaults.  The texts "", "/" and one that is not UTF-8.    *)
(* The descriptors 0 and 1 are open, each a duplicate of the other; -1 is    *)
(* the default of a descriptor.                                              *)
EXTENDS Values

MCBits == [t \in Integral |-> CASE t = "y" -> 2 [] t \in {"n", "q"} -> 3 [] t \in {"i", "u"} -> 4 [] OTHER -> 5]
MCSigs == {<<"o">>, <<"h">>, <<"a", "u">>, <<"(", "i", ")">>, <<"a", "{", "i", "v", "}">>}
MCResetSigs == {<<"o">>, <<"v">>}
MCNumbers == {-1}
MCDuplicate == [n \in {0, 1} |-> 1 - n]
MCMaxSize == [s \in Vars |-> IF s = 1 THEN 3 ELSE 2]
=============================================================================
