---------------------------- MODULE MCNameWatch ----------------------------
(* Two callbacks of the three, and a rule of the program.                    *)
EXTENDS NameWatch, TLC

MCRules == Watched \cup OtherRules
Symmetric == Permutations(Threads) \cup Permutations(Watched)
=============================================================================
