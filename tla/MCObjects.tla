----------------------------- MODULE MCObjects -----------------------------
(* Two handlers, a path and the one above it.                                *)
EXTENDS Objects, TLC

MCPaths == {"/", "/a"}
MCAbove == ("/" :> <<>>) @@ ("/a" :> <<"/">>)
Symmetric == Permutations(Threads) \cup Permutations(Handlers)
=============================================================================
