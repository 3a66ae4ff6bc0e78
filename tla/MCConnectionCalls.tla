------------------------- MODULE MCConnectionCalls -------------------------
(* Two threads, of which t1 sends; call b is the one made from a callback. *)
EXTENDS ConnectionCalls, TLC

CONSTANTS t1, t2, s, b

MCThreads == {t1, t2}
MCSender  == [c \in Calls |-> IF c = b THEN Dispatcher ELSE t1]

=============================================================================
