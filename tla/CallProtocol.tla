---------------------------- MODULE CallProtocol ----------------------------
(***************************************************************************)
(* What ultrabus promises about a call, whoever makes it and whatever else *)
(* goes on: send () refuses it or accepts it, a call that was refused is   *)
(* never answered, one that was accepted is answered at most once and not  *)
(* after it was given up, and send_and_wait () returns only with an answer.*)
(***************************************************************************)
CONSTANTS Calls, SyncCalls

VARIABLES status,       \* "new", "refused", "pending", "answered" or "dropped"
          returned      \* calls of send_and_wait that returned an answer

vars == <<status, returned>>

Init ==
  /\ status = [c \in Calls |-> "new"]
  /\ returned = {}

Become(c, s) == status' = [status EXCEPT ![c] = s]

Refuse(c) == status[c] = "new" /\ Become(c, "refused") /\ UNCHANGED returned

Accept(c) == status[c] = "new" /\ Become(c, "pending") /\ UNCHANGED returned

Answer(c) == status[c] = "pending" /\ Become(c, "answered") /\ UNCHANGED returned

\* One step may give up several calls: disconnect () does.
Drop(S) ==
  /\ \A c \in S : status[c] = "pending"
  /\ status' = [c \in Calls |-> IF c \in S THEN "dropped" ELSE status[c]]
  /\ UNCHANGED returned

Return(c) ==
  /\ status[c] = "answered"
  /\ c \in SyncCalls \ returned
  /\ returned' = returned \cup {c}
  /\ UNCHANGED status

Next ==
  \/ \E c \in Calls : Refuse(c) \/ Accept(c) \/ Answer(c) \/ Return(c)
  \/ \E S \in SUBSET Calls : Drop(S)

Spec == Init /\ [][Next]_vars

=============================================================================
