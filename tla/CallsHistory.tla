---------------------------- MODULE CallsHistory ----------------------------
(***************************************************************************)
(* PendingCalls with a history variable: the calls that a teardown         *)
(* overtook in send (), between its is_connected () and its emplace.       *)
(* Nothing reads the variable but the property; every behaviour of         *)
(* PendingCalls is one of this specification with some value of it.        *)
(***************************************************************************)
EXTENDS PendingCalls

VARIABLE overtaken

hvars == <<vars, overtaken>>

\* send has found the connection up, and has not yet entered the call.
InSend(c) == spc[c] \in {"checked"} \cup SendSteps

HInit == Init /\ overtaken = {}

\* The step Leave is the only one that begins a teardown of a connection in use.
HNext ==
  /\ Next
  /\ overtaken' = IF phase = "up" /\ phase' # "up"
                  THEN overtaken \cup {c \in Calls : InSend(c)}
                  ELSE overtaken

HSpec == HInit /\ [][HNext]_hvars /\ Fairness

\* A message is sent without a ctx, or leaves an entry in the map of a connection
\* that is down, only if a teardown began between its is_connected (534) and its
\* emplace (552): is_connected refuses every call from the first line of a teardown
\* to the end of the next connect.
OnlyOvertakenGoWrong ==
  \A c \in Calls :
    spc[c] = "undefined" \/ (phase = "down" /\ c \in pending_messages)
      => c \in overtaken

=============================================================================
