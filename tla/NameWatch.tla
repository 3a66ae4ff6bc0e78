----------------------------- MODULE NameWatch -----------------------------
(***************************************************************************)
(* A connection watches the names of the bus: it is a message_filter for   *)
(* the signals of org.freedesktop.DBus, with one callback for each, and    *)
(* takes them only from the owner of that name, whom it has to look up.    *)
(*                                                                         *)
(* A callback is known by its rule.  All signals here are those of the bus *)
(* itself; on_signal gives others back at once.                            *)
(***************************************************************************)
EXTENDS MatchRules, FiniteSets

CONSTANTS Watched,     \* the rules of the name callbacks
          OtherRules,  \* rules that the program adds to the connection itself
          MaxCalls, MaxSignals, MaxDisconnects  \* bounds: how often each happens

VARIABLES
  connected,
  callbacks,  \* the rules whose callback is set
  cb_mutex,   \* its owner or "free"
  unique,     \* unique_bus_name is not empty
  handled,    \* the signals whose callback was called, in order
  op,         \* what each thread is doing
  signals, looked_up,  \* history: how many came, and which waited for a lookup
  calls, disconnects   \* how often they happened
watchVars == <<connected, callbacks, cb_mutex, unique, handled, op, signals, looked_up, calls, disconnects>>
vars == <<ruleVars, watchVars>>

ASSUME NameWatchAssumption ==
  /\ Watched \cap OtherRules = {} /\ Rules = Watched \cup OtherRules
  /\ {MaxCalls, MaxSignals, MaxDisconnects} \subseteq Nat

NoOp == [at |-> "idle", rule |-> NoRule, on |-> FALSE, ok |-> TRUE]
Idle(t) == op[t] = NoOp
What(on) == IF on THEN "AddMatch" ELSE "RemoveMatch"

\* The two mutexes are held by threads that are where they are held.
TypeOK ==
  /\ RulesTypeOK
  /\ {connected, unique} \subseteq BOOLEAN
  /\ callbacks \subseteq Watched
  /\ handled \in Seq(1..signals) /\ looked_up \subseteq 1..signals
  /\ op \in [Threads -> [at : {"idle", "enter", "ask", "assign", "match"}, rule : Rules \cup {NoRule},
                         on : BOOLEAN, ok : BOOLEAN]]
  /\ signals \in 0..MaxSignals /\ calls \in 0..MaxCalls /\ disconnects \in 0..MaxDisconnects
  /\ \A t \in Threads : cb_mutex = t <=> op[t].at \in {"ask", "assign"}
  /\ \A t \in Threads : match_rule_mutex = t => op[t].at = "match"

Init ==
  /\ RulesInit
  /\ connected = TRUE /\ callbacks = {} /\ cb_mutex = "free" /\ unique = FALSE
  /\ handled = <<>> /\ op = [t \in Threads |-> NoOp]
  /\ signals = 0 /\ looked_up = {} /\ calls = 0 /\ disconnects = 0

-----------------------------------------------------------------------------
(* set_name_owner_changed_cb, set_name_lost_cb and set_name_acquired_cb *)

Begin(t, at, rule, on) ==
  /\ Idle(t) /\ connected /\ calls < MaxCalls
  /\ op' = [op EXCEPT ![t] = [at |-> at, rule |-> rule, on |-> on, ok |-> TRUE]]
  /\ calls' = calls + 1

SetCallback(t, rule, on) ==
  /\ Begin(t, "enter", rule, on)
  /\ UNCHANGED <<ruleVars, connected, callbacks, cb_mutex, unique, handled, signals, looked_up, disconnects>>

\* Under cb_mutex: a rule is needed only with the first callback, and no more
\* without one.
Enter(t) ==
  /\ op[t].at = "enter" /\ cb_mutex = "free"
  /\ cb_mutex' = t
  /\ op' = [op EXCEPT ![t].at = IF op[t].on # (op[t].rule \in callbacks) THEN "ask" ELSE "assign"]
  /\ UNCHANGED <<ruleVars, connected, callbacks, unique, handled, signals, looked_up, calls, disconnects>>

\* add_match or remove_match without a callback.
AskForRule(t) ==
  LET what == What(op[t].on)
      rule == op[t].rule
  IN  /\ op[t].at = "ask"
      /\ (\/ ~connected /\ op' = [op EXCEPT ![t].at = "assign", ![t].ok = FALSE] /\ UNCHANGED ruleVars
          \/ \E sent \in BOOLEAN :
               /\ sent => connected
               /\ AskQuietly(what, rule, sent)
               /\ op' = [op EXCEPT ![t].at = "assign", ![t].ok = ~Needed(what, rule) \/ sent])
      /\ UNCHANGED <<connected, callbacks, cb_mutex, unique, handled, signals, looked_up, calls, disconnects>>

\* Mutant of Assign: the callback is set although its rule was not asked for.
Assign_anyway(t) ==
  /\ op[t].at = "assign"
  /\ callbacks' = IF op[t].on THEN callbacks \cup {op[t].rule} ELSE callbacks
  /\ cb_mutex' = "free"
  /\ op' = [op EXCEPT ![t] = NoOp]
  /\ UNCHANGED <<ruleVars, connected, unique, handled, signals, looked_up, calls, disconnects>>

\* Mutant of Assign: cb_mutex is kept.
Assign_keeps_mutex(t) ==
  /\ op[t].at = "assign"
  /\ callbacks' = CASE op[t].ok /\ op[t].on -> callbacks \cup {op[t].rule}
                    [] op[t].ok /\ ~op[t].on -> callbacks \ {op[t].rule}
                    [] OTHER -> callbacks
  /\ op' = [op EXCEPT ![t] = NoOp]
  /\ UNCHANGED <<ruleVars, connected, cb_mutex, unique, handled, signals, looked_up, calls, disconnects>>

Assign(t) ==
  /\ op[t].at = "assign"
  /\ callbacks' = CASE op[t].ok /\ op[t].on -> callbacks \cup {op[t].rule}
                    [] op[t].ok /\ ~op[t].on -> callbacks \ {op[t].rule}
                    [] OTHER -> callbacks
  /\ cb_mutex' = "free"
  /\ op' = [op EXCEPT ![t] = NoOp]
  /\ UNCHANGED <<ruleVars, connected, unique, handled, signals, looked_up, calls, disconnects>>

-----------------------------------------------------------------------------
(* add_match and remove_match of the connection, awaited *)

CallMatch(t, rule, on) ==
  /\ Begin(t, "match", rule, on)
  /\ call' = Begun(t, What(on), rule)
  /\ UNCHANGED <<match_rules, match_rule_mutex, bus, wire, queue, doubtful, connected, callbacks,
                 cb_mutex, unique, handled, signals, looked_up, disconnects>>

AskMatch(t) ==
  /\ Ask(t) /\ (call'[t].at = "asked" => connected)
  /\ UNCHANGED watchVars

MatchDone(t) ==
  /\ op[t].at = "match" /\ call[t].at = "done"
  /\ call' = [call EXCEPT ![t] = NoCall] /\ op' = [op EXCEPT ![t] = NoOp]
  /\ UNCHANGED <<match_rules, match_rule_mutex, bus, wire, queue, doubtful, connected, callbacks,
                 cb_mutex, unique, handled, signals, looked_up, calls, disconnects>>

-----------------------------------------------------------------------------
(* The dispatch thread *)

\* on_signal_impl: the callback, if it is still set.
HandledBy(item) == IF item.rule \in callbacks THEN Append(handled, item.of) ELSE handled

\* Mutant of on_signal: a signal is looked up and yet handled at once.
on_signal_does_not_wait ==
  /\ queue # <<>> /\ Head(queue).what = "Signal" /\ cb_mutex = "free"
  /\ \/ /\ callbacks = {}
        /\ UNCHANGED <<wire, handled, looked_up>>
     \/ /\ callbacks # {} /\ ~unique /\ connected
        /\ wire' = SentFor("async", "GetNameOwner", Head(queue).rule, Head(queue).of)
        /\ looked_up' = looked_up \cup {Head(queue).of}
        /\ handled' = HandledBy(Head(queue))
     \/ /\ callbacks # {} /\ unique
        /\ handled' = HandledBy(Head(queue))
        /\ UNCHANGED <<wire, looked_up>>
  /\ queue' = Tail(queue)
  /\ UNCHANGED <<match_rules, match_rule_mutex, call, bus, doubtful, connected, callbacks, cb_mutex,
                 unique, op, signals, calls, disconnects>>

\* A signal waits for the lookup that is made for it, if that can be sent.
on_signal ==
  /\ queue # <<>> /\ Head(queue).what = "Signal" /\ cb_mutex = "free"
  /\ \/ /\ callbacks = {}
        /\ UNCHANGED <<wire, handled, looked_up>>
     \/ /\ callbacks # {} /\ ~unique /\ connected
        /\ wire' = SentFor("async", "GetNameOwner", Head(queue).rule, Head(queue).of)
        /\ looked_up' = looked_up \cup {Head(queue).of}
        /\ UNCHANGED handled
     \/ /\ callbacks # {} /\ ~unique
        /\ UNCHANGED <<wire, handled, looked_up>>
     \/ /\ callbacks # {} /\ unique
        /\ handled' = HandledBy(Head(queue))
        /\ UNCHANGED <<wire, looked_up>>
  /\ queue' = Tail(queue)
  /\ UNCHANGED <<match_rules, match_rule_mutex, call, bus, doubtful, connected, callbacks, cb_mutex,
                 unique, op, signals, calls, disconnects>>

\* The reply to a lookup: an error leaves the unique name empty, known before or
\* not, and no signal comes from nobody.
OnOwner ==
  /\ queue # <<>> /\ Head(queue).to = "async" /\ cb_mutex = "free"
  /\ unique' = Head(queue).ok
  /\ handled' = IF Head(queue).ok THEN HandledBy(Head(queue)) ELSE handled
  /\ queue' = Tail(queue)
  /\ UNCHANGED <<match_rules, match_rule_mutex, call, bus, wire, doubtful, connected, callbacks,
                 cb_mutex, op, signals, looked_up, calls, disconnects>>

-----------------------------------------------------------------------------
(* disconnect, which drops what is under way and resets the callbacks       *)
(* without cb_mutex, and connect.  match_rules stays; the bus forgets.  A   *)
(* thread that waits for a reply waits on, with match_rule_mutex; one that  *)
(* has it goes on, and may still put a rule into match_rules.               *)

Disconnect ==
  /\ connected /\ disconnects < MaxDisconnects
  /\ connected' = FALSE /\ callbacks' = {} /\ unique' = FALSE
  /\ bus' = [r \in Rules |-> 0] /\ wire' = <<>> /\ queue' = <<>>
  /\ doubtful' = doubtful \cup match_rules
                         \cup {r \in Rules : \E t \in Threads : call[t].at = "replied" /\ call[t].rule = r}
  /\ disconnects' = disconnects + 1
  /\ UNCHANGED <<match_rules, match_rule_mutex, call, cb_mutex, handled, op, signals, looked_up, calls>>

Connect ==
  /\ ~connected /\ connected' = TRUE
  /\ UNCHANGED <<ruleVars, callbacks, cb_mutex, unique, handled, op, signals, looked_up, calls, disconnects>>

Signal(r) ==
  /\ signals < MaxSignals /\ signals' = signals + 1
  /\ BusSignals(r, signals + 1)
  /\ UNCHANGED <<connected, callbacks, cb_mutex, unique, handled, op, looked_up, calls, disconnects>>

Next ==
  \/ \E t \in Threads :
       \/ Enter(t) \/ AskForRule(t) \/ Assign(t) \/ AskMatch(t) \/ MatchDone(t)
       \/ Finish(t) /\ UNCHANGED watchVars
       \/ (\E rule \in Watched, on \in BOOLEAN : SetCallback(t, rule, on))
       \/ (\E rule \in OtherRules, on \in BOOLEAN : CallMatch(t, rule, on))
  \/ on_signal \/ OnOwner
  \/ OnSyncReply /\ UNCHANGED watchVars
  \/ BusHandles /\ UNCHANGED watchVars
  \/ TimesOut /\ UNCHANGED watchVars
  \/ Disconnect \/ Connect
  \/ \E r \in Watched : Signal(r)

Spec == Init /\ [][Next]_vars

-----------------------------------------------------------------------------

\* Signals reach their callbacks in the order in which they came and once each,
\* but for one case: a signal that waited for a lookup may be overtaken by
\* later ones that did not have to.
InOrder ==
  \A i, j \in DOMAIN handled : i < j =>
    \/ handled[i] < handled[j]
    \/ handled[i] > handled[j] /\ handled[j] \in looked_up /\ handled[i] \notin looked_up

\* A thread waits for a reply that is not under way.
LeftBehind(t) == call[t].at = "asked" /\ AskedBy(t) = {} /\ AnswersTo(t) = {}

\* When nothing is under way the bus has the rule of each callback that is set
\* and of no other; except for rules that could not be sent, were refused
\* unseen, or were there at a disconnect, which match_rules does not forget.
WatchHasRule ==
  (Settled /\ cb_mutex = "free") =>
    \A r \in Watched \ doubtful : bus[r] = IF r \in callbacks THEN 1 ELSE 0
=============================================================================
