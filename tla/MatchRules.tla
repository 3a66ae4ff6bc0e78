----------------------------- MODULE MatchRules -----------------------------
(***************************************************************************)
(* message_filter: the match rules that one filter has asked the bus for,  *)
(* and how requests and their replies travel.                              *)
(*                                                                         *)
(* The bus handles requests in the order they were sent.  What it sends is *)
(* queued for the dispatch thread, the only one that takes from the queue: *)
(* while the item at its head waits for a mutex, nothing behind it moves.  *)
(*                                                                         *)
(* The modules of the classes that use match rules extend this one.        *)
(***************************************************************************)
EXTENDS Naturals, Sequences, SequencesExt

CONSTANTS Threads, Rules

VARIABLES
  match_rules,       \* the rules the filter believes to be registered
  match_rule_mutex,  \* its owner, or "free"
  call,              \* the synchronous call each thread is in
  bus,               \* how often the bus has each rule registered
  wire,              \* the requests under way to the bus
  queue,             \* what the dispatch thread has to dispatch
  doubtful           \* history: the rules of which the filter may be wrong
ruleVars == <<match_rules, match_rule_mutex, call, bus, wire, queue, doubtful>>

Kinds == {"AddMatch", "RemoveMatch", "GetNameOwner"}
NoRule == "none"
\* Who a reply is for: a thread that waits, a reply callback, or nobody.
Receivers == Threads \cup {"async", "nobody"}
NoCall == [what |-> "AddMatch", rule |-> NoRule, at |-> "none", ok |-> FALSE]

ASSUME MatchRulesAssumption ==
  /\ Threads \cap {"async", "nobody", "free", "filter"} = {}
  /\ NoRule \notin Rules

\* "of" numbers the signals, where a class tells them apart; the reply to a
\* lookup made for a signal has its rule and number.
Request == [by : Receivers, what : Kinds, rule : Rules \cup {NoRule}, of : Nat, late : BOOLEAN]
Item == [to : Receivers \cup {"filter"}, what : Kinds \cup {"Signal"},
         rule : Rules \cup {NoRule}, of : Nat, ok : BOOLEAN]

RulesTypeOK ==
  /\ match_rules \subseteq Rules
  /\ match_rule_mutex \in Threads \cup {"free"}
  /\ call \in [Threads -> [what : Kinds, rule : Rules \cup {NoRule},
                           at : {"none", "ready", "asked", "replied", "done"}, ok : BOOLEAN]]
  /\ bus \in [Rules -> Nat]
  /\ wire \in Seq(Request) /\ queue \in Seq(Item)
  /\ doubtful \subseteq Rules

RulesInit ==
  /\ match_rules = {} /\ match_rule_mutex = "free"
  /\ call = [t \in Threads |-> NoCall]
  /\ bus = [r \in Rules |-> 0]
  /\ wire = <<>> /\ queue = <<>> /\ doubtful = {}

-----------------------------------------------------------------------------
(* The bus *)

SentFor(by, what, rule, of) ==
  Append(wire, [by |-> by, what |-> what, rule |-> rule, of |-> of, late |-> FALSE])
Sent(by, what, rule) == SentFor(by, what, rule, 0)
Reply(r, ok) == [to |-> r.by, what |-> r.what, rule |-> r.rule, of |-> r.of, ok |-> ok]

\* Mutant of Answered: the reply comes although the call timed out.
Answered_late(r, ok) == IF r.by = "nobody" THEN queue ELSE Append(queue, Reply(r, ok))

Answered(r, ok) == IF r.by = "nobody" \/ r.late THEN queue ELSE Append(queue, Reply(r, ok))

\* It may refuse to add a rule, and refuses to remove one that it does not have.
BusHandles ==
  /\ wire # <<>>
  /\ \E ok \in BOOLEAN :
       LET r == Head(wire)
       IN  /\ r.what = "RemoveMatch" => ok = (bus[r.rule] > 0)
           /\ bus' = CASE ok /\ r.what = "AddMatch" -> [bus EXCEPT ![r.rule] = @ + 1]
                       [] ok /\ r.what = "RemoveMatch" -> [bus EXCEPT ![r.rule] = @ - 1]
                       [] OTHER -> bus
           /\ queue' = Answered(r, ok)
           /\ doubtful' = IF r.by = "nobody" /\ ~ok THEN doubtful \cup {r.rule} ELSE doubtful
  /\ wire' = Tail(wire)
  /\ UNCHANGED <<match_rules, match_rule_mutex, call>>

\* The caller gets an error in place of the reply, whatever the bus does later.
TimesOut ==
  /\ \E k \in DOMAIN wire :
       /\ ~wire[k].late /\ wire[k].by # "nobody"
       /\ wire' = [wire EXCEPT ![k].late = TRUE]
       /\ queue' = Append(queue, Reply(wire[k], FALSE))
       /\ doubtful' = IF wire[k].what = "GetNameOwner" THEN doubtful ELSE doubtful \cup {wire[k].rule}
  /\ UNCHANGED <<match_rules, match_rule_mutex, call, bus>>

BusSignals(r, of) ==
  /\ bus[r] > 0
  /\ queue' = Append(queue, [to |-> "filter", what |-> "Signal", rule |-> r, of |-> of, ok |-> TRUE])
  /\ UNCHANGED <<match_rules, match_rule_mutex, call, bus, wire, doubtful>>

-----------------------------------------------------------------------------
(* message_filter *)

Updated(what, rule, ok) ==
  CASE ok /\ what = "AddMatch" -> match_rules \cup {rule}
    [] ok /\ what = "RemoveMatch" -> match_rules \ {rule}
    [] OTHER -> match_rules

\* A rule that is to be added is not there, one that is to be removed is.
Needed(what, rule) == IF what = "AddMatch" THEN rule \notin match_rules ELSE rule \in match_rules

\* A reply to it may still come.
UnderWay(what, rule) ==
  \/ \E k \in DOMAIN wire : wire[k].what = what /\ wire[k].rule = rule /\ ~wire[k].late
  \/ \E k \in DOMAIN queue : queue[k].what = what /\ queue[k].rule = rule

\* Two requests to add one rule register it twice.
Doubled(what, rule) == IF what = "AddMatch" /\ UnderWay(what, rule) THEN {rule} ELSE {}

\* Thread t begins add_match or remove_match, to be awaited.
Begun(t, what, rule) == [call EXCEPT ![t] = [what |-> what, rule |-> rule, at |-> "ready", ok |-> FALSE]]

\* Under the mutex, which is kept until the reply has come.  Sending may fail.
Ask(t) ==
  LET c == call[t]
  IN  /\ c.at = "ready" /\ c.what # "GetNameOwner" /\ match_rule_mutex = "free"
      /\ \/ /\ ~Needed(c.what, c.rule)
            /\ call' = [call EXCEPT ![t].at = "done", ![t].ok = TRUE]
            /\ UNCHANGED <<match_rule_mutex, wire, doubtful>>
         \/ /\ Needed(c.what, c.rule)
            /\ match_rule_mutex' = t
            /\ wire' = Sent(t, c.what, c.rule)
            /\ call' = [call EXCEPT ![t].at = "asked"]
            /\ doubtful' = doubtful \cup Doubled(c.what, c.rule)
         \/ /\ Needed(c.what, c.rule)
            /\ call' = [call EXCEPT ![t].at = "done", ![t].ok = FALSE]
            /\ UNCHANGED <<match_rule_mutex, wire, doubtful>>
  /\ UNCHANGED <<match_rules, bus, queue>>

\* The dispatch thread hands a reply to the thread that waits for it.  What the
\* thread does then is its own step, which the wakeup may fail to bring about
\* (Registrations; in NameWatch, a thread that does not go on).
OnSyncReply ==
  /\ queue # <<>> /\ Head(queue).to \in Threads
  /\ call' = [call EXCEPT ![Head(queue).to].at = "replied", ![Head(queue).to].ok = Head(queue).ok]
  /\ queue' = Tail(queue)
  /\ UNCHANGED <<match_rules, match_rule_mutex, bus, wire, doubtful>>

\* Mutant of Finish: an error is not looked at.
Finish_ignores_errors(t) ==
  /\ call[t].at = "replied" /\ call[t].what # "GetNameOwner"
  /\ match_rules' = Updated(call[t].what, call[t].rule, TRUE)
  /\ match_rule_mutex' = "free"
  /\ call' = [call EXCEPT ![t].at = "done"]
  /\ UNCHANGED <<bus, wire, queue, doubtful>>

\* Mutant of Finish: the mutex is kept.
Finish_keeps_mutex(t) ==
  /\ call[t].at = "replied" /\ call[t].what # "GetNameOwner"
  /\ match_rules' = Updated(call[t].what, call[t].rule, call[t].ok)
  /\ UNCHANGED match_rule_mutex
  /\ call' = [call EXCEPT ![t].at = "done"]
  /\ UNCHANGED <<bus, wire, queue, doubtful>>

Finish(t) ==
  /\ call[t].at = "replied" /\ call[t].what # "GetNameOwner"
  /\ match_rules' = Updated(call[t].what, call[t].rule, call[t].ok)
  /\ match_rule_mutex' = "free"
  /\ call' = [call EXCEPT ![t].at = "done"]
  /\ UNCHANGED <<bus, wire, queue, doubtful>>

\* The asynchronous forms, with a callback that gets the reply ...
AskAsync(what, rule) ==
  /\ match_rule_mutex = "free" /\ Needed(what, rule)
  /\ wire' = Sent("async", what, rule)
  /\ doubtful' = doubtful \cup Doubled(what, rule)
  /\ UNCHANGED <<match_rules, match_rule_mutex, call, bus, queue>>

\* ... which the dispatch thread runs, and needs the mutex for.
OnAsyncReply ==
  /\ queue # <<>> /\ Head(queue).to = "async" /\ Head(queue).what # "GetNameOwner"
  /\ match_rule_mutex = "free"
  /\ match_rules' = Updated(Head(queue).what, Head(queue).rule, Head(queue).ok)
  /\ queue' = Tail(queue)
  /\ UNCHANGED <<match_rule_mutex, call, bus, wire, doubtful>>

\* ... and without one.  The rule is added or removed before it is known
\* whether the request can be sent.
AskQuietly(what, rule, sent) ==
  /\ match_rule_mutex = "free"
  /\ match_rules' = Updated(what, rule, TRUE)
  /\ wire' = IF Needed(what, rule) /\ sent THEN Sent("nobody", what, rule) ELSE wire
  /\ doubtful' = IF Needed(what, rule) /\ ~sent THEN doubtful \cup {rule} ELSE doubtful
  /\ UNCHANGED <<match_rule_mutex, call, bus, queue>>

-----------------------------------------------------------------------------

\* No request or reply is under way, nor one that came being seen to.
Settled ==
  /\ wire = <<>>
  /\ \A k \in DOMAIN queue : queue[k].what = "Signal"
  /\ \A t \in Threads : call[t].at # "replied"

AskedBy(t) == {k \in DOMAIN wire : wire[k].by = t /\ ~wire[k].late}
AnswersTo(t) == {k \in DOMAIN queue : queue[k].to = t}

ReplyIsComingTo(t) ==
  /\ Cardinality(AskedBy(t)) + Cardinality(AnswersTo(t)) = IF call[t].at = "asked" THEN 1 ELSE 0
  /\ \A k \in AskedBy(t) : wire[k].what = call[t].what /\ wire[k].rule = call[t].rule
  /\ \A k \in AnswersTo(t) : queue[k].what = call[t].what /\ queue[k].rule = call[t].rule

\* Each thread that waits for a reply has one thing under way that will wake it,
\* its request or the reply to what it asked, and one that does not wait has
\* none: whether the bus answers, refuses, or is too late, no thread is left
\* waiting for nothing and no second reply comes (message_filter.cpp:106-202).
ReplyIsComing == \A t \in Threads : ReplyIsComingTo(t)

\* Once no request is under way, the bus has exactly the rules that the filter
\* believes it has, each once; except for those of which the filter cannot
\* know, because a request for them timed out, was not answered or not sent, or
\* two to add them were under way together (add_match, 106-140).
RulesAgree ==
  Settled => \A r \in Rules \ doubtful : bus[r] = IF r \in match_rules THEN 1 ELSE 0

\* The dispatch thread waits for a mutex whose owner waits for a reply that is
\* in the queue or has yet to come: neither will ever go on.
StuckOn(mutex) == mutex \in Threads /\ call[mutex].at = "asked"
=============================================================================
