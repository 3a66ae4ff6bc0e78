---------------------------- MODULE Registrations ----------------------------
(***************************************************************************)
(* Callbacks for signals: the classes built on message_filter keep a table *)
(* of callbacks under a mutex of their own, and a match rule for each.     *)
(*                                                                         *)
(*   "filter"      message_filter itself, used by the program              *)
(*   "properties"  org_freedesktop_DBus_Properties                         *)
(*   "manager"     org_freedesktop_DBus_ObjectManager                      *)
(*   "proxy"       object_proxy                                            *)
(*                                                                         *)
(* The mutex is kept during the whole operation, which waits for replies   *)
(* of the bus; on_signal needs it on the dispatch thread.  A callback is   *)
(* known by its slot.  In a proxy the callback for changed properties and  *)
(* the callback for the signal PropertiesChanged are two slots with the    *)
(* same rule; the rule of "added" depends on the path of the object        *)
(* manager, its root: "added_top" is the rule for the path "/",            *)
(* "added_below" for another.  ("removed" is the same on other variables.) *)
(* In org_freedesktop_DBus_Properties "changed" and "elsewhere" are the    *)
(* rules for two objects.                                                  *)
(***************************************************************************)
EXTENDS MatchRules, FiniteSets

CONSTANTS KindsUsed,   \* the classes a run is about
          FilterRules, \* the rules a program adds itself
          MaxCalls,    \* bound: the operations begun, by class
          MaxSignals   \* bound: the signals in the queue

VARIABLES
  kind,
  cb_mutex,  \* of the table, its owner or "free"
  table,     \* the slots that have a callback
  root,      \* the root of "added" in a proxy
  unique,    \* a proxy knows the unique name of its service
  op,        \* what each thread is doing
  calls,     \* the operations begun
  overslept  \* those asleep for ever although what they wait for is there
vars == <<ruleVars, kind, cb_mutex, table, root, unique, op, calls, overslept>>
tableVars == <<kind, cb_mutex, table, root, unique, op, calls>>

Roots == {"added_top", "added_below"}
Slots == CASE kind = "properties" -> {"changed", "elsewhere"}
           [] kind = "manager" -> {"added_top", "removed"}
           [] kind = "proxy" -> {"signal", "changed", "added"}
           [] OTHER -> {}

ASSUME RegistrationsAssumption ==
  /\ KindsUsed \subseteq {"filter", "properties", "manager", "proxy"}
  /\ FilterRules \subseteq Rules
  /\ MaxCalls \in [KindsUsed -> Nat]
  /\ Rules = {"changed", "elsewhere", "removed"} \cup Roots
  /\ "dispatcher" \notin Threads

RuleOf(slot, at) == CASE slot = "signal" -> "changed" [] slot = "added" -> at [] OTHER -> slot

\* An operation: the requests that it has still to make, whether the last of
\* them succeeded, and the table and root it leaves in either case.
NoOp == [at |-> "idle", slot |-> NoRule, on |-> FALSE, to |-> "added_top", todo |-> <<>>,
         done |-> {}, failed |-> {}]

Sleepers == Threads \cup {"dispatcher"}

AllSlots == {"changed", "elsewhere", "removed", "signal", "added", "added_top"}
TypeOK ==
  /\ RulesTypeOK
  /\ kind \in KindsUsed
  /\ cb_mutex \in Threads \cup {"free"}
  /\ table \subseteq Slots /\ root \in Roots /\ unique \in BOOLEAN
  /\ \A t \in Threads :
       /\ op[t].at \in {"idle", "lookup", "enter", "asks"}
       /\ op[t].todo \in Seq(Kinds \X Rules)
       /\ op[t].done \cup op[t].failed \subseteq AllSlots
  /\ calls \in 0..MaxCalls[kind]
  /\ overslept \subseteq Sleepers
  /\ \A t \in Threads :
       /\ cb_mutex = t => op[t].at # "idle"
       /\ match_rule_mutex = t <=> call[t].what # "GetNameOwner" /\ call[t].at \in {"asked", "replied"}

Init ==
  /\ RulesInit
  /\ kind \in KindsUsed
  /\ cb_mutex = "free" /\ table = {} /\ root = "added_top"
  /\ unique \in (IF kind = "proxy" THEN BOOLEAN ELSE {TRUE})
  /\ op = [t \in Threads |-> NoOp]
  /\ calls = 0 /\ overslept = {}

-----------------------------------------------------------------------------
(* What the functions do with the table, by class: the requests, in order,  *)
(* the table while they are under way, and the table they leave.            *)

Plan(todo, during, done, failed) == [todo |-> todo, during |-> during, done |-> done, failed |-> failed]
AsItIs == Plan(<<>>, table, table, table)
With(slot) == table \cup {slot}
Without(slot) == table \ {slot}
Add(slot) == <<<<"AddMatch", RuleOf(slot, root)>>>>
Drop(slot) == <<<<"RemoveMatch", RuleOf(slot, root)>>>>

\* Mutant of properties_changed: the callback stays if the rule is refused.
properties_changed_keeps_refused(slot, on) ==
  CASE on /\ slot \notin table -> Plan(Add(slot), With(slot), With(slot), With(slot))
    [] ~on /\ slot \in table -> Plan(Drop(slot), Without(slot), Without(slot), Without(slot))
    [] OTHER -> AsItIs

\* The callback is put in first and taken out if the rule is refused.
properties_changed(slot, on) ==
  CASE on /\ slot \notin table -> Plan(Add(slot), With(slot), With(slot), Without(slot))
    [] ~on /\ slot \in table -> Plan(Drop(slot), Without(slot), Without(slot), Without(slot))
    [] OTHER -> AsItIs

interfaces(slot, on) ==
  CASE on /\ slot \notin table -> Plan(Add(slot), With(slot), With(slot), Without(slot))
    [] ~on /\ slot \in table -> Plan(Drop(slot), Without(slot), Without(slot), Without(slot))
    [] OTHER -> AsItIs
signal(slot, on) ==
  CASE on /\ slot \notin table -> Plan(Add(slot), With(slot), With(slot), Without(slot))
    [] ~on /\ slot \in table -> Plan(Drop(slot), Without(slot), Without(slot), Without(slot))
    [] OTHER -> AsItIs

\* The callback is put in when the rule is there, and taken out last.
proxy_properties(slot, on) ==
  CASE on /\ slot \notin table -> Plan(Add(slot), table, With(slot), table)
    [] ~on /\ slot \in table -> Plan(Drop(slot), table, Without(slot), Without(slot))
    [] OTHER -> AsItIs

\* With another root, the new rule is added before the old one is removed.
proxy_interfaces(slot, on, to) ==
  LET add == <<"AddMatch", RuleOf(slot, to)>>
      drop == <<"RemoveMatch", RuleOf(slot, root)>>
  IN  CASE on /\ slot \notin table -> Plan(<<add>>, table, With(slot), table)
        [] on /\ slot \in table /\ to # root -> Plan(<<add, drop>>, table, table, table)
        [] ~on /\ slot \in table -> Plan(<<drop>>, table, Without(slot), Without(slot))
        [] OTHER -> AsItIs

PlanOf(o) ==
  CASE kind = "properties" -> properties_changed(o.slot, o.on)
    [] kind = "manager" -> interfaces(o.slot, o.on)
    [] kind = "proxy" /\ o.slot = "signal" -> signal(o.slot, o.on)
    [] kind = "proxy" /\ o.slot = "changed" -> proxy_properties(o.slot, o.on)
    [] kind = "proxy" /\ o.slot = "added" -> proxy_interfaces(o.slot, o.on, o.to)

-----------------------------------------------------------------------------
(* The steps of an operation *)

Free(t) == cb_mutex \in {"free", t}

\* A thread calls set_..._callback.  A proxy that does not know the unique name
\* of its service asks for it; the other classes do so, each time, for a name
\* that is not unique itself.  A root is given for "added".
Call(t, slot, on, to, named) ==
  /\ slot \in Slots /\ (to = "added_top" \/ (slot = "added" /\ on))
  /\ kind = "proxy" => named = IF unique THEN "enter" ELSE "lookup"
  /\ op[t].at = "idle" /\ calls < MaxCalls[kind]
  /\ calls' = calls + 1
  /\ op' = [op EXCEPT ![t] = [NoOp EXCEPT !.slot = slot, !.on = on, !.to = to, !.at = named]]
  /\ UNCHANGED <<ruleVars, kind, cb_mutex, table, root, unique, overslept>>

\* A proxy asks with its mutex, except in set_signal_callback.
Lookup(t) ==
  /\ op[t].at = "lookup" /\ call[t].at = "none"
  /\ IF kind = "proxy" /\ op[t].slot # "signal" THEN Free(t) /\ cb_mutex' = t ELSE UNCHANGED cb_mutex
  /\ wire' = Sent(t, "GetNameOwner", NoRule)
  /\ call' = [call EXCEPT ![t] = [what |-> "GetNameOwner", rule |-> NoRule, at |-> "asked", ok |-> FALSE]]
  /\ UNCHANGED <<match_rules, match_rule_mutex, bus, queue, doubtful, kind, table, root, unique, op, calls,
                 overslept>>

LookedUp(t) ==
  /\ op[t].at = "lookup" /\ call[t].at = "replied" /\ t \notin overslept
  /\ unique' = (unique \/ call[t].ok)
  /\ op' = [op EXCEPT ![t] = IF call[t].ok THEN [@ EXCEPT !.at = "enter"] ELSE NoOp]
  /\ cb_mutex' = IF cb_mutex = t /\ ~call[t].ok THEN "free" ELSE cb_mutex
  /\ call' = [call EXCEPT ![t] = NoCall]
  /\ UNCHANGED <<match_rules, match_rule_mutex, bus, wire, queue, doubtful, kind, table, root, calls, overslept>>

\* A rule that another callback needs too is removed with this one.
Robbed(slot, plan) ==
  {plan.todo[k][2] : k \in {j \in DOMAIN plan.todo : plan.todo[j][1] = "RemoveMatch"}}
    \cap {RuleOf(s, root) : s \in table \ {slot}}

\* The thread makes the requests of a plan, holding the mutex.
Carry(t, slot, plan) ==
  /\ op' = [op EXCEPT ![t] = [@ EXCEPT !.at = "asks", !.slot = slot, !.todo = Tail(plan.todo),
                                       !.done = plan.done, !.failed = plan.failed]]
  /\ call' = Begun(t, plan.todo[1][1], plan.todo[1][2])
  /\ cb_mutex' = t
  /\ doubtful' = doubtful \cup Robbed(slot, plan)

Enter(t) ==
  /\ op[t].at = "enter" /\ Free(t)
  /\ LET plan == PlanOf(op[t])
     IN  /\ table' = plan.during
         /\ IF plan.todo # <<>> THEN Carry(t, op[t].slot, plan)
            ELSE op' = [op EXCEPT ![t] = NoOp] /\ cb_mutex' = "free" /\ UNCHANGED <<call, doubtful>>
  /\ UNCHANGED <<match_rules, match_rule_mutex, bus, wire, queue, kind, root, unique, calls, overslept>>

\* clear_signal_callbacks, in a proxy
ClearSignals(t) ==
  /\ kind = "proxy" /\ op[t].at = "idle" /\ calls < MaxCalls[kind] /\ cb_mutex = "free" /\ "signal" \in table
  /\ calls' = calls + 1
  /\ Carry(t, "signal", Plan(Drop("signal"), table, Without("signal"), Without("signal")))
  /\ UNCHANGED <<match_rules, match_rule_mutex, bus, wire, queue, kind, table, root, unique, overslept>>

\* add_match and remove_match of message_filter, awaited.
CallFilter(t, what, rule) ==
  /\ kind = "filter" /\ op[t].at = "idle" /\ calls < MaxCalls[kind]
  /\ calls' = calls + 1
  /\ op' = [op EXCEPT ![t].at = "asks"]
  /\ call' = Begun(t, what, rule)
  /\ UNCHANGED <<match_rules, match_rule_mutex, bus, wire, queue, doubtful, kind, cb_mutex, table, root, unique,
                 overslept>>
CallAsync(what, rule) ==
  /\ kind = "filter" /\ calls < MaxCalls[kind]
  /\ AskAsync(what, rule)
  /\ calls' = calls + 1
  /\ UNCHANGED <<kind, cb_mutex, table, root, unique, op, overslept>>

\* Mutant of RequestDone: the mutex is kept.
RequestDone_keeps_mutex(t) ==
  LET o == op[t]
  IN  /\ o.at = "asks" /\ call[t].at = "done"
      /\ IF call[t].ok /\ o.todo # <<>>
         THEN /\ call' = Begun(t, o.todo[1][1], o.todo[1][2])
              /\ op' = [op EXCEPT ![t].todo = Tail(@), ![t].failed = o.done]
              /\ root' = o.to
              /\ UNCHANGED <<table, cb_mutex>>
         ELSE /\ call' = [call EXCEPT ![t] = NoCall]
              /\ op' = [op EXCEPT ![t] = NoOp]
              /\ table' = IF kind = "filter" THEN table ELSE IF call[t].ok THEN o.done ELSE o.failed
              /\ root' = IF call[t].ok /\ o.slot = "added" /\ o.on THEN o.to ELSE root
              /\ UNCHANGED cb_mutex
      /\ UNCHANGED <<match_rules, match_rule_mutex, bus, wire, queue, doubtful, kind, unique, calls, overslept>>

\* The first request decides: if the rule was refused, there is no second, and
\* the result of a second one is ignored.
RequestDone(t) ==
  LET o == op[t]
  IN  /\ o.at = "asks" /\ call[t].at = "done"
      /\ IF call[t].ok /\ o.todo # <<>>
         THEN /\ call' = Begun(t, o.todo[1][1], o.todo[1][2])
              /\ op' = [op EXCEPT ![t].todo = Tail(@), ![t].failed = o.done]
              /\ root' = o.to
              /\ UNCHANGED <<table, cb_mutex>>
         ELSE /\ call' = [call EXCEPT ![t] = NoCall]
              /\ op' = [op EXCEPT ![t] = NoOp]
              /\ table' = IF kind = "filter" THEN table ELSE IF call[t].ok THEN o.done ELSE o.failed
              /\ root' = IF call[t].ok /\ o.slot = "added" /\ o.on THEN o.to ELSE root
              /\ cb_mutex' = IF cb_mutex = t THEN "free" ELSE cb_mutex
      /\ UNCHANGED <<match_rules, match_rule_mutex, bus, wire, queue, doubtful, kind, unique, calls, overslept>>

\* on_signal: the callback is looked up under the mutex.
OnSignal ==
  /\ queue # <<>> /\ Head(queue).what = "Signal"
  /\ cb_mutex = "free"
  /\ queue' = Tail(queue)
  /\ UNCHANGED <<match_rules, match_rule_mutex, call, bus, wire, doubtful, tableVars, overslept>>

-----------------------------------------------------------------------------
(* The two wakeups that take no mutex may be lost: what comes for an empty *)
(* queue does not wake the dispatch thread if it is about to sleep, and a  *)
(* reply does not wake the thread that is about to wait for it.  Whoever   *)
(* overslept does nothing more; one that something else wakes after all is *)
(* one that was late.                                                      *)

MayOversleep(who) == overslept' = overslept \/ overslept' = overslept \cup {who}
Arrives == IF queue = <<>> /\ queue' # <<>> THEN MayOversleep("dispatcher") ELSE UNCHANGED overslept

Signal(r) ==
  /\ Cardinality({k \in DOMAIN queue : queue[k].what = "Signal"}) < MaxSignals
  /\ BusSignals(r, 0) /\ Arrives /\ UNCHANGED tableVars

Dispatch ==
  /\ "dispatcher" \notin overslept
  /\ \/ OnSignal
     \/ OnSyncReply /\ MayOversleep(Head(queue).to) /\ UNCHANGED tableVars
     \/ OnAsyncReply /\ UNCHANGED <<tableVars, overslept>>

Step(t) ==
  \/ Lookup(t) \/ LookedUp(t) \/ Enter(t) \/ RequestDone(t)
  \/ Ask(t) /\ UNCHANGED <<tableVars, overslept>>
  \/ Finish(t) /\ t \notin overslept /\ UNCHANGED <<tableVars, overslept>>

Bus == BusHandles /\ Arrives /\ UNCHANGED tableVars

Next ==
  \/ \E t \in Threads :
       \/ Step(t) \/ ClearSignals(t)
       \/ (\E slot \in Slots, on \in BOOLEAN, to \in Roots, named \in {"enter", "lookup"} :
            Call(t, slot, on, to, named))
       \/ (\E what \in {"AddMatch", "RemoveMatch"}, rule \in FilterRules : CallFilter(t, what, rule))
  \/ (\E what \in {"AddMatch", "RemoveMatch"}, rule \in FilterRules : CallAsync(what, rule))
  \/ Dispatch \/ Bus
  \/ TimesOut /\ Arrives /\ UNCHANGED tableVars
  \/ \E r \in Rules : Signal(r)

\* The threads, the dispatch thread and the bus do what they can do; a mutex
\* that is free again and again is given to each that waits for it.
Spec == Init /\ [][Next]_vars /\ WF_vars(Dispatch) /\ WF_vars(Bus) /\ \A t \in Threads : SF_vars(Step(t))

-----------------------------------------------------------------------------

\* While nobody has the mutex, every callback in the table has its match rule
\* among those of the filter (and with the bus when nothing is under way, by
\* RulesAgree): except rules whose request timed out, and a rule that two
\* callbacks of a proxy shared when one of them was removed
\* (object_proxy.cpp:421, 497).  The converse is not so: a rule that could not
\* be removed stays without its callback.
CallbackHasRule ==
  (kind # "filter" /\ cb_mutex = "free") =>
    \A slot \in table : RuleOf(slot, root) \in match_rules \cup doubtful

\* The dispatch thread waits for ever for the mutex that it needs for the first
\* item of its queue: a signal came, or an asynchronous request was answered,
\* while a thread waits for a reply under that mutex.
Stuck ==
  /\ queue # <<>>
  /\ \/ Head(queue).what = "Signal" /\ StuckOn(cb_mutex)
     \/ Head(queue).to = "async" /\ StuckOn(match_rule_mutex)

\* Thread t waits for ever because a wakeup was lost: its own, that of the
\* dispatch thread, or that of a thread which has a mutex.
Forgotten(t) == {t, "dispatcher", cb_mutex, match_rule_mutex} \cap overslept # {}

\* Every call of a function of the classes ends: but for that, and for the two
\* wakeups that send_and_wait (connection.cpp:583-598) and msg_dispatcher (1376)
\* can lose.
RegistrationEnds ==
  \A t \in Threads : op[t].at # "idle" ~> (op[t].at = "idle" \/ Stuck \/ Forgotten(t))

\* A call ends: it "blocks the calling thread until the reply or timeout"
\* (connection.hpp:126-128).  Lost wakeups apart, it need not.
RegistrationReturns ==
  \A t \in Threads : op[t].at # "idle" ~> (op[t].at = "idle" \/ Forgotten(t))
=============================================================================
