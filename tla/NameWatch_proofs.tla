--------------------------- MODULE NameWatch_proofs ---------------------------
(***************************************************************************)
(* What holds of a connection that watches names, for any threads, rules   *)
(* and bounds: its types and mutexes, that the bus has the rule of each    *)
(* callback, and the order in which signals reach them.                    *)
(***************************************************************************)
EXTENDS NameWatch, FiniteSetTheorems, TLAPS

-----------------------------------------------------------------------------
(* Sequences, and what is put into them. *)

LEMMA TailFacts ==
  ASSUME NEW S, NEW s \in Seq(S), s # <<>>
  PROVE  /\ Tail(s) \in Seq(S) /\ Len(s) \in Nat /\ Len(s) >= 1
         /\ Len(Tail(s)) = Len(s) - 1
         /\ Head(s) = s[1] /\ s[1] \in S
         /\ \A i \in 1..Len(s) - 1 : i + 1 \in 1..Len(s) /\ Tail(s)[i] = s[i + 1]
  OBVIOUS

LEMMA AppendFacts ==
  ASSUME NEW S, NEW s \in Seq(S), NEW e \in S
  PROVE  /\ Append(s, e) \in Seq(S) /\ Len(s) \in Nat
         /\ Len(Append(s, e)) = Len(s) + 1
         /\ Append(s, e)[Len(s) + 1] = e
         /\ \A i \in 1..Len(s) : Append(s, e)[i] = s[i]
  OBVIOUS

LEMMA SeqWider ==
  ASSUME NEW S, NEW T, S \subseteq T, NEW s \in Seq(S)
  PROVE  s \in Seq(T)
  <1>1. Len(s) \in Nat /\ s \in [1..Len(s) -> S]
    OBVIOUS
  <1>2. s \in [1..Len(s) -> T]
    BY <1>1
  <1> QED
    BY <1>1, <1>2

LEMMA RequestType ==
  ASSUME NEW by \in Receivers, NEW what \in Kinds, NEW rule \in Rules \cup {NoRule}, NEW of \in Nat
  PROVE  [by |-> by, what |-> what, rule |-> rule, of |-> of, late |-> FALSE] \in Request
  BY DEF Request

LEMMA ReplyType ==
  ASSUME NEW r \in Request, NEW ok \in BOOLEAN
  PROVE  Reply(r, ok) \in Item
  BY DEF Request, Item, Reply, Receivers

LEMMA SignalType ==
  ASSUME NEW r \in Rules, NEW of \in Nat
  PROVE  [to |-> "filter", what |-> "Signal", rule |-> r, of |-> of, ok |-> TRUE] \in Item
  BY DEF Item

\* What a step does to wire or to queue, for one item at a time.
Grows(s, t, e) ==
  /\ Len(t) = Len(s) + 1
  /\ t[Len(s) + 1] = e
  /\ \A i \in 1..Len(s) : t[i] = s[i]

Shrinks(s, t) ==
  /\ Len(s) >= 1
  /\ Len(t) = Len(s) - 1
  /\ \A i \in 1..Len(t) : i + 1 \in 1..Len(s) /\ t[i] = s[i + 1]

-----------------------------------------------------------------------------
(* The calls, their requests and their replies. *)

\* Threads are where their calls are, and a mutex is where its owner is.
Links ==
  \A t \in Threads :
    /\ match_rule_mutex = t => call[t].at \in {"asked", "replied"}
    /\ op[t].at \in {"enter", "ask", "assign"} => op[t].rule \in Watched
    /\ call[t].at # "none" =>
         /\ op[t].at = "match"
         /\ call[t].rule \in OtherRules /\ call[t].what # "GetNameOwner"

\* The rule of a callback is asked for without a reply, those of the program
\* with one; only a lookup has a reply callback.
FitsWire(m) ==
  \/ m.what = "GetNameOwner" /\ m.by = "async"
  \/ m.what # "GetNameOwner" /\ m.by = "nobody" /\ m.rule \in Watched /\ ~m.late
  \/ m.what # "GetNameOwner" /\ m.by \in Threads /\ m.rule \in OtherRules

FitsQueue(m) ==
  \/ m.what = "GetNameOwner" /\ m.to = "async"
  \/ m.what = "Signal" /\ m.to = "filter"
  \/ m.what \notin {"GetNameOwner", "Signal"} /\ m.to \in Threads /\ m.rule \in OtherRules

Traffic ==
  /\ \A k \in 1..Len(wire) : FitsWire(wire[k])
  /\ \A k \in 1..Len(queue) : FitsQueue(queue[k])

\* A thread that waits for a reply gets one.
Awaited(m, t) == m.by = t /\ ~m.late

OneReplyFor(t) ==
  /\ \A i, j \in 1..Len(wire) : Awaited(wire[i], t) /\ Awaited(wire[j], t) => i = j
  /\ \A i, j \in 1..Len(queue) : queue[i].to = t /\ queue[j].to = t => i = j
  /\ \A i \in 1..Len(wire), j \in 1..Len(queue) : ~(Awaited(wire[i], t) /\ queue[j].to = t)
  /\ \A i \in 1..Len(wire) : Awaited(wire[i], t) => call[t].at = "asked"
  /\ \A i \in 1..Len(queue) : queue[i].to = t => call[t].at = "asked"

OneReply == \A t \in Threads : OneReplyFor(t)

Calls == TypeOK /\ Links /\ Traffic /\ OneReply

\* Steps of the bus.
LEMMA BusHandlesFacts ==
  ASSUME Calls, BusHandles
  PROVE  \E ok \in BOOLEAN :
           /\ wire[1] \in Request
           /\ wire[1].what = "RemoveMatch" => ok = (bus[wire[1].rule] > 0)
           /\ bus' = CASE ok /\ wire[1].what = "AddMatch" -> [bus EXCEPT ![wire[1].rule] = @ + 1]
                       [] ok /\ wire[1].what = "RemoveMatch" -> [bus EXCEPT ![wire[1].rule] = @ - 1]
                       [] OTHER -> bus
           /\ doubtful' = IF wire[1].by = "nobody" /\ ~ok THEN doubtful \cup {wire[1].rule} ELSE doubtful
           /\ wire' \in Seq(Request) /\ Shrinks(wire, wire')
           /\ queue' \in Seq(Item)
           /\ \/ queue' = queue /\ (wire[1].by = "nobody" \/ wire[1].late)
              \/ Grows(queue, queue', Reply(wire[1], ok)) /\ wire[1].by # "nobody" /\ ~wire[1].late
           /\ UNCHANGED <<match_rules, match_rule_mutex, call>>
  <1>types. wire \in Seq(Request) /\ queue \in Seq(Item)
    BY DEF Calls, TypeOK, RulesTypeOK
  <1> DEFINE r == wire[1]
  <1>1. PICK ok \in BOOLEAN :
           /\ r.what = "RemoveMatch" => ok = (bus[r.rule] > 0)
           /\ bus' = CASE ok /\ r.what = "AddMatch" -> [bus EXCEPT ![r.rule] = @ + 1]
                       [] ok /\ r.what = "RemoveMatch" -> [bus EXCEPT ![r.rule] = @ - 1]
                       [] OTHER -> bus
           /\ queue' = Answered(r, ok)
           /\ doubtful' = IF r.by = "nobody" /\ ~ok THEN doubtful \cup {r.rule} ELSE doubtful
    BY <1>types, TailFacts DEF BusHandles
  <1>2. wire # <<>> /\ wire' = Tail(wire) /\ UNCHANGED <<match_rules, match_rule_mutex, call>>
    BY DEF BusHandles
  <1>3. r \in Request /\ wire' \in Seq(Request) /\ Shrinks(wire, wire')
    BY <1>types, <1>2, TailFacts DEF Shrinks
  <1> HIDE DEF r
  <1>4. CASE r.by = "nobody" \/ r.late
    <2>1. queue' = queue
      BY <1>1, <1>4 DEF Answered
    <2> QED
      BY <1>types, <1>1, <1>2, <1>3, <1>4, <2>1 DEF r
  <1>5. CASE ~(r.by = "nobody" \/ r.late)
    <2>1. queue' = Append(queue, Reply(r, ok))
      BY <1>1, <1>5 DEF Answered
    <2>2. queue' \in Seq(Item) /\ Grows(queue, queue', Reply(r, ok))
      BY <1>types, <1>3, <2>1, ReplyType, AppendFacts DEF Grows
    <2> QED
      BY <1>1, <1>2, <1>3, <1>5, <2>2 DEF r
  <1> QED
    BY <1>4, <1>5

LEMMA TimesOutFacts ==
  ASSUME Calls, TimesOut
  PROVE  \E k \in 1..Len(wire) :
           /\ wire[k] \in Request /\ ~wire[k].late /\ wire[k].by # "nobody"
           /\ wire' \in Seq(Request) /\ Len(wire') = Len(wire)
           /\ \A i \in 1..Len(wire) :
                /\ wire'[i].by = wire[i].by /\ wire'[i].what = wire[i].what
                /\ wire'[i].rule = wire[i].rule /\ wire'[i].of = wire[i].of
                /\ wire'[i].late = (wire[i].late \/ i = k)
           /\ queue' \in Seq(Item) /\ Grows(queue, queue', Reply(wire[k], FALSE))
           /\ doubtful' = IF wire[k].what = "GetNameOwner" THEN doubtful ELSE doubtful \cup {wire[k].rule}
           /\ UNCHANGED <<match_rules, match_rule_mutex, call, bus>>
  <1>types. wire \in Seq(Request) /\ queue \in Seq(Item)
    BY DEF Calls, TypeOK, RulesTypeOK
  <1>1. PICK k \in DOMAIN wire :
           /\ ~wire[k].late /\ wire[k].by # "nobody"
           /\ wire' = [wire EXCEPT ![k].late = TRUE]
           /\ queue' = Append(queue, Reply(wire[k], FALSE))
           /\ doubtful' = IF wire[k].what = "GetNameOwner" THEN doubtful ELSE doubtful \cup {wire[k].rule}
    BY DEF TimesOut
  <1>2. k \in 1..Len(wire) /\ Len(wire) \in Nat /\ wire \in [1..Len(wire) -> Request]
    BY <1>types
  <1> DEFINE e == [wire[k] EXCEPT !.late = TRUE]
  <1>3. e \in Request /\ wire' = [wire EXCEPT ![k] = e]
    BY <1>1, <1>2 DEF Request
  <1>4. wire' \in [1..Len(wire) -> Request] /\ \A i \in 1..Len(wire) : wire'[i] = IF i = k THEN e ELSE wire[i]
    <2> HIDE DEF e
    <2> QED
      BY <1>2, <1>3
  <1>5. \A i \in 1..Len(wire) :
           /\ wire'[i].by = wire[i].by /\ wire'[i].what = wire[i].what
           /\ wire'[i].rule = wire[i].rule /\ wire'[i].of = wire[i].of
           /\ wire'[i].late = (wire[i].late \/ i = k)
    <2> SUFFICES ASSUME NEW i \in 1..Len(wire)
                 PROVE  /\ wire'[i].by = wire[i].by /\ wire'[i].what = wire[i].what
                        /\ wire'[i].rule = wire[i].rule /\ wire'[i].of = wire[i].of
                        /\ wire'[i].late = (wire[i].late \/ i = k)
      OBVIOUS
    <2>1. CASE i = k
      BY <1>2, <1>4, <2>1 DEF Request
    <2>2. CASE i # k
      <3>1. wire'[i] = wire[i] /\ wire[i].late \in BOOLEAN
        BY <1>2, <1>4, <2>2 DEF Request
      <3> QED
        BY <2>2, <3>1
    <2> QED
      BY <2>1, <2>2
  <1>6. wire' \in Seq(Request) /\ Len(wire') = Len(wire)
    BY <1>2, <1>4
  <1>7. queue' \in Seq(Item) /\ Grows(queue, queue', Reply(wire[k], FALSE))
    <2> DEFINE reply == Reply(wire[k], FALSE)
    <2>1. reply \in Item
      BY <1>2, ReplyType
    <2>2. queue' = Append(queue, reply)
      BY <1>1
    <2> HIDE DEF reply
    <2>3. queue' \in Seq(Item) /\ Grows(queue, queue', reply)
      BY <1>types, <2>1, <2>2, AppendFacts DEF Grows
    <2> QED
      BY <2>3 DEF reply
  <1>8. wire[k] \in Request
    BY <1>2
  <1> QED
    BY <1>1, <1>2, <1>5, <1>6, <1>7, <1>8 DEF TimesOut

LEMMA TakeFacts ==
  ASSUME Calls, queue # <<>>, queue' = Tail(queue)
  PROVE  /\ queue[1] \in Item /\ Head(queue) = queue[1]
         /\ queue' \in Seq(Item) /\ Shrinks(queue, queue')
         /\ FitsQueue(queue[1])
  <1>types. queue \in Seq(Item)
    BY DEF Calls, TypeOK, RulesTypeOK
  <1>1. /\ queue[1] \in Item /\ Head(queue) = queue[1]
        /\ queue' \in Seq(Item) /\ Shrinks(queue, queue')
    BY <1>types, TailFacts DEF Shrinks
  <1>2. Len(queue) \in Nat
    BY <1>types
  <1> QED
    BY <1>1, <1>2 DEF Calls, Traffic, Shrinks

LEMMA SentFacts ==
  ASSUME Calls, NEW by \in Receivers, NEW what \in Kinds, NEW rule \in Rules \cup {NoRule}, NEW of \in Nat,
         wire' = SentFor(by, what, rule, of)
  PROVE  /\ wire' \in Seq(Request)
         /\ Grows(wire, wire', [by |-> by, what |-> what, rule |-> rule, of |-> of, late |-> FALSE])
  <1>1. wire \in Seq(Request)
    BY DEF Calls, TypeOK, RulesTypeOK
  <1> QED
    BY <1>1, RequestType, AppendFacts DEF SentFor, Grows


-----------------------------------------------------------------------------
(* Each step keeps the types, the links and the traffic. *)

\* Steps of the rules, of which the watches see nothing.
LEMMA WatchTypesKept ==
  ASSUME TypeOK, RulesTypeOK', UNCHANGED watchVars,
         \A t \in Threads : match_rule_mutex' = t => op[t].at = "match"
  PROVE  TypeOK'
  BY DEF TypeOK, watchVars

\* Steps of the watches, of which the rules see nothing.
LEMMA RuleTypesKept ==
  ASSUME RulesTypeOK, UNCHANGED ruleVars
  PROVE  RulesTypeOK'
  BY DEF RulesTypeOK, ruleVars

\* What a thread waits for afterwards it waited for before.
LEMMA Carried ==
  ASSUME NEW t \in Threads, NEW dw \in 0..1, NEW dq \in 0..1, OneReplyFor(t),
         Len(wire) \in Nat, Len(queue) \in Nat, Len(wire') \in Nat, Len(queue') \in Nat,
         call[t].at = "asked" => call'[t].at = "asked",
         \A i \in 1..Len(wire') : Awaited(wire'[i], t) =>
           i + dw \in 1..Len(wire) /\ Awaited(wire[i + dw], t),
         \A i \in 1..Len(queue') : queue'[i].to = t =>
           i + dq \in 1..Len(queue) /\ queue[i + dq].to = t
  PROVE  OneReplyFor(t)'
  <1>1. \A i, j \in 1..Len(wire') : Awaited(wire'[i], t) /\ Awaited(wire'[j], t) => i = j
    <2> SUFFICES ASSUME NEW i \in 1..Len(wire'), NEW j \in 1..Len(wire'),
                        Awaited(wire'[i], t), Awaited(wire'[j], t)
                 PROVE  i = j
      OBVIOUS
    <2>1. i + dw = j + dw
      BY DEF OneReplyFor
    <2> QED
      BY <2>1
  <1>2. \A i, j \in 1..Len(queue') : queue'[i].to = t /\ queue'[j].to = t => i = j
    <2> SUFFICES ASSUME NEW i \in 1..Len(queue'), NEW j \in 1..Len(queue'),
                        queue'[i].to = t, queue'[j].to = t
                 PROVE  i = j
      OBVIOUS
    <2>1. i + dq = j + dq
      BY DEF OneReplyFor
    <2> QED
      BY <2>1
  <1>3. \A i \in 1..Len(wire'), j \in 1..Len(queue') : ~(Awaited(wire'[i], t) /\ queue'[j].to = t)
    BY DEF OneReplyFor
  <1>4. \A i \in 1..Len(wire') : Awaited(wire'[i], t) => call'[t].at = "asked"
    BY DEF OneReplyFor
  <1>5. \A i \in 1..Len(queue') : queue'[i].to = t => call'[t].at = "asked"
    BY DEF OneReplyFor
  <1> QED
    BY <1>1, <1>2, <1>3, <1>4, <1>5 DEF OneReplyFor, Awaited

LEMMA TrafficKept ==
  ASSUME Calls, UNCHANGED <<wire, queue>>,
         \A t \in Threads : call[t].at = "asked" => call'[t].at = "asked"
  PROVE  Traffic' /\ OneReply'
  <1>1. Traffic'
    BY DEF Calls, Traffic
  <1>2. OneReply'
    BY DEF Calls, OneReply, OneReplyFor
  <1> QED
    BY <1>1, <1>2

\* The lengths, and what may be taken for granted of each item.
LEMMA TrafficFacts ==
  ASSUME Calls
  PROVE  /\ Len(wire) \in Nat /\ Len(queue) \in Nat
         /\ \A k \in 1..Len(wire) : wire[k] \in Request /\ FitsWire(wire[k])
         /\ \A k \in 1..Len(queue) : queue[k] \in Item /\ FitsQueue(queue[k])
         /\ \A t \in Threads : OneReplyFor(t)
  <1>1. wire \in Seq(Request) /\ queue \in Seq(Item) /\ Traffic /\ OneReply
    BY DEF Calls, TypeOK, RulesTypeOK
  <1>2. /\ Len(wire) \in Nat /\ Len(queue) \in Nat
        /\ \A k \in 1..Len(wire) : wire[k] \in Request
        /\ \A k \in 1..Len(queue) : queue[k] \in Item
    BY <1>1
  <1> QED
    BY <1>1, <1>2 DEF Traffic, OneReply

\* What each item of wire or of queue was before.
LEMMA QueueTaken ==
  ASSUME Len(queue) \in Nat, Shrinks(queue, queue')
  PROVE  /\ Len(queue') \in Nat
         /\ \A i \in 1..Len(queue') : i + 1 \in 1..Len(queue) /\ queue'[i] = queue[i + 1]
  BY DEF Shrinks

LEMMA WireTaken ==
  ASSUME Len(wire) \in Nat, Shrinks(wire, wire')
  PROVE  /\ Len(wire') \in Nat
         /\ \A i \in 1..Len(wire') : i + 1 \in 1..Len(wire) /\ wire'[i] = wire[i + 1]
  BY DEF Shrinks

LEMMA QueuePut ==
  ASSUME Len(queue) \in Nat, NEW m, Grows(queue, queue', m)
  PROVE  /\ Len(queue') \in Nat /\ Len(queue') = Len(queue) + 1
         /\ \A i \in 1..Len(queue') : \/ i \in 1..Len(queue) /\ queue'[i] = queue[i]
                                      \/ i = Len(queue) + 1 /\ queue'[i] = m
  BY DEF Grows

LEMMA WirePut ==
  ASSUME Len(wire) \in Nat, NEW m, Grows(wire, wire', m)
  PROVE  /\ Len(wire') \in Nat /\ Len(wire') = Len(wire) + 1
         /\ \A i \in 1..Len(wire') : \/ i \in 1..Len(wire) /\ wire'[i] = wire[i]
                                     \/ i = Len(wire) + 1 /\ wire'[i] = m
  BY DEF Grows

\* A request for which no thread waits is sent, or none is; the queue keeps
\* what it has, loses its first item or gets one that no thread waits for.
LEMMA TrafficMoved ==
  ASSUME Calls,
         \/ UNCHANGED wire
         \/ \E m : Grows(wire, wire', m) /\ FitsWire(m) /\ m.by \notin Threads,
         \/ UNCHANGED queue
         \/ Shrinks(queue, queue')
         \/ \E m : Grows(queue, queue', m) /\ FitsQueue(m) /\ m.to \notin Threads,
         UNCHANGED call
  PROVE  Traffic' /\ OneReply'
  <1>inv. /\ Len(wire) \in Nat /\ Len(queue) \in Nat
          /\ \A k \in 1..Len(wire) : FitsWire(wire[k])
          /\ \A k \in 1..Len(queue) : FitsQueue(queue[k])
          /\ \A t \in Threads : OneReplyFor(t)
    BY TrafficFacts
  <1>1. /\ Len(wire') \in Nat
        /\ \A i \in 1..Len(wire') : FitsWire(wire'[i])
        /\ \A t \in Threads, i \in 1..Len(wire') : Awaited(wire'[i], t) =>
             i + 0 \in 1..Len(wire) /\ Awaited(wire[i + 0], t)
    <2>1. CASE UNCHANGED wire
      BY <1>inv, <2>1
    <2>2. CASE \E m : Grows(wire, wire', m) /\ FitsWire(m) /\ m.by \notin Threads
      <3>1. PICK m : Grows(wire, wire', m) /\ FitsWire(m) /\ m.by \notin Threads
        BY <2>2
      <3>2. /\ Len(wire') \in Nat
            /\ \A i \in 1..Len(wire') : \/ i \in 1..Len(wire) /\ wire'[i] = wire[i]
                                        \/ i = Len(wire) + 1 /\ wire'[i] = m
        BY <1>inv, <3>1, WirePut
      <3>3. \A i \in 1..Len(wire') : FitsWire(wire'[i])
        BY <1>inv, <3>1, <3>2
      <3> QED
        BY <1>inv, <3>1, <3>2, <3>3 DEF Awaited
    <2> QED
      BY <2>1, <2>2
  <1>2. /\ Len(queue') \in Nat
        /\ \A i \in 1..Len(queue') : FitsQueue(queue'[i])
        /\ \E d \in 0..1 : \A t \in Threads, i \in 1..Len(queue') : queue'[i].to = t =>
             i + d \in 1..Len(queue) /\ queue[i + d].to = t
    <2>1. CASE UNCHANGED queue
      BY <1>inv, <2>1
    <2>2. CASE Shrinks(queue, queue')
      <3>1. /\ Len(queue') \in Nat
            /\ \A i \in 1..Len(queue') : i + 1 \in 1..Len(queue) /\ queue'[i] = queue[i + 1]
        BY <1>inv, <2>2, QueueTaken
      <3>2. \A i \in 1..Len(queue') : FitsQueue(queue'[i])
        BY <1>inv, <3>1
      <3> QED
        BY <3>1, <3>2
    <2>3. CASE \E m : Grows(queue, queue', m) /\ FitsQueue(m) /\ m.to \notin Threads
      <3>1. PICK m : Grows(queue, queue', m) /\ FitsQueue(m) /\ m.to \notin Threads
        BY <2>3
      <3>2. /\ Len(queue') \in Nat
            /\ \A i \in 1..Len(queue') : \/ i \in 1..Len(queue) /\ queue'[i] = queue[i]
                                         \/ i = Len(queue) + 1 /\ queue'[i] = m
        BY <1>inv, <3>1, QueuePut
      <3>3. \A i \in 1..Len(queue') : FitsQueue(queue'[i])
        BY <1>inv, <3>1, <3>2
      <3>4. \A t \in Threads, i \in 1..Len(queue') : queue'[i].to = t =>
              i + 0 \in 1..Len(queue) /\ queue[i + 0].to = t
        BY <1>inv, <3>1, <3>2
      <3> QED
        BY <3>2, <3>3, <3>4
    <2> QED
      BY <2>1, <2>2, <2>3
  <1>3. Traffic'
    BY <1>1, <1>2 DEF Traffic, FitsWire, FitsQueue
  <1>4. OneReply'
    <2>1. PICK d \in 0..1 : \A t \in Threads, i \in 1..Len(queue') : queue'[i].to = t =>
             i + d \in 1..Len(queue) /\ queue[i + d].to = t
      BY <1>2
    <2>2. \A t \in Threads : OneReplyFor(t)'
      <3> TAKE t \in Threads
      <3>1. \A i \in 1..Len(wire') : Awaited(wire'[i], t) =>
               i + 0 \in 1..Len(wire) /\ Awaited(wire[i + 0], t)
        BY <1>1
      <3>2. 0 \in 0..1
        OBVIOUS
      <3> QED
        BY <1>inv, <1>1, <1>2, <2>1, <3>1, <3>2, Carried
    <2> QED
      BY <2>2 DEF OneReply
  <1> QED
    BY <1>3, <1>4

LEMMA BusHandlesCalls ==
  ASSUME Calls, BusHandles, UNCHANGED watchVars
  PROVE  Calls'
  <1>inv. TypeOK /\ RulesTypeOK /\ Links
    BY DEF Calls, TypeOK
  <1>traffic. /\ Len(wire) \in Nat /\ Len(queue) \in Nat
              /\ \A k \in 1..Len(wire) : FitsWire(wire[k])
              /\ \A k \in 1..Len(queue) : FitsQueue(queue[k])
              /\ \A t \in Threads : OneReplyFor(t)
    BY TrafficFacts
  <1> DEFINE r == wire[1]
  <1>1. PICK ok \in BOOLEAN :
           /\ r \in Request
           /\ r.what = "RemoveMatch" => ok = (bus[r.rule] > 0)
           /\ bus' = CASE ok /\ r.what = "AddMatch" -> [bus EXCEPT ![r.rule] = @ + 1]
                       [] ok /\ r.what = "RemoveMatch" -> [bus EXCEPT ![r.rule] = @ - 1]
                       [] OTHER -> bus
           /\ doubtful' = IF r.by = "nobody" /\ ~ok THEN doubtful \cup {r.rule} ELSE doubtful
           /\ wire' \in Seq(Request) /\ Shrinks(wire, wire')
           /\ queue' \in Seq(Item)
           /\ \/ queue' = queue /\ (r.by = "nobody" \/ r.late)
              \/ Grows(queue, queue', Reply(r, ok)) /\ r.by # "nobody" /\ ~r.late
           /\ UNCHANGED <<match_rules, match_rule_mutex, call>>
    BY BusHandlesFacts
  <1>2. /\ Len(wire) >= 1 /\ Len(wire') \in Nat
        /\ \A i \in 1..Len(wire') : i + 1 \in 1..Len(wire) /\ wire'[i] = wire[i + 1]
    BY <1>1, <1>traffic, WireTaken DEF Shrinks
  <1>3. FitsWire(r)
    BY <1>traffic, <1>2
  <1>4. \A t \in Threads : Awaited(r, t) =>
           /\ \A i \in 1..Len(wire') : ~Awaited(wire'[i], t)
           /\ \A i \in 1..Len(queue) : queue[i].to # t
           /\ call[t].at = "asked"
    <2> SUFFICES ASSUME NEW t \in Threads, Awaited(r, t)
                 PROVE  /\ \A i \in 1..Len(wire') : ~Awaited(wire'[i], t)
                        /\ \A i \in 1..Len(queue) : queue[i].to # t
                        /\ call[t].at = "asked"
      OBVIOUS
    <2>1. 1 \in 1..Len(wire) /\ OneReplyFor(t)
      BY <1>traffic, <1>2
    <2>2. \A i \in 1..Len(wire') : ~Awaited(wire'[i], t)
      BY <1>traffic, <1>2, <2>1 DEF OneReplyFor
    <2> QED
      BY <2>1, <2>2 DEF OneReplyFor
  <1> HIDE DEF r
  <1>5. r.what # "GetNameOwner" => r.rule \in Rules
    BY <1>3, NameWatchAssumption DEF FitsWire
  <1>6. bus' \in [Rules -> Nat]
    <2>1. CASE ok /\ r.what = "AddMatch"
      BY <1>inv, <1>1, <1>5, <2>1 DEF RulesTypeOK
    <2>2. CASE ok /\ r.what = "RemoveMatch"
      <3>1. bus' = [bus EXCEPT ![r.rule] = bus[r.rule] - 1] /\ bus[r.rule] > 0
        BY <1>1, <2>2
      <3>2. bus[r.rule] - 1 \in Nat
        BY <1>inv, <1>5, <2>2, <3>1 DEF RulesTypeOK
      <3> QED
        BY <1>inv, <1>5, <3>1, <3>2 DEF RulesTypeOK
    <2>3. CASE ~(ok /\ r.what = "AddMatch") /\ ~(ok /\ r.what = "RemoveMatch")
      BY <1>inv, <1>1, <2>3 DEF RulesTypeOK
    <2> QED
      BY <2>1, <2>2, <2>3
  <1>7. doubtful' \subseteq Rules
    BY <1>inv, <1>1, <1>3, <1>5, MatchRulesAssumption DEF RulesTypeOK, FitsWire
  <1>8. TypeOK'
    <2>1. RulesTypeOK'
      BY <1>inv, <1>1, <1>6, <1>7 DEF RulesTypeOK
    <2>2. \A t \in Threads : match_rule_mutex' = t => op[t].at = "match"
      BY <1>inv, <1>1 DEF TypeOK
    <2> QED
      BY <1>inv, <2>1, <2>2, WatchTypesKept
  <1>9. Links'
    BY <1>inv, <1>1 DEF Links, watchVars
  <1>10. \A i \in 1..Len(wire') : FitsWire(wire'[i])
    BY <1>traffic, <1>2
  <1>11. CASE queue' = queue /\ (r.by = "nobody" \/ r.late)
    <2>1. Traffic'
      BY <1>traffic, <1>10, <1>11 DEF Traffic, FitsWire, FitsQueue
    <2>2. \A t \in Threads : OneReplyFor(t)'
      <3> TAKE t \in Threads
      <3>1. \A i \in 1..Len(wire') : Awaited(wire'[i], t) =>
               i + 1 \in 1..Len(wire) /\ Awaited(wire[i + 1], t)
        BY <1>2
      <3>2. \A i \in 1..Len(queue') : queue'[i].to = t =>
               i + 0 \in 1..Len(queue) /\ queue[i + 0].to = t
        BY <1>traffic, <1>11
      <3>3. 0 \in 0..1 /\ 1 \in 0..1 /\ OneReplyFor(t) /\ call'[t] = call[t]
        BY <1>traffic, <1>1
      <3> QED
        BY <1>traffic, <1>2, <1>11, <3>1, <3>2, <3>3, Carried
    <2> QED
      BY <1>8, <1>9, <2>1, <2>2 DEF Calls, OneReply
  <1>12. CASE Grows(queue, queue', Reply(r, ok)) /\ r.by # "nobody" /\ ~r.late
    <2> DEFINE reply == Reply(r, ok)
    <2>1. reply.to = r.by /\ reply.what = r.what /\ reply.rule = r.rule
      BY DEF Reply
    <2> HIDE DEF reply
    <2>2. /\ Len(queue') \in Nat
          /\ \A i \in 1..Len(queue') : \/ i \in 1..Len(queue) /\ queue'[i] = queue[i]
                                       \/ i = Len(queue) + 1 /\ queue'[i] = reply
      BY <1>traffic, <1>12, QueuePut DEF reply
    <2>3. r.by # "nobody"
      BY <1>12
    <2>4. FitsQueue(reply)
      <3>1. r.what # "Signal"
        BY <1>1 DEF Request, Kinds
      <3> QED
        BY <1>3, <2>1, <2>3, <3>1 DEF FitsWire, FitsQueue
    <2>5. \A i \in 1..Len(queue') : FitsQueue(queue'[i])
      BY <1>traffic, <2>2, <2>4
    <2>6. Traffic'
      BY <1>10, <2>5 DEF Traffic, FitsWire, FitsQueue
    <2>7. \A t \in Threads : OneReplyFor(t)'
      <3> TAKE t \in Threads
      <3>1. CASE r.by = t
        <4>1. Awaited(r, t)
          BY <1>12, <3>1 DEF Awaited
        <4>2. /\ \A i \in 1..Len(queue') : queue'[i].to = t => i = Len(queue) + 1
              /\ \A i \in 1..Len(wire') : ~Awaited(wire'[i], t)
              /\ call'[t].at = "asked"
          BY <1>1, <1>4, <2>2, <4>1
        <4> QED
          BY <4>2 DEF OneReplyFor, Awaited
      <3>2. CASE r.by # t
        <4>1. \A i \in 1..Len(wire') : Awaited(wire'[i], t) =>
                 i + 1 \in 1..Len(wire) /\ Awaited(wire[i + 1], t)
          BY <1>2
        <4>2. \A i \in 1..Len(queue') : queue'[i].to = t =>
                 i + 0 \in 1..Len(queue) /\ queue[i + 0].to = t
          BY <1>traffic, <2>1, <2>2, <3>2
        <4>3. 0 \in 0..1 /\ 1 \in 0..1 /\ OneReplyFor(t) /\ call'[t] = call[t]
          BY <1>traffic, <1>1
        <4> QED
          BY <1>traffic, <1>2, <2>2, <4>1, <4>2, <4>3, Carried
      <3> QED
        BY <3>1, <3>2
    <2> QED
      BY <1>8, <1>9, <2>6, <2>7 DEF Calls, OneReply
  <1> QED
    BY <1>1, <1>11, <1>12

CallRecord == [what : Kinds, rule : Rules \cup {NoRule},
               at : {"none", "ready", "asked", "replied", "done"}, ok : BOOLEAN]

LEMMA TimesOutCalls ==
  ASSUME Calls, TimesOut, UNCHANGED watchVars
  PROVE  Calls'
  <1>inv. TypeOK /\ RulesTypeOK /\ Links
    BY DEF Calls, TypeOK
  <1>traffic. /\ Len(wire) \in Nat /\ Len(queue) \in Nat
              /\ \A k \in 1..Len(wire) : FitsWire(wire[k])
              /\ \A k \in 1..Len(queue) : FitsQueue(queue[k])
              /\ \A t \in Threads : OneReplyFor(t)
    BY TrafficFacts
  <1>1. PICK k \in 1..Len(wire) :
           /\ wire[k] \in Request /\ ~wire[k].late /\ wire[k].by # "nobody"
           /\ wire' \in Seq(Request) /\ Len(wire') = Len(wire)
           /\ \A i \in 1..Len(wire) :
                /\ wire'[i].by = wire[i].by /\ wire'[i].what = wire[i].what
                /\ wire'[i].rule = wire[i].rule /\ wire'[i].of = wire[i].of
                /\ wire'[i].late = (wire[i].late \/ i = k)
           /\ queue' \in Seq(Item) /\ Grows(queue, queue', Reply(wire[k], FALSE))
           /\ doubtful' = IF wire[k].what = "GetNameOwner" THEN doubtful ELSE doubtful \cup {wire[k].rule}
           /\ UNCHANGED <<match_rules, match_rule_mutex, call, bus>>
    BY TimesOutFacts
  <1> DEFINE r == wire[k]
             reply == Reply(r, FALSE)
  <1>2. reply.to = r.by /\ reply.what = r.what /\ reply.rule = r.rule
    BY DEF Reply
  <1>3. FitsWire(r) /\ r.what # "Signal" /\ ~r.late /\ r.by # "nobody"
    BY <1>1, <1>traffic DEF Request, Kinds
  <1>4. Grows(queue, queue', reply)
    BY <1>1
  <1>5. doubtful' = IF r.what = "GetNameOwner" THEN doubtful ELSE doubtful \cup {r.rule}
    BY <1>1
  <1> HIDE DEF reply
  <1>6. /\ Len(queue') \in Nat
        /\ \A i \in 1..Len(queue') : \/ i \in 1..Len(queue) /\ queue'[i] = queue[i]
                                     \/ i = Len(queue) + 1 /\ queue'[i] = reply
    BY <1>traffic, <1>4, QueuePut
  <1>7. \A t \in Threads : Awaited(r, t) =>
           /\ \A i \in 1..Len(wire) : Awaited(wire[i], t) => i = k
           /\ \A i \in 1..Len(queue) : queue[i].to # t
           /\ call[t].at = "asked"
    BY <1>traffic DEF OneReplyFor
  <1>8. TypeOK'
    <2>1. doubtful' \subseteq Rules
      <3>1. r.what # "GetNameOwner" => r.rule \in Rules
        BY <1>3, NameWatchAssumption DEF FitsWire
      <3> QED
        BY <1>inv, <1>5, <3>1 DEF RulesTypeOK
    <2>2. RulesTypeOK'
      BY <1>inv, <1>1, <2>1 DEF RulesTypeOK
    <2>3. \A t \in Threads : match_rule_mutex' = t => op[t].at = "match"
      BY <1>inv, <1>1 DEF TypeOK
    <2> QED
      BY <1>inv, <2>2, <2>3, WatchTypesKept
  <1>9. Links'
    BY <1>inv, <1>1 DEF Links, watchVars
  <1>10. FitsQueue(reply)
    BY <1>2, <1>3 DEF FitsWire, FitsQueue
  <1>11. Traffic'
    <2>1. \A i \in 1..Len(wire') : FitsWire(wire'[i])
      <3> SUFFICES ASSUME NEW i \in 1..Len(wire)
                   PROVE  FitsWire(wire'[i])
        BY <1>1
      <3>1. FitsWire(wire[i]) /\ (i = k => wire[i].by # "nobody")
        BY <1>traffic, <1>3
      <3>2. /\ wire'[i].by = wire[i].by /\ wire'[i].what = wire[i].what
            /\ wire'[i].rule = wire[i].rule /\ wire'[i].late = (wire[i].late \/ i = k)
        BY <1>1
      <3>3. CASE i = k
        BY <3>1, <3>2, <3>3 DEF FitsWire
      <3>4. CASE i # k
        BY <3>1, <3>2, <3>4 DEF FitsWire
      <3> QED
        BY <3>3, <3>4
    <2>2. \A i \in 1..Len(queue') : FitsQueue(queue'[i])
      BY <1>traffic, <1>6, <1>10
    <2> QED
      BY <2>1, <2>2 DEF Traffic, FitsWire, FitsQueue
  <1>12. \A t \in Threads : OneReplyFor(t)'
    <2> TAKE t \in Threads
    <2>1. \A i \in 1..Len(wire') : Awaited(wire'[i], t) =>
             i + 0 \in 1..Len(wire) /\ Awaited(wire[i + 0], t) /\ i # k
      <3> SUFFICES ASSUME NEW i \in 1..Len(wire), wire'[i].by = t, ~wire'[i].late
                   PROVE  i + 0 = i /\ wire[i].by = t /\ ~wire[i].late /\ i # k
        BY <1>1, <1>traffic DEF Awaited
      <3>1. wire'[i].by = wire[i].by /\ wire'[i].late = (wire[i].late \/ i = k) /\ i + 0 = i
        BY <1>1, <1>traffic
      <3>2. i # k
        BY <3>1, Zenon
      <3>3. ~wire[i].late
        BY <3>1, Zenon
      <3> QED
        BY <3>1, <3>2, <3>3
    <2>2. CASE r.by = t
      <3>1. Awaited(r, t)
        BY <1>3, <2>2 DEF Awaited
      <3>2. /\ \A i \in 1..Len(queue') : queue'[i].to = t => i = Len(queue) + 1
            /\ \A i \in 1..Len(wire') : ~Awaited(wire'[i], t)
            /\ call'[t].at = "asked"
        BY <1>traffic, <1>1, <1>6, <1>7, <2>1, <3>1
      <3> QED
        BY <3>2 DEF OneReplyFor, Awaited
    <2>3. CASE r.by # t
      <3>1. \A i \in 1..Len(queue') : queue'[i].to = t =>
               i + 0 \in 1..Len(queue) /\ queue[i + 0].to = t
        BY <1>traffic, <1>2, <1>6, <2>3
      <3>2. 0 \in 0..1 /\ OneReplyFor(t) /\ call'[t] = call[t] /\ Len(wire') \in Nat
        BY <1>traffic, <1>1
      <3> HIDE DEF r
      <3> QED
        BY <1>traffic, <1>6, <2>1, <3>1, <3>2, Carried
    <2> QED
      BY <2>2, <2>3
  <1> QED
    BY <1>8, <1>9, <1>11, <1>12 DEF Calls, OneReply

LEMMA OnSyncReplyCalls ==
  ASSUME Calls, OnSyncReply, UNCHANGED watchVars
  PROVE  Calls'
  <1>inv. TypeOK /\ RulesTypeOK /\ Links
    BY DEF Calls, TypeOK
  <1>traffic. /\ Len(wire) \in Nat /\ Len(queue) \in Nat
              /\ \A k \in 1..Len(wire) : FitsWire(wire[k])
              /\ \A k \in 1..Len(queue) : FitsQueue(queue[k])
              /\ \A t \in Threads : OneReplyFor(t)
    BY TrafficFacts
  <1> DEFINE h == queue[1]
             w == h.to
  <1>1. /\ h \in Item /\ Head(queue) = h /\ queue' \in Seq(Item) /\ Shrinks(queue, queue')
        /\ FitsQueue(h)
    BY TakeFacts DEF OnSyncReply
  <1>2. /\ h.to \in Threads
        /\ call' = [call EXCEPT ![h.to].at = "replied", ![h.to].ok = h.ok]
        /\ UNCHANGED <<match_rules, match_rule_mutex, bus, wire, doubtful>>
    BY <1>1 DEF OnSyncReply
  <1>3. /\ Len(queue') \in Nat /\ 1 \in 1..Len(queue)
        /\ \A i \in 1..Len(queue') : i + 1 \in 1..Len(queue) /\ queue'[i] = queue[i + 1]
    BY <1>1, <1>traffic, QueueTaken DEF Shrinks
  <1>4. call[w].at = "asked" /\ w \in Threads
    BY <1>2, <1>3, <1>traffic DEF OneReplyFor
  <1>5. h.ok \in BOOLEAN
    BY <1>1 DEF Item
  <1> HIDE DEF h
  <1>6. /\ call' \in [Threads -> CallRecord]
        /\ \A t \in Threads \ {w} : call'[t] = call[t]
        /\ call'[w].at = "replied" /\ call'[w].what = call[w].what /\ call'[w].rule = call[w].rule
    <2>1. call \in [Threads -> CallRecord]
      BY <1>inv DEF RulesTypeOK, CallRecord
    <2> DEFINE e == [call[w] EXCEPT !.at = "replied", !.ok = h.ok]
    <2>2. call[w] \in CallRecord
      BY <1>4, <2>1
    <2>3. e \in CallRecord /\ e.at = "replied" /\ e.what = call[w].what /\ e.rule = call[w].rule
      BY <1>5, <2>2 DEF CallRecord
    <2>4. call' = [call EXCEPT ![w] = e]
      BY <1>2, <2>1
    <2> HIDE DEF e
    <2> QED
      BY <1>4, <2>1, <2>3, <2>4
  <1>7. TypeOK'
    <2>1. RulesTypeOK'
      BY <1>inv, <1>1, <1>2, <1>6 DEF RulesTypeOK, CallRecord
    <2>2. \A t \in Threads : match_rule_mutex' = t => op[t].at = "match"
      BY <1>inv, <1>2 DEF TypeOK
    <2> QED
      BY <1>inv, <2>1, <2>2, WatchTypesKept
  <1>8. Links'
    <2> SUFFICES ASSUME NEW t \in Threads
                 PROVE  /\ match_rule_mutex' = t => call'[t].at \in {"asked", "replied"}
                        /\ op'[t].at \in {"enter", "ask", "assign"} => op'[t].rule \in Watched
                        /\ call'[t].at # "none" =>
                             /\ op'[t].at = "match"
                             /\ call'[t].rule \in OtherRules /\ call'[t].what # "GetNameOwner"
      BY DEF Links
    <2>1. UNCHANGED <<op, match_rule_mutex>>
      BY <1>2 DEF watchVars
    <2>2. CASE t = w
      BY <1>inv, <1>4, <1>6, <2>1, <2>2 DEF Links
    <2>3. CASE t # w
      BY <1>inv, <1>6, <2>1, <2>3 DEF Links
    <2> QED
      BY <2>2, <2>3
  <1>9. Traffic'
    <2>1. \A i \in 1..Len(queue') : FitsQueue(queue'[i])
      BY <1>traffic, <1>3
    <2>2. \A i \in 1..Len(wire') : FitsWire(wire'[i])
      BY <1>traffic, <1>2
    <2> QED
      BY <2>1, <2>2 DEF Traffic, FitsWire, FitsQueue
  <1>10. \A t \in Threads : OneReplyFor(t)'
    <2> TAKE t \in Threads
    <2>1. CASE t = w
      <3>1. /\ \A i \in 1..Len(queue) : queue[i].to = t => i = 1
            /\ \A i \in 1..Len(wire) : ~Awaited(wire[i], t)
        BY <1>3, <1>traffic, <2>1 DEF OneReplyFor, h
      <3>2. /\ \A i \in 1..Len(queue') : queue'[i].to # t
            /\ \A i \in 1..Len(wire') : ~Awaited(wire'[i], t)
        BY <1>2, <1>3, <3>1
      <3> QED
        BY <3>2 DEF OneReplyFor, Awaited
    <2>2. CASE t # w
      <3>1. \A i \in 1..Len(wire') : Awaited(wire'[i], t) =>
               i + 0 \in 1..Len(wire) /\ Awaited(wire[i + 0], t)
        BY <1>traffic, <1>2
      <3>2. \A i \in 1..Len(queue') : queue'[i].to = t =>
               i + 1 \in 1..Len(queue) /\ queue[i + 1].to = t
        BY <1>3
      <3>3. 0 \in 0..1 /\ 1 \in 0..1 /\ OneReplyFor(t) /\ call'[t] = call[t] /\ Len(wire') \in Nat
        BY <1>traffic, <1>2, <1>6, <2>2
      <3> QED
        BY <1>traffic, <1>3, <3>1, <3>2, <3>3, Carried
    <2> QED
      BY <2>1, <2>2
  <1> QED
    BY <1>7, <1>8, <1>9, <1>10 DEF Calls, OneReply

OpRecord == [at : {"idle", "enter", "ask", "assign", "match"}, rule : Rules \cup {NoRule},
             on : BOOLEAN, ok : BOOLEAN]

\* TypeOK, in the parts that one step or another disturbs.
OpTypes ==
  /\ op \in [Threads -> OpRecord]
  /\ \A t \in Threads : cb_mutex = t <=> op[t].at \in {"ask", "assign"}
  /\ \A t \in Threads : match_rule_mutex = t => op[t].at = "match"

DataTypes ==
  /\ {connected, unique} \subseteq BOOLEAN
  /\ callbacks \subseteq Watched
  /\ handled \in Seq(1..signals) /\ looked_up \subseteq 1..signals
  /\ signals \in 0..MaxSignals /\ calls \in 0..MaxCalls /\ disconnects \in 0..MaxDisconnects

LEMMA TypesInParts == TypeOK <=> RulesTypeOK /\ OpTypes /\ DataTypes
  BY DEF TypeOK, OpTypes, DataTypes, OpRecord

LEMMA TypesInPartsNext == (RulesTypeOK /\ OpTypes /\ DataTypes)' => TypeOK'
  BY DEF TypeOK, OpTypes, DataTypes, OpRecord

LEMMA CallsParts ==
  ASSUME Calls
  PROVE  /\ RulesTypeOK /\ OpTypes /\ DataTypes /\ Links
         /\ call \in [Threads -> CallRecord]
  BY TypesInParts DEF Calls, RulesTypeOK, CallRecord

LEMMA CallsFromParts ==
  ASSUME RulesTypeOK', OpTypes', DataTypes', Links', Traffic', OneReply'
  PROVE  Calls'
  BY TypesInPartsNext DEF Calls

\* A thread begins an operation: it was in none.
LEMMA BeginFacts ==
  ASSUME Calls, NEW t \in Threads, NEW at \in {"enter", "match"}, NEW rule \in Rules, NEW on \in BOOLEAN,
         Begin(t, at, rule, on)
  PROVE  /\ op' \in [Threads -> OpRecord]
         /\ \A s \in Threads \ {t} : op'[s] = op[s]
         /\ op'[t].at = at /\ op'[t].rule = rule
         /\ op[t].at = "idle" /\ cb_mutex # t /\ match_rule_mutex # t /\ call[t].at = "none"
         /\ calls' \in 0..MaxCalls
  <1>inv. OpTypes /\ DataTypes /\ Links
    BY CallsParts
  <1> DEFINE e == [at |-> at, rule |-> rule, on |-> on, ok |-> TRUE]
  <1>1. op' = [op EXCEPT ![t] = e] /\ op[t] = NoOp /\ calls < MaxCalls /\ calls' = calls + 1
    BY DEF Begin, Idle
  <1>2. e \in OpRecord /\ e.at = at /\ e.rule = rule
    BY DEF OpRecord
  <1> HIDE DEF e
  <1>3. /\ op' \in [Threads -> OpRecord]
        /\ \A s \in Threads \ {t} : op'[s] = op[s]
        /\ op'[t].at = at /\ op'[t].rule = rule
    BY <1>inv, <1>1, <1>2 DEF OpTypes
  <1>4. op[t].at = "idle"
    BY <1>1 DEF NoOp
  <1>5. cb_mutex # t /\ match_rule_mutex # t /\ call[t].at = "none"
    BY <1>inv, <1>4 DEF OpTypes, Links
  <1>6. calls' \in 0..MaxCalls
    BY <1>inv, <1>1, NameWatchAssumption DEF DataTypes
  <1> QED
    BY <1>3, <1>4, <1>5, <1>6

LEMMA SetCallbackCalls ==
  ASSUME Calls, NEW t \in Threads, NEW rule \in Watched, NEW on \in BOOLEAN, SetCallback(t, rule, on)
  PROVE  Calls'
  <1>inv. RulesTypeOK /\ OpTypes /\ DataTypes /\ Links
    BY CallsParts
  <1>1. /\ Begin(t, "enter", rule, on)
        /\ UNCHANGED <<ruleVars, connected, callbacks, cb_mutex, unique, handled, signals, looked_up,
                       disconnects>>
    BY DEF SetCallback
  <1>2. rule \in Rules
    BY NameWatchAssumption
  <1>3. /\ op' \in [Threads -> OpRecord]
        /\ \A s \in Threads \ {t} : op'[s] = op[s]
        /\ op'[t].at = "enter" /\ op'[t].rule = rule
        /\ op[t].at = "idle" /\ cb_mutex # t /\ match_rule_mutex # t /\ call[t].at = "none"
        /\ calls' \in 0..MaxCalls
    BY <1>1, <1>2, BeginFacts
  <1>4. RulesTypeOK'
    BY <1>inv, <1>1, RuleTypesKept
  <1>5. OpTypes'
    BY <1>inv, <1>1, <1>3 DEF OpTypes, ruleVars
  <1>6. DataTypes'
    BY <1>inv, <1>1, <1>3 DEF DataTypes
  <1>7. Links'
    BY <1>inv, <1>1, <1>3 DEF Links, ruleVars
  <1>8. Traffic' /\ OneReply'
    BY <1>1, TrafficKept DEF ruleVars
  <1> QED
    BY <1>4, <1>5, <1>6, <1>7, <1>8, CallsFromParts

LEMMA CallMatchCalls ==
  ASSUME Calls, NEW t \in Threads, NEW rule \in OtherRules, NEW on \in BOOLEAN, CallMatch(t, rule, on)
  PROVE  Calls'
  <1>inv. RulesTypeOK /\ OpTypes /\ DataTypes /\ Links /\ call \in [Threads -> CallRecord]
    BY CallsParts
  <1> DEFINE c == [what |-> What(on), rule |-> rule, at |-> "ready", ok |-> FALSE]
  <1>1. /\ Begin(t, "match", rule, on)
        /\ call' = [call EXCEPT ![t] = c]
        /\ UNCHANGED <<match_rules, match_rule_mutex, bus, wire, queue, doubtful, connected, callbacks,
                       cb_mutex, unique, handled, signals, looked_up, disconnects>>
    BY DEF CallMatch, Begun
  <1>2. rule \in Rules
    BY NameWatchAssumption
  <1>3. /\ op' \in [Threads -> OpRecord]
        /\ \A s \in Threads \ {t} : op'[s] = op[s]
        /\ op'[t].at = "match" /\ op'[t].rule = rule
        /\ op[t].at = "idle" /\ cb_mutex # t /\ match_rule_mutex # t /\ call[t].at = "none"
        /\ calls' \in 0..MaxCalls
    BY <1>1, <1>2, BeginFacts
  <1>4. c \in CallRecord /\ c.at = "ready" /\ c.rule = rule /\ c.what # "GetNameOwner"
    BY <1>2 DEF CallRecord, What, Kinds
  <1> HIDE DEF c
  <1>5. /\ call' \in [Threads -> CallRecord] /\ call'[t] = c
        /\ \A s \in Threads \ {t} : call'[s] = call[s]
    BY <1>inv, <1>1, <1>4
  <1>6. RulesTypeOK'
    BY <1>inv, <1>1, <1>5 DEF RulesTypeOK, CallRecord
  <1>7. OpTypes'
    BY <1>inv, <1>1, <1>3 DEF OpTypes
  <1>8. DataTypes'
    BY <1>inv, <1>1, <1>3 DEF DataTypes
  <1>9. Links'
    <2> SUFFICES ASSUME NEW s \in Threads
                 PROVE  /\ match_rule_mutex' = s => call'[s].at \in {"asked", "replied"}
                        /\ op'[s].at \in {"enter", "ask", "assign"} => op'[s].rule \in Watched
                        /\ call'[s].at # "none" =>
                             /\ op'[s].at = "match"
                             /\ call'[s].rule \in OtherRules /\ call'[s].what # "GetNameOwner"
      BY DEF Links
    <2>1. CASE s = t
      BY <1>1, <1>3, <1>4, <1>5, <2>1
    <2>2. CASE s # t
      BY <1>inv, <1>1, <1>3, <1>5, <2>2 DEF Links
    <2> QED
      BY <2>1, <2>2
  <1>10. Traffic' /\ OneReply'
    <2>1. \A s \in Threads : call[s].at = "asked" => call'[s].at = "asked"
      BY <1>3, <1>5
    <2> QED
      BY <1>1, <2>1, TrafficKept
  <1> QED
    BY <1>6, <1>7, <1>8, <1>9, <1>10, CallsFromParts

LEMMA MatchDoneCalls ==
  ASSUME Calls, NEW t \in Threads, MatchDone(t)
  PROVE  Calls'
  <1>inv. RulesTypeOK /\ OpTypes /\ DataTypes /\ Links /\ call \in [Threads -> CallRecord]
    BY CallsParts
  <1>1. /\ op[t].at = "match" /\ call[t].at = "done"
        /\ call' = [call EXCEPT ![t] = NoCall] /\ op' = [op EXCEPT ![t] = NoOp]
        /\ UNCHANGED <<match_rules, match_rule_mutex, bus, wire, queue, doubtful, connected, callbacks,
                       cb_mutex, unique, handled, signals, looked_up, calls, disconnects>>
    BY DEF MatchDone
  <1>2. NoCall \in CallRecord /\ NoCall.at = "none" /\ NoOp \in OpRecord /\ NoOp.at = "idle"
    BY DEF NoCall, NoOp, CallRecord, OpRecord, Kinds
  <1>3. /\ call' \in [Threads -> CallRecord] /\ op' \in [Threads -> OpRecord]
        /\ call'[t].at = "none" /\ op'[t].at = "idle"
        /\ \A s \in Threads \ {t} : call'[s] = call[s] /\ op'[s] = op[s]
    BY <1>inv, <1>1, <1>2 DEF OpTypes
  <1>4. match_rule_mutex # t
    BY <1>inv, <1>1 DEF Links
  <1>5. RulesTypeOK'
    BY <1>inv, <1>1, <1>3 DEF RulesTypeOK, CallRecord
  <1>6. OpTypes'
    BY <1>inv, <1>1, <1>3, <1>4 DEF OpTypes
  <1>7. DataTypes'
    BY <1>inv, <1>1 DEF DataTypes
  <1>8. Links'
    <2> SUFFICES ASSUME NEW s \in Threads
                 PROVE  /\ match_rule_mutex' = s => call'[s].at \in {"asked", "replied"}
                        /\ op'[s].at \in {"enter", "ask", "assign"} => op'[s].rule \in Watched
                        /\ call'[s].at # "none" =>
                             /\ op'[s].at = "match"
                             /\ call'[s].rule \in OtherRules /\ call'[s].what # "GetNameOwner"
      BY DEF Links
    <2>1. CASE s = t
      BY <1>1, <1>3, <1>4, <2>1
    <2>2. CASE s # t
      BY <1>inv, <1>1, <1>3, <2>2 DEF Links
    <2> QED
      BY <2>1, <2>2
  <1>9. Traffic' /\ OneReply'
    <2>1. \A s \in Threads : call[s].at = "asked" => call'[s].at = "asked"
      BY <1>1, <1>3
    <2> QED
      BY <1>1, <2>1, TrafficKept
  <1> QED
    BY <1>5, <1>6, <1>7, <1>8, <1>9, CallsFromParts

LEMMA EnterCalls ==
  ASSUME Calls, NEW t \in Threads, Enter(t)
  PROVE  Calls'
  <1>inv. RulesTypeOK /\ OpTypes /\ DataTypes /\ Links
    BY CallsParts
  <1>1. PICK at \in {"ask", "assign"} : op' = [op EXCEPT ![t].at = at]
    BY DEF Enter
  <1>2. /\ op[t].at = "enter" /\ cb_mutex = "free" /\ cb_mutex' = t
        /\ UNCHANGED <<ruleVars, connected, callbacks, unique, handled, signals, looked_up, calls, disconnects>>
    BY DEF Enter
  <1> DEFINE e == [op[t] EXCEPT !.at = at]
  <1>3. e \in OpRecord /\ e.at = at /\ e.rule = op[t].rule /\ op' = [op EXCEPT ![t] = e]
    BY <1>inv, <1>1 DEF OpTypes, OpRecord
  <1> HIDE DEF e
  <1>4. /\ op' \in [Threads -> OpRecord]
        /\ \A s \in Threads \ {t} : op'[s] = op[s]
        /\ op'[t].at = at /\ op'[t].rule = op[t].rule
    BY <1>inv, <1>3 DEF OpTypes
  <1>5. RulesTypeOK'
    BY <1>inv, <1>2, RuleTypesKept
  <1>6. OpTypes'
    <2>1. \A s \in Threads : cb_mutex' = s <=> op'[s].at \in {"ask", "assign"}
      <3>1. \A s \in Threads : op[s].at \notin {"ask", "assign"}
        BY <1>inv, <1>2, MatchRulesAssumption DEF OpTypes
      <3> QED
        BY <1>1, <1>2, <1>4, <3>1
    <2>2. \A s \in Threads : match_rule_mutex' = s => op'[s].at = "match"
      BY <1>inv, <1>2, <1>4 DEF OpTypes, ruleVars
    <2> QED
      BY <1>4, <2>1, <2>2 DEF OpTypes
  <1>7. DataTypes'
    BY <1>inv, <1>2 DEF DataTypes
  <1>8. Links'
    <2>1. \A s \in Threads : op'[s].rule = op[s].rule /\ (op'[s].at = op[s].at \/ s = t)
      BY <1>4
    <2> QED
      BY <1>inv, <1>2, <2>1 DEF Links, ruleVars
  <1>9. Traffic' /\ OneReply'
    BY <1>2, TrafficKept DEF ruleVars
  <1> QED
    BY <1>5, <1>6, <1>7, <1>8, <1>9, CallsFromParts

LEMMA AskForRuleCalls ==
  ASSUME Calls, NEW t \in Threads, AskForRule(t)
  PROVE  Calls'
  <1>inv. RulesTypeOK /\ OpTypes /\ DataTypes /\ Links
    BY CallsParts
  <1> DEFINE what == What(op[t].on)
             rule == op[t].rule
  <1>1. PICK ok \in BOOLEAN :
           /\ op' = [op EXCEPT ![t].at = "assign", ![t].ok = ok]
           /\ \/ UNCHANGED ruleVars
              \/ \E sent \in BOOLEAN : AskQuietly(what, rule, sent)
    BY DEF AskForRule
  <1>2. /\ op[t].at = "ask"
        /\ UNCHANGED <<connected, callbacks, cb_mutex, unique, handled, signals, looked_up, calls, disconnects>>
    BY DEF AskForRule
  <1>3. op[t] \in OpRecord /\ op[t].rule \in Watched /\ op[t].rule \in Rules
    BY <1>inv, <1>2, NameWatchAssumption DEF OpTypes, Links
  <1> DEFINE e == [op[t] EXCEPT !.at = "assign", !.ok = ok]
  <1>4. e \in OpRecord /\ e.at = "assign" /\ e.rule = op[t].rule /\ op' = [op EXCEPT ![t] = e]
    BY <1>inv, <1>1, <1>3 DEF OpTypes, OpRecord
  <1> HIDE DEF e
  <1>5. /\ op' \in [Threads -> OpRecord]
        /\ \A s \in Threads \ {t} : op'[s] = op[s]
        /\ op'[t].at = "assign" /\ op'[t].rule = op[t].rule
    BY <1>inv, <1>4 DEF OpTypes
  <1>6. what \in Kinds /\ what # "GetNameOwner" /\ rule \in Watched /\ rule \in Rules
    BY <1>3 DEF What, Kinds
  <1> HIDE DEF what, rule
  <1>7. /\ match_rule_mutex' = match_rule_mutex /\ UNCHANGED <<call, bus, queue>>
        /\ match_rules' \subseteq Rules /\ doubtful' \subseteq Rules
        /\ wire' \in Seq(Request)
        /\ \/ UNCHANGED wire
           \/ \E m : Grows(wire, wire', m) /\ FitsWire(m) /\ m.by \notin Threads
    <2>1. CASE UNCHANGED ruleVars
      BY <1>inv, <2>1 DEF ruleVars, RulesTypeOK
    <2>2. CASE \E sent \in BOOLEAN : AskQuietly(what, rule, sent)
      <3>1. PICK sent \in BOOLEAN : AskQuietly(what, rule, sent)
        BY <2>2
      <3>2. UNCHANGED <<match_rule_mutex, call, bus, queue>> /\ match_rules' = Updated(what, rule, TRUE)
        BY <3>1 DEF AskQuietly
      <3>3. match_rules' \subseteq Rules /\ doubtful' \subseteq Rules
        BY <1>inv, <1>6, <3>1, <3>2 DEF RulesTypeOK, Updated, AskQuietly
      <3>4. CASE UNCHANGED wire
        BY <1>inv, <3>2, <3>3, <3>4 DEF RulesTypeOK
      <3>5. CASE wire' = Sent("nobody", what, rule)
        <4> DEFINE m == [by |-> "nobody", what |-> what, rule |-> rule, of |-> 0, late |-> FALSE]
        <4>1. wire' = SentFor("nobody", what, rule, 0)
          BY <3>5 DEF Sent
        <4>2. "nobody" \in Receivers /\ 0 \in Nat
          BY DEF Receivers
        <4>3. wire' \in Seq(Request) /\ Grows(wire, wire', m)
          BY <1>6, <4>1, <4>2, SentFacts
        <4>4. FitsWire(m) /\ m.by \notin Threads
          BY <1>6, MatchRulesAssumption DEF FitsWire
        <4> HIDE DEF m
        <4> QED
          BY <3>2, <3>3, <4>3, <4>4
      <3> QED
        BY <3>1, <3>4, <3>5 DEF AskQuietly
    <2> QED
      BY <1>1, <2>1, <2>2
  <1>8. RulesTypeOK'
    BY <1>inv, <1>7 DEF RulesTypeOK
  <1>9. OpTypes'
    <2>1. \A s \in Threads : cb_mutex' = s <=> op'[s].at \in {"ask", "assign"}
      BY <1>inv, <1>2, <1>5 DEF OpTypes
    <2>2. \A s \in Threads : match_rule_mutex' = s => op'[s].at = "match"
      BY <1>inv, <1>2, <1>5, <1>7 DEF OpTypes
    <2> QED
      BY <1>5, <2>1, <2>2 DEF OpTypes
  <1>10. DataTypes'
    BY <1>inv, <1>2 DEF DataTypes
  <1>11. Links'
    <2>1. \A s \in Threads : op'[s].rule = op[s].rule /\ (op'[s].at = op[s].at \/ s = t)
      BY <1>5
    <2> QED
      BY <1>inv, <1>2, <1>7, <2>1 DEF Links
  <1>12. Traffic' /\ OneReply'
    BY <1>7, TrafficMoved
  <1> QED
    BY <1>8, <1>9, <1>10, <1>11, <1>12, CallsFromParts

LEMMA AssignCalls ==
  ASSUME Calls, NEW t \in Threads, Assign(t)
  PROVE  Calls'
  <1>inv. RulesTypeOK /\ OpTypes /\ DataTypes /\ Links
    BY CallsParts
  <1>1. /\ op[t].at = "assign"
        /\ callbacks' = CASE op[t].ok /\ op[t].on -> callbacks \cup {op[t].rule}
                          [] op[t].ok /\ ~op[t].on -> callbacks \ {op[t].rule}
                          [] OTHER -> callbacks
        /\ cb_mutex' = "free"
        /\ op' = [op EXCEPT ![t] = NoOp]
        /\ UNCHANGED <<ruleVars, connected, unique, handled, signals, looked_up, calls, disconnects>>
    BY DEF Assign
  <1>2. NoOp \in OpRecord /\ NoOp.at = "idle"
    BY DEF NoOp, OpRecord
  <1>3. /\ op' \in [Threads -> OpRecord] /\ op'[t].at = "idle"
        /\ \A s \in Threads \ {t} : op'[s] = op[s]
    BY <1>inv, <1>1, <1>2 DEF OpTypes
  <1>4. callbacks' \subseteq Watched
    <2>1. op[t].rule \in Watched /\ callbacks \subseteq Watched
      BY <1>inv, <1>1 DEF Links, DataTypes
    <2>2. \/ callbacks' = callbacks \cup {op[t].rule} \/ callbacks' = callbacks \ {op[t].rule}
          \/ callbacks' = callbacks
      BY <1>1
    <2> QED
      BY <2>1, <2>2
  <1>5. RulesTypeOK'
    BY <1>inv, <1>1, RuleTypesKept
  <1>6. OpTypes'
    <2>1. cb_mutex = t
      BY <1>inv, <1>1 DEF OpTypes
    <2>2. \A s \in Threads : cb_mutex' = s <=> op'[s].at \in {"ask", "assign"}
      BY <1>inv, <1>1, <1>3, <2>1, MatchRulesAssumption DEF OpTypes
    <2>3. \A s \in Threads : match_rule_mutex' = s => op'[s].at = "match"
      BY <1>inv, <1>1, <1>3 DEF OpTypes, ruleVars
    <2> QED
      BY <1>3, <2>2, <2>3 DEF OpTypes
  <1>7. DataTypes'
    BY <1>inv, <1>1, <1>4 DEF DataTypes
  <1>8. Links'
    BY <1>inv, <1>1, <1>3 DEF Links, ruleVars
  <1>9. Traffic' /\ OneReply'
    BY <1>1, TrafficKept DEF ruleVars
  <1> QED
    BY <1>5, <1>6, <1>7, <1>8, <1>9, CallsFromParts

LEMMA AskMatchCalls ==
  ASSUME Calls, NEW t \in Threads, AskMatch(t)
  PROVE  Calls'
  <1>inv. RulesTypeOK /\ OpTypes /\ DataTypes /\ Links /\ call \in [Threads -> CallRecord]
    BY CallsParts
  <1>traffic. /\ Len(wire) \in Nat /\ Len(queue) \in Nat
              /\ \A k \in 1..Len(wire) : FitsWire(wire[k])
              /\ \A k \in 1..Len(queue) : FitsQueue(queue[k])
              /\ \A s \in Threads : OneReplyFor(s)
    BY TrafficFacts
  <1> DEFINE c == call[t]
  <1>1. /\ c.at = "ready" /\ c.what # "GetNameOwner" /\ match_rule_mutex = "free"
        /\ UNCHANGED <<watchVars, match_rules, bus, queue>>
    BY DEF AskMatch, Ask
  <1>2. /\ c \in CallRecord /\ c.rule \in OtherRules /\ c.rule \in Rules
        /\ op[t].at = "match" /\ c.what \in Kinds
    BY <1>inv, <1>1, NameWatchAssumption DEF Links, CallRecord
  <1>3. DataTypes' /\ UNCHANGED <<op, cb_mutex>>
    BY <1>inv, <1>1 DEF DataTypes, watchVars
  <1>4. CASE /\ \E ok \in BOOLEAN : call' = [call EXCEPT ![t].at = "done", ![t].ok = ok]
             /\ UNCHANGED <<match_rule_mutex, wire, doubtful>>
    <2>1. PICK ok \in BOOLEAN : call' = [call EXCEPT ![t].at = "done", ![t].ok = ok]
      BY <1>4
    <2> DEFINE e == [call[t] EXCEPT !.at = "done", !.ok = ok]
    <2>2. e \in CallRecord /\ e.at = "done" /\ e.what = c.what /\ e.rule = c.rule
      BY <1>2 DEF CallRecord
    <2>3. call' = [call EXCEPT ![t] = e]
      BY <1>inv, <2>1
    <2> HIDE DEF e
    <2>4. /\ call' \in [Threads -> CallRecord] /\ call'[t].at = "done"
          /\ \A s \in Threads : /\ call'[s].what = call[s].what /\ call'[s].rule = call[s].rule
                                /\ s # t => call'[s] = call[s]
      BY <1>inv, <2>2, <2>3
    <2>5. RulesTypeOK'
      BY <1>inv, <1>1, <1>4, <2>4 DEF RulesTypeOK, CallRecord
    <2>6. OpTypes'
      BY <1>inv, <1>3, <1>4 DEF OpTypes
    <2>7. Links'
      <3> SUFFICES ASSUME NEW s \in Threads
                   PROVE  /\ match_rule_mutex' = s => call'[s].at \in {"asked", "replied"}
                          /\ op'[s].at \in {"enter", "ask", "assign"} => op'[s].rule \in Watched
                          /\ call'[s].at # "none" =>
                               /\ op'[s].at = "match"
                               /\ call'[s].rule \in OtherRules /\ call'[s].what # "GetNameOwner"
        BY DEF Links
      <3>1. match_rule_mutex' # s
        BY <1>1, <1>4, MatchRulesAssumption
      <3>2. call[s].at # "none" => op[s].at = "match" /\ call[s].rule \in OtherRules /\ call[s].what # "GetNameOwner"
        BY <1>inv DEF Links
      <3>3. call'[s].at # "none" => call[s].at # "none"
        BY <1>1, <2>4
      <3>4. op'[s].at \in {"enter", "ask", "assign"} => op'[s].rule \in Watched
        BY <1>inv, <1>3 DEF Links
      <3> QED
        BY <1>3, <2>4, <3>1, <3>2, <3>3, <3>4
    <2>8. Traffic' /\ OneReply'
      <3>1. \A s \in Threads : call[s].at = "asked" => call'[s].at = "asked"
        BY <1>1, <2>4
      <3> QED
        BY <1>1, <1>4, <3>1, TrafficKept
    <2> QED
      BY <1>3, <2>5, <2>6, <2>7, <2>8, CallsFromParts
  <1>5. CASE /\ match_rule_mutex' = t
             /\ wire' = Sent(t, c.what, c.rule)
             /\ call' = [call EXCEPT ![t].at = "asked"]
             /\ doubtful' = doubtful \cup Doubled(c.what, c.rule)
    <2> DEFINE e == [call[t] EXCEPT !.at = "asked"]
               m == [by |-> t, what |-> c.what, rule |-> c.rule, of |-> 0, late |-> FALSE]
    <2>1. e \in CallRecord /\ e.at = "asked" /\ e.what = c.what /\ e.rule = c.rule
      BY <1>2 DEF CallRecord
    <2>2. call' = [call EXCEPT ![t] = e]
      BY <1>inv, <1>5
    <2>3. wire' \in Seq(Request) /\ Grows(wire, wire', m)
      <3>1. wire' = SentFor(t, c.what, c.rule, 0)
        BY <1>5 DEF Sent
      <3>2. t \in Receivers /\ 0 \in Nat
        BY DEF Receivers
      <3> QED
        BY <1>2, <3>1, <3>2, SentFacts
    <2>4. FitsWire(m) /\ m.by = t
      BY <1>1, <1>2 DEF FitsWire
    <2> HIDE DEF e, m
    <2>5. /\ call' \in [Threads -> CallRecord] /\ call'[t].at = "asked"
          /\ \A s \in Threads : /\ call'[s].what = call[s].what /\ call'[s].rule = call[s].rule
                                /\ s # t => call'[s] = call[s]
      BY <1>inv, <2>1, <2>2
    <2>6. doubtful' \subseteq Rules
      BY <1>inv, <1>2, <1>5 DEF Doubled, RulesTypeOK
    <2>7. RulesTypeOK'
      BY <1>inv, <1>1, <1>5, <2>3, <2>5, <2>6 DEF RulesTypeOK, CallRecord
    <2>8. OpTypes'
      BY <1>inv, <1>2, <1>3, <1>5 DEF OpTypes
    <2>9. Links'
      <3> SUFFICES ASSUME NEW s \in Threads
                   PROVE  /\ match_rule_mutex' = s => call'[s].at \in {"asked", "replied"}
                          /\ op'[s].at \in {"enter", "ask", "assign"} => op'[s].rule \in Watched
                          /\ call'[s].at # "none" =>
                               /\ op'[s].at = "match"
                               /\ call'[s].rule \in OtherRules /\ call'[s].what # "GetNameOwner"
        BY DEF Links
      <3>1. match_rule_mutex' = s => call'[s].at \in {"asked", "replied"}
        BY <1>5, <2>5
      <3>2. call[s].at # "none" => op[s].at = "match" /\ call[s].rule \in OtherRules /\ call[s].what # "GetNameOwner"
        BY <1>inv DEF Links
      <3>3. call'[s].at # "none" => call[s].at # "none"
        BY <1>1, <2>5
      <3>4. op'[s].at \in {"enter", "ask", "assign"} => op'[s].rule \in Watched
        BY <1>inv, <1>3 DEF Links
      <3> QED
        BY <1>3, <2>5, <3>1, <3>2, <3>3, <3>4
    <2>10. /\ Len(wire') \in Nat
           /\ \A i \in 1..Len(wire') : \/ i \in 1..Len(wire) /\ wire'[i] = wire[i]
                                       \/ i = Len(wire) + 1 /\ wire'[i] = m
      BY <1>traffic, <2>3, WirePut
    <2>11. Traffic'
      <3>1. \A i \in 1..Len(wire') : FitsWire(wire'[i])
        BY <1>traffic, <2>4, <2>10
      <3>2. \A i \in 1..Len(queue') : FitsQueue(queue'[i])
        BY <1>traffic, <1>1
      <3> QED
        BY <3>1, <3>2 DEF Traffic, FitsWire, FitsQueue
    <2>12. \A s \in Threads : OneReplyFor(s)'
      <3> TAKE s \in Threads
      <3>1. CASE s = t
        <4>1. /\ \A i \in 1..Len(wire) : ~Awaited(wire[i], t)
              /\ \A i \in 1..Len(queue) : queue[i].to # t
          BY <1>1, <1>traffic DEF OneReplyFor
        <4>2. /\ \A i \in 1..Len(wire') : Awaited(wire'[i], t) => i = Len(wire) + 1
              /\ \A i \in 1..Len(queue') : queue'[i].to # t
          BY <1>1, <2>10, <4>1
        <4> QED
          BY <2>5, <3>1, <4>2 DEF OneReplyFor, Awaited
      <3>2. CASE s # t
        <4>1. \A i \in 1..Len(wire') : Awaited(wire'[i], s) =>
                 i + 0 \in 1..Len(wire) /\ Awaited(wire[i + 0], s)
          BY <1>traffic, <2>4, <2>10, <3>2 DEF Awaited
        <4>2. \A i \in 1..Len(queue') : queue'[i].to = s =>
                 i + 0 \in 1..Len(queue) /\ queue[i + 0].to = s
          BY <1>traffic, <1>1
        <4>3. 0 \in 0..1 /\ OneReplyFor(s) /\ call'[s] = call[s] /\ Len(queue') \in Nat
          BY <1>traffic, <1>1, <2>5, <3>2
        <4> QED
          BY <1>traffic, <2>10, <4>1, <4>2, <4>3, Carried
      <3> QED
        BY <3>1, <3>2
    <2> QED
      BY <1>3, <2>7, <2>8, <2>9, <2>11, <2>12, CallsFromParts DEF OneReply
  <1> QED
    BY <1>4, <1>5 DEF AskMatch, Ask

LEMMA FinishCalls ==
  ASSUME Calls, NEW t \in Threads, Finish(t), UNCHANGED watchVars
  PROVE  Calls'
  <1>inv. RulesTypeOK /\ OpTypes /\ DataTypes /\ Links /\ call \in [Threads -> CallRecord]
    BY CallsParts
  <1>1. /\ call[t].at = "replied" /\ call[t].what # "GetNameOwner"
        /\ match_rules' = Updated(call[t].what, call[t].rule, call[t].ok)
        /\ match_rule_mutex' = "free"
        /\ call' = [call EXCEPT ![t].at = "done"]
        /\ UNCHANGED <<bus, wire, queue, doubtful>>
    BY DEF Finish
  <1>2. call[t].rule \in Rules /\ call[t] \in CallRecord
    BY <1>inv, <1>1, NameWatchAssumption DEF Links
  <1>3. match_rules' \subseteq Rules
    BY <1>inv, <1>1, <1>2 DEF RulesTypeOK, Updated
  <1> DEFINE e == [call[t] EXCEPT !.at = "done"]
  <1>4. e \in CallRecord /\ e.at = "done" /\ e.what = call[t].what /\ e.rule = call[t].rule
    BY <1>2 DEF CallRecord
  <1>5. call' = [call EXCEPT ![t] = e]
    BY <1>inv, <1>1
  <1> HIDE DEF e
  <1>6. /\ call' \in [Threads -> CallRecord] /\ call'[t].at = "done"
        /\ \A s \in Threads : /\ call'[s].what = call[s].what /\ call'[s].rule = call[s].rule
                              /\ s # t => call'[s] = call[s]
    BY <1>inv, <1>4, <1>5
  <1>7. \A s \in Threads : match_rule_mutex' # s
    BY <1>1, MatchRulesAssumption
  <1>8. RulesTypeOK'
    BY <1>inv, <1>1, <1>3, <1>6 DEF RulesTypeOK, CallRecord
  <1>9. DataTypes' /\ UNCHANGED <<op, cb_mutex>>
    BY <1>inv DEF DataTypes, watchVars
  <1>10. OpTypes'
    BY <1>inv, <1>7, <1>9 DEF OpTypes
  <1>11. Links'
    <2> SUFFICES ASSUME NEW s \in Threads
                 PROVE  /\ match_rule_mutex' = s => call'[s].at \in {"asked", "replied"}
                        /\ op'[s].at \in {"enter", "ask", "assign"} => op'[s].rule \in Watched
                        /\ call'[s].at # "none" =>
                             /\ op'[s].at = "match"
                             /\ call'[s].rule \in OtherRules /\ call'[s].what # "GetNameOwner"
      BY DEF Links
    <2>1. call[s].at # "none" => op[s].at = "match" /\ call[s].rule \in OtherRules /\ call[s].what # "GetNameOwner"
      BY <1>inv DEF Links
    <2>2. call'[s].at # "none" => call[s].at # "none"
      BY <1>1, <1>6
    <2>3. op'[s].at \in {"enter", "ask", "assign"} => op'[s].rule \in Watched
      BY <1>inv, <1>9 DEF Links
    <2> QED
      BY <1>6, <1>7, <1>9, <2>1, <2>2, <2>3
  <1>12. Traffic' /\ OneReply'
    <2>1. \A s \in Threads : call[s].at = "asked" => call'[s].at = "asked"
      BY <1>1, <1>6
    <2> QED
      BY <1>1, <2>1, TrafficKept
  <1> QED
    BY <1>8, <1>9, <1>10, <1>11, <1>12, CallsFromParts

IsSignal(m) == m.what = "Signal"
IsLookup(m) == m.what = "GetNameOwner" /\ ~m.late
IsOwner(m) == m.what = "GetNameOwner" /\ m.ok

\* Signals are queued in the order of their numbers, behind every one that was
\* looked up or handled before.
SignalsAhead ==
  /\ \A k \in 1..Len(queue) : IsSignal(queue[k]) => queue[k].of \in 1..signals
  /\ \A i, j \in 1..Len(queue) : i < j /\ IsSignal(queue[i]) /\ IsSignal(queue[j]) =>
       queue[i].of < queue[j].of
  /\ \A k \in 1..Len(queue), n \in looked_up : IsSignal(queue[k]) => n < queue[k].of
  /\ \A k \in 1..Len(queue), i \in 1..Len(handled) : IsSignal(queue[k]) => handled[i] < queue[k].of

\* Lookups go out and come back in the order of the signals they are made for,
\* and those signals are handled in that order.
LookupsInOrder ==
  /\ \A k \in 1..Len(wire) : IsLookup(wire[k]) => wire[k].of \in looked_up
  /\ \A k \in 1..Len(queue) : IsOwner(queue[k]) => queue[k].of \in looked_up
  /\ \A i, j \in 1..Len(wire) : i < j /\ IsLookup(wire[i]) /\ IsLookup(wire[j]) => wire[i].of < wire[j].of
  /\ \A i, j \in 1..Len(queue) : i < j /\ IsOwner(queue[i]) /\ IsOwner(queue[j]) => queue[i].of < queue[j].of
  /\ \A i \in 1..Len(queue), j \in 1..Len(wire) : IsOwner(queue[i]) /\ IsLookup(wire[j]) =>
       queue[i].of < wire[j].of
  /\ \A i \in 1..Len(handled), k \in 1..Len(queue) : handled[i] \in looked_up /\ IsOwner(queue[k]) =>
       handled[i] < queue[k].of
  /\ \A i \in 1..Len(handled), k \in 1..Len(wire) : handled[i] \in looked_up /\ IsLookup(wire[k]) =>
       handled[i] < wire[k].of

Numbers == SignalsAhead /\ LookupsInOrder /\ InOrder

\* The callbacks that were called, and one more.
LEMMA HandledType ==
  ASSUME Calls, NEW item, item.of \in 1..signals
  PROVE  HandledBy(item) \in Seq(1..signals)
  <1>1. handled \in Seq(1..signals)
    BY CallsParts DEF DataTypes
  <1>2. Append(handled, item.of) \in Seq(1..signals)
    BY <1>1
  <1> QED
    BY <1>1, <1>2 DEF HandledBy

\* Nothing but wire, queue and what the dispatch thread works on is touched.
LEMMA DispatchCalls ==
  ASSUME Calls,
         UNCHANGED <<match_rules, match_rule_mutex, call, bus, doubtful, cb_mutex, op>>,
         DataTypes', wire' \in Seq(Request), queue' \in Seq(Item),
         \/ UNCHANGED wire
         \/ \E m : Grows(wire, wire', m) /\ FitsWire(m) /\ m.by \notin Threads,
         \/ UNCHANGED queue
         \/ Shrinks(queue, queue')
         \/ \E m : Grows(queue, queue', m) /\ FitsQueue(m) /\ m.to \notin Threads
  PROVE  Calls'
  <1>inv. RulesTypeOK /\ OpTypes /\ Links
    BY CallsParts
  <1>1. RulesTypeOK'
    BY <1>inv DEF RulesTypeOK
  <1>2. OpTypes'
    BY <1>inv DEF OpTypes
  <1>3. Links'
    BY <1>inv DEF Links
  <1>4. Traffic' /\ OneReply'
    BY TrafficMoved
  <1> QED
    BY <1>1, <1>2, <1>3, <1>4, CallsFromParts

LEMMA OnSignalCalls ==
  ASSUME Calls, Numbers, on_signal
  PROVE  Calls'
  <1>inv. RulesTypeOK /\ DataTypes
    BY CallsParts
  <1> DEFINE h == queue[1]
  <1>1. /\ h \in Item /\ Head(queue) = h /\ queue' \in Seq(Item) /\ Shrinks(queue, queue')
    BY TakeFacts DEF on_signal
  <1>2. 1 \in 1..Len(queue)
    BY <1>1, TrafficFacts DEF Shrinks
  <1>3. h.of \in 1..signals /\ h.of \in Nat /\ h.rule \in Rules \cup {NoRule} /\ h.what = "Signal"
    <2>1. h.what = "Signal"
      BY <1>1 DEF on_signal
    <2> QED
      BY <1>1, <1>2, <2>1 DEF Numbers, SignalsAhead, IsSignal, Item
  <1>4. /\ \/ UNCHANGED <<wire, handled, looked_up>>
           \/ /\ wire' = SentFor("async", "GetNameOwner", h.rule, h.of)
              /\ looked_up' = looked_up \cup {h.of}
              /\ UNCHANGED handled
           \/ /\ handled' = HandledBy(h)
              /\ UNCHANGED <<wire, looked_up>>
        /\ UNCHANGED <<match_rules, match_rule_mutex, call, bus, doubtful, connected, callbacks,
                       cb_mutex, unique, op, signals, calls, disconnects>>
    BY <1>1 DEF on_signal
  <1> HIDE DEF h
  <1>5. CASE UNCHANGED <<wire, handled, looked_up>>
    <2>1. DataTypes' /\ wire' \in Seq(Request)
      BY <1>inv, <1>4, <1>5 DEF DataTypes, RulesTypeOK
    <2> QED
      BY <1>1, <1>4, <1>5, <2>1, DispatchCalls
  <1>6. CASE /\ wire' = SentFor("async", "GetNameOwner", h.rule, h.of)
             /\ looked_up' = looked_up \cup {h.of}
             /\ UNCHANGED handled
    <2> DEFINE m == [by |-> "async", what |-> "GetNameOwner", rule |-> h.rule, of |-> h.of, late |-> FALSE]
    <2>1. "async" \in Receivers /\ "GetNameOwner" \in Kinds
      BY DEF Receivers, Kinds
    <2>2. wire' \in Seq(Request) /\ Grows(wire, wire', m)
      BY <1>3, <1>6, <2>1, SentFacts
    <2>3. FitsWire(m) /\ m.by \notin Threads
      BY MatchRulesAssumption DEF FitsWire
    <2>4. DataTypes'
      BY <1>inv, <1>3, <1>4, <1>6 DEF DataTypes
    <2> HIDE DEF m
    <2> QED
      BY <1>1, <1>4, <2>2, <2>3, <2>4, DispatchCalls
  <1>7. CASE handled' = HandledBy(h) /\ UNCHANGED <<wire, looked_up>>
    <2>1. handled' \in Seq(1..signals)
      BY <1>3, <1>7, HandledType
    <2>2. DataTypes' /\ wire' \in Seq(Request)
      BY <1>inv, <1>4, <1>7, <2>1 DEF DataTypes, RulesTypeOK
    <2> QED
      BY <1>1, <1>4, <1>7, <2>2, DispatchCalls
  <1> QED
    BY <1>4, <1>5, <1>6, <1>7

LEMMA OnOwnerCalls ==
  ASSUME Calls, Numbers, OnOwner
  PROVE  Calls'
  <1>inv. RulesTypeOK /\ DataTypes
    BY CallsParts
  <1> DEFINE h == queue[1]
  <1>1. /\ h \in Item /\ Head(queue) = h /\ queue' \in Seq(Item) /\ Shrinks(queue, queue')
        /\ FitsQueue(h)
    BY TakeFacts DEF OnOwner
  <1>2. 1 \in 1..Len(queue)
    BY <1>1, TrafficFacts DEF Shrinks
  <1>3. h.ok => h.of \in 1..signals
    <2>1. h.to = "async"
      BY <1>1 DEF OnOwner
    <2>2. h.what = "GetNameOwner"
      BY <1>1, <2>1, MatchRulesAssumption DEF FitsQueue
    <2>3. h.ok => h.of \in looked_up
      BY <1>2, <2>2 DEF Numbers, LookupsInOrder, IsOwner
    <2> QED
      BY <1>inv, <2>3 DEF DataTypes
  <1>4. /\ unique' = h.ok /\ h.ok \in BOOLEAN
        /\ handled' = IF h.ok THEN HandledBy(h) ELSE handled
        /\ UNCHANGED <<match_rules, match_rule_mutex, call, bus, wire, doubtful, connected, callbacks,
                       cb_mutex, op, signals, looked_up, calls, disconnects>>
    BY <1>1 DEF OnOwner, Item
  <1>5. handled' \in Seq(1..signals)
    BY <1>inv, <1>3, <1>4, HandledType DEF DataTypes
  <1> HIDE DEF h
  <1>6. DataTypes' /\ wire' \in Seq(Request)
    BY <1>inv, <1>4, <1>5 DEF DataTypes, RulesTypeOK
  <1> QED
    BY <1>1, <1>4, <1>6, DispatchCalls

LEMMA SignalCalls ==
  ASSUME Calls, NEW r \in Watched, Signal(r)
  PROVE  Calls'
  <1>inv. RulesTypeOK /\ DataTypes /\ Len(queue) \in Nat
    BY CallsParts, TrafficFacts
  <1> DEFINE m == [to |-> "filter", what |-> "Signal", rule |-> r, of |-> signals + 1, ok |-> TRUE]
  <1>1. /\ signals < MaxSignals /\ signals' = signals + 1
        /\ queue' = Append(queue, m)
        /\ UNCHANGED <<match_rules, match_rule_mutex, call, bus, wire, doubtful>>
        /\ UNCHANGED <<connected, callbacks, cb_mutex, unique, handled, op, looked_up, calls, disconnects>>
    BY DEF Signal, BusSignals
  <1>2. m \in Item
    BY <1>inv, SignalType, NameWatchAssumption DEF DataTypes
  <1>3. FitsQueue(m) /\ m.to \notin Threads
    BY MatchRulesAssumption DEF FitsQueue
  <1> HIDE DEF m
  <1>4. queue' \in Seq(Item) /\ Grows(queue, queue', m)
    BY <1>inv, <1>1, <1>2, AppendFacts DEF RulesTypeOK, Grows
  <1>5. signals \in Nat /\ signals' \in 0..MaxSignals /\ 1..signals \subseteq 1..signals'
    BY <1>inv, <1>1, NameWatchAssumption DEF DataTypes
  <1>6. handled' \in Seq(1..signals') /\ looked_up' \subseteq 1..signals'
    <2>1. handled \in Seq(1..signals) /\ looked_up \subseteq 1..signals
      BY <1>inv DEF DataTypes
    <2>2. handled \in Seq(1..signals')
      BY <1>5, <2>1, SeqWider
    <2> QED
      BY <1>1, <1>5, <2>1, <2>2
  <1>7. DataTypes' /\ wire' \in Seq(Request)
    BY <1>inv, <1>1, <1>5, <1>6 DEF DataTypes, RulesTypeOK
  <1> QED
    BY <1>1, <1>3, <1>4, <1>7, DispatchCalls

LEMMA ConnectCalls ==
  ASSUME Calls, Connect
  PROVE  Calls'
  <1>inv. RulesTypeOK /\ DataTypes
    BY CallsParts
  <1>1. /\ connected' = TRUE
        /\ UNCHANGED <<ruleVars, callbacks, cb_mutex, unique, handled, op, signals, looked_up, calls, disconnects>>
    BY DEF Connect
  <1>2. DataTypes' /\ wire' \in Seq(Request) /\ queue' \in Seq(Item)
    BY <1>inv, <1>1 DEF DataTypes, RulesTypeOK, ruleVars
  <1> QED
    BY <1>1, <1>2, DispatchCalls DEF ruleVars

LEMMA DisconnectCalls ==
  ASSUME Calls, Disconnect
  PROVE  Calls'
  <1>inv. RulesTypeOK /\ OpTypes /\ DataTypes /\ Links
    BY CallsParts
  <1>1. /\ disconnects < MaxDisconnects
        /\ connected' = FALSE /\ callbacks' = {} /\ unique' = FALSE
        /\ bus' = [r \in Rules |-> 0] /\ wire' = <<>> /\ queue' = <<>>
        /\ doubtful \subseteq doubtful' /\ doubtful' \subseteq doubtful \cup match_rules \cup Rules
        /\ disconnects' = disconnects + 1
        /\ UNCHANGED <<match_rules, match_rule_mutex, call, cb_mutex, handled, op, signals, looked_up, calls>>
    BY DEF Disconnect
  <1>2. wire' \in Seq(Request) /\ queue' \in Seq(Item) /\ Len(wire') = 0 /\ Len(queue') = 0
    BY <1>1
  <1>3. RulesTypeOK'
    BY <1>inv, <1>1, <1>2 DEF RulesTypeOK
  <1>4. DataTypes'
    <2>1. disconnects' \in 0..MaxDisconnects
      BY <1>inv, <1>1, NameWatchAssumption DEF DataTypes
    <2>2. {connected', unique'} \subseteq BOOLEAN /\ callbacks' \subseteq Watched
      BY <1>1
    <2> QED
      BY <1>inv, <1>1, <2>1, <2>2 DEF DataTypes
  <1>5. OpTypes'
    BY <1>inv, <1>1 DEF OpTypes
  <1>6. Links'
    BY <1>inv, <1>1 DEF Links
  <1>7. Traffic'
    BY <1>2 DEF Traffic
  <1>8. OneReply'
    BY <1>2 DEF OneReply, OneReplyFor
  <1> QED
    BY <1>3, <1>4, <1>5, <1>6, <1>7, <1>8, CallsFromParts

LEMMA InitCalls ==
  ASSUME Init
  PROVE  Calls
  <1>1. TypeOK
    <2>1. RulesTypeOK
      BY DEF Init, RulesInit, RulesTypeOK, NoCall, Kinds
    <2>2. NoOp \in OpRecord /\ NoOp.at = "idle"
      BY DEF NoOp, OpRecord
    <2>3. OpTypes
      BY <2>2, MatchRulesAssumption DEF Init, RulesInit, OpTypes
    <2>4. {connected, unique} \subseteq BOOLEAN /\ callbacks \subseteq Watched
      BY DEF Init
    <2>5. handled \in Seq(1..signals) /\ looked_up \subseteq 1..signals
      BY DEF Init
    <2>6. signals \in 0..MaxSignals /\ calls \in 0..MaxCalls /\ disconnects \in 0..MaxDisconnects
      BY NameWatchAssumption DEF Init
    <2> QED
      BY <2>1, <2>3, <2>4, <2>5, <2>6, TypesInParts DEF DataTypes
  <1>2. wire = <<>> /\ queue = <<>>
    BY DEF Init, RulesInit
  <1>3. Traffic /\ OneReply
    BY <1>2 DEF Traffic, OneReply, OneReplyFor
  <1>4. Links
    BY MatchRulesAssumption DEF Init, RulesInit, Links, NoOp, NoCall
  <1> QED
    BY <1>1, <1>3, <1>4 DEF Calls

-----------------------------------------------------------------------------
(* The order of the signals. *)

LEMMA NumberTypes ==
  ASSUME Calls
  PROVE  /\ Len(handled) \in Nat /\ DOMAIN handled = 1..Len(handled) /\ signals \in Nat
         /\ \A i \in 1..Len(handled) : handled[i] \in 1..signals
         /\ \A n \in looked_up : n \in 1..signals
         /\ Len(wire) \in Nat /\ Len(queue) \in Nat
         /\ \A k \in 1..Len(wire) : wire[k].of \in Nat
         /\ \A k \in 1..Len(queue) : queue[k].of \in Nat
  <1>1. handled \in Seq(1..signals) /\ looked_up \subseteq 1..signals /\ signals \in Nat
    BY CallsParts DEF DataTypes
  <1>2. /\ Len(wire) \in Nat /\ Len(queue) \in Nat
        /\ \A k \in 1..Len(wire) : wire[k].of \in Nat
        /\ \A k \in 1..Len(queue) : queue[k].of \in Nat
    BY TrafficFacts DEF Request, Item
  <1> QED
    BY <1>1, <1>2

\* No signal comes, is looked up or is handled, and no owner becomes known.
LEMMA NumbersKept ==
  ASSUME Calls, Numbers, Calls', NEW dw \in 0..1, NEW dq \in 0..1,
         UNCHANGED <<handled, looked_up, signals>>,
         \A i \in 1..Len(wire') : IsLookup(wire'[i]) =>
           i + dw \in 1..Len(wire) /\ IsLookup(wire[i + dw]) /\ wire'[i].of = wire[i + dw].of,
         \A i \in 1..Len(queue') : IsSignal(queue'[i]) \/ IsOwner(queue'[i]) =>
           i + dq \in 1..Len(queue) /\ queue'[i] = queue[i + dq]
  PROVE  Numbers'
  <1>types. Len(wire') \in Nat /\ Len(queue') \in Nat
    BY TrafficFacts, CallsParts DEF Calls, TypeOK, RulesTypeOK
  <1>inv. SignalsAhead /\ LookupsInOrder /\ InOrder
    BY DEF Numbers
  <1>1. SignalsAhead'
    <2>1. \A k \in 1..Len(queue') : IsSignal(queue'[k]) => queue'[k].of \in 1..signals
      BY <1>inv DEF SignalsAhead
    <2>2. \A i, j \in 1..Len(queue') : i < j /\ IsSignal(queue'[i]) /\ IsSignal(queue'[j]) =>
            queue'[i].of < queue'[j].of
      <3> SUFFICES ASSUME NEW i \in 1..Len(queue'), NEW j \in 1..Len(queue'), i < j,
                          IsSignal(queue'[i]), IsSignal(queue'[j])
                   PROVE  queue'[i].of < queue'[j].of
        OBVIOUS
      <3>1. i + dq < j + dq
        BY <1>types
      <3> QED
        BY <1>inv, <3>1 DEF SignalsAhead
    <2>3. \A k \in 1..Len(queue'), n \in looked_up : IsSignal(queue'[k]) => n < queue'[k].of
      BY <1>inv DEF SignalsAhead
    <2>4. \A k \in 1..Len(queue'), i \in 1..Len(handled) : IsSignal(queue'[k]) => handled[i] < queue'[k].of
      BY <1>inv DEF SignalsAhead
    <2> QED
      BY <2>1, <2>2, <2>3, <2>4 DEF SignalsAhead, IsSignal
  <1>2. LookupsInOrder'
    <2>1. \A k \in 1..Len(wire') : IsLookup(wire'[k]) => wire'[k].of \in looked_up
      BY <1>inv DEF LookupsInOrder
    <2>2. \A k \in 1..Len(queue') : IsOwner(queue'[k]) => queue'[k].of \in looked_up
      BY <1>inv DEF LookupsInOrder
    <2>3. \A i, j \in 1..Len(wire') : i < j /\ IsLookup(wire'[i]) /\ IsLookup(wire'[j]) =>
            wire'[i].of < wire'[j].of
      <3> SUFFICES ASSUME NEW i \in 1..Len(wire'), NEW j \in 1..Len(wire'), i < j,
                          IsLookup(wire'[i]), IsLookup(wire'[j])
                   PROVE  wire'[i].of < wire'[j].of
        OBVIOUS
      <3>1. i + dw < j + dw
        BY <1>types
      <3>2. wire[i + dw].of < wire[j + dw].of
        BY <1>inv, <3>1 DEF LookupsInOrder
      <3> QED
        BY <3>2
    <2>4. \A i, j \in 1..Len(queue') : i < j /\ IsOwner(queue'[i]) /\ IsOwner(queue'[j]) =>
            queue'[i].of < queue'[j].of
      <3> SUFFICES ASSUME NEW i \in 1..Len(queue'), NEW j \in 1..Len(queue'), i < j,
                          IsOwner(queue'[i]), IsOwner(queue'[j])
                   PROVE  queue'[i].of < queue'[j].of
        OBVIOUS
      <3>1. i + dq < j + dq
        BY <1>types
      <3> QED
        BY <1>inv, <3>1 DEF LookupsInOrder
    <2>5. \A i \in 1..Len(queue'), j \in 1..Len(wire') : IsOwner(queue'[i]) /\ IsLookup(wire'[j]) =>
            queue'[i].of < wire'[j].of
      <3> SUFFICES ASSUME NEW i \in 1..Len(queue'), NEW j \in 1..Len(wire'),
                          IsOwner(queue'[i]), IsLookup(wire'[j])
                   PROVE  queue'[i].of < wire'[j].of
        OBVIOUS
      <3>1. queue[i + dq].of < wire[j + dw].of
        BY <1>inv DEF LookupsInOrder
      <3> QED
        BY <3>1
    <2>6. \A i \in 1..Len(handled), k \in 1..Len(queue') : handled[i] \in looked_up /\ IsOwner(queue'[k]) =>
            handled[i] < queue'[k].of
      BY <1>inv DEF LookupsInOrder
    <2>7. \A i \in 1..Len(handled), k \in 1..Len(wire') : handled[i] \in looked_up /\ IsLookup(wire'[k]) =>
            handled[i] < wire'[k].of
      <3> SUFFICES ASSUME NEW i \in 1..Len(handled), NEW k \in 1..Len(wire'),
                          handled[i] \in looked_up, IsLookup(wire'[k])
                   PROVE  handled[i] < wire'[k].of
        OBVIOUS
      <3>1. handled[i] < wire[k + dw].of
        BY <1>inv DEF LookupsInOrder
      <3> QED
        BY <3>1
    <2> QED
      BY <2>1, <2>2, <2>3, <2>4, <2>5, <2>6, <2>7 DEF LookupsInOrder, IsLookup, IsOwner
  <1>3. InOrder'
    BY <1>inv DEF InOrder
  <1> QED
    BY <1>1, <1>2, <1>3 DEF Numbers

\* What is sent is no lookup, what is queued no signal and no owner.
LEMMA NumbersMoved ==
  ASSUME Calls, Numbers, Calls', UNCHANGED <<handled, looked_up, signals>>,
         \/ UNCHANGED wire
         \/ Shrinks(wire, wire')
         \/ \E m : Grows(wire, wire', m) /\ ~IsLookup(m),
         \/ UNCHANGED queue
         \/ Shrinks(queue, queue')
         \/ \E m : Grows(queue, queue', m) /\ ~IsSignal(m) /\ ~IsOwner(m)
  PROVE  Numbers'
  <1>types. Len(wire) \in Nat /\ Len(queue) \in Nat
    BY TrafficFacts
  <1>1. \E d \in 0..1 : \A i \in 1..Len(wire') : IsLookup(wire'[i]) =>
          i + d \in 1..Len(wire) /\ IsLookup(wire[i + d]) /\ wire'[i].of = wire[i + d].of
    <2>1. CASE UNCHANGED wire
      <3>1. \A i \in 1..Len(wire') : i + 0 \in 1..Len(wire) /\ wire'[i] = wire[i + 0]
        BY <1>types, <2>1
      <3> QED
        BY <3>1
    <2>2. CASE Shrinks(wire, wire')
      <3>1. \A i \in 1..Len(wire') : i + 1 \in 1..Len(wire) /\ wire'[i] = wire[i + 1]
        BY <1>types, <2>2, WireTaken
      <3> QED
        BY <3>1
    <2>3. CASE \E m : Grows(wire, wire', m) /\ ~IsLookup(m)
      <3>1. PICK m : Grows(wire, wire', m) /\ ~IsLookup(m)
        BY <2>3
      <3>2. \A i \in 1..Len(wire') : \/ i \in 1..Len(wire) /\ wire'[i] = wire[i]
                                     \/ i = Len(wire) + 1 /\ wire'[i] = m
        BY <1>types, <3>1, WirePut
      <3>3. \A i \in 1..Len(wire') : IsLookup(wire'[i]) => i + 0 \in 1..Len(wire) /\ wire'[i] = wire[i + 0]
        BY <1>types, <3>1, <3>2
      <3> QED
        BY <3>3
    <2> QED
      BY <2>1, <2>2, <2>3
  <1>2. \E d \in 0..1 : \A i \in 1..Len(queue') : IsSignal(queue'[i]) \/ IsOwner(queue'[i]) =>
          i + d \in 1..Len(queue) /\ queue'[i] = queue[i + d]
    <2>1. CASE UNCHANGED queue
      <3>1. \A i \in 1..Len(queue') : i + 0 \in 1..Len(queue) /\ queue'[i] = queue[i + 0]
        BY <1>types, <2>1
      <3> QED
        BY <3>1
    <2>2. CASE Shrinks(queue, queue')
      <3>1. \A i \in 1..Len(queue') : i + 1 \in 1..Len(queue) /\ queue'[i] = queue[i + 1]
        BY <1>types, <2>2, QueueTaken
      <3> QED
        BY <3>1
    <2>3. CASE \E m : Grows(queue, queue', m) /\ ~IsSignal(m) /\ ~IsOwner(m)
      <3>1. PICK m : Grows(queue, queue', m) /\ ~IsSignal(m) /\ ~IsOwner(m)
        BY <2>3
      <3>2. \A i \in 1..Len(queue') : \/ i \in 1..Len(queue) /\ queue'[i] = queue[i]
                                      \/ i = Len(queue) + 1 /\ queue'[i] = m
        BY <1>types, <3>1, QueuePut
      <3>3. \A i \in 1..Len(queue') : IsSignal(queue'[i]) \/ IsOwner(queue'[i]) =>
              i + 0 \in 1..Len(queue) /\ queue'[i] = queue[i + 0]
        BY <1>types, <3>1, <3>2
      <3> QED
        BY <3>3
    <2> QED
      BY <2>1, <2>2, <2>3
  <1> QED
    BY <1>1, <1>2, NumbersKept

LEMMA BusHandlesNumbers ==
  ASSUME Calls, Numbers, Calls', BusHandles, UNCHANGED watchVars
  PROVE  Numbers'
  <1>types. Len(wire) \in Nat /\ Len(queue) \in Nat
    BY TrafficFacts
  <1>inv. SignalsAhead /\ LookupsInOrder /\ InOrder
    BY DEF Numbers
  <1> DEFINE r == wire[1]
  <1>1. PICK ok \in BOOLEAN :
           /\ r \in Request
           /\ Shrinks(wire, wire')
           /\ \/ queue' = queue
              \/ Grows(queue, queue', Reply(r, ok)) /\ ~r.late
    BY BusHandlesFacts
  <1> DEFINE m == Reply(r, ok)
  <1>2. m.what = r.what /\ m.of = r.of /\ m.ok = ok
    BY DEF Reply
  <1>3. UNCHANGED <<handled, looked_up, signals>>
    BY DEF watchVars
  <1>4. ~IsSignal(m)
    BY <1>1, <1>2 DEF IsSignal, Request, Kinds
  <1>5. CASE queue' = queue \/ ~IsOwner(m)
    BY <1>1, <1>3, <1>4, <1>5, NumbersMoved
  <1>6. CASE queue' # queue /\ IsOwner(m)
    <2>1. Grows(queue, queue', m) /\ IsLookup(r)
      BY <1>1, <1>2, <1>6 DEF IsOwner, IsLookup
    <2> HIDE DEF m
    <2>2. /\ Len(queue') \in Nat
          /\ \A i \in 1..Len(queue') : \/ i \in 1..Len(queue) /\ queue'[i] = queue[i]
                                       \/ i = Len(queue) + 1 /\ queue'[i] = m
      BY <1>types, <2>1, QueuePut
    <2>3. /\ Len(wire') \in Nat /\ 1 \in 1..Len(wire)
          /\ \A i \in 1..Len(wire') : i + 1 \in 1..Len(wire) /\ wire'[i] = wire[i + 1]
      BY <1>1, <1>types, WireTaken DEF Shrinks
    <2>4. SignalsAhead'
      <3>1. \A i \in 1..Len(queue') : IsSignal(queue'[i]) => i \in 1..Len(queue) /\ queue'[i] = queue[i]
        BY <1>4, <2>2
      <3> QED
        BY <1>inv, <1>3, <3>1 DEF SignalsAhead, IsSignal
    <2>5. \A k \in 1..Len(wire') : IsLookup(wire'[k]) => wire'[k].of \in looked_up
      BY <1>inv, <2>3 DEF LookupsInOrder
    <2>6. \A k \in 1..Len(queue') : IsOwner(queue'[k]) => queue'[k].of \in looked_up
      <3>1. m.of \in looked_up
        BY <1>inv, <1>2, <2>1, <2>3 DEF LookupsInOrder
      <3> QED
        BY <1>inv, <2>2, <3>1 DEF LookupsInOrder
    <2>7. \A i, j \in 1..Len(wire') : i < j /\ IsLookup(wire'[i]) /\ IsLookup(wire'[j]) =>
            wire'[i].of < wire'[j].of
      <3> SUFFICES ASSUME NEW i \in 1..Len(wire'), NEW j \in 1..Len(wire'), i < j,
                          IsLookup(wire'[i]), IsLookup(wire'[j])
                   PROVE  wire'[i].of < wire'[j].of
        OBVIOUS
      <3>1. i + 1 < j + 1
        BY <2>3
      <3> QED
        BY <1>inv, <2>3, <3>1 DEF LookupsInOrder
    <2>8. \A i, j \in 1..Len(queue') : i < j /\ IsOwner(queue'[i]) /\ IsOwner(queue'[j]) =>
            queue'[i].of < queue'[j].of
      <3> SUFFICES ASSUME NEW i \in 1..Len(queue'), NEW j \in 1..Len(queue'), i < j,
                          IsOwner(queue'[i]), IsOwner(queue'[j])
                   PROVE  queue'[i].of < queue'[j].of
        OBVIOUS
      <3>1. i \in 1..Len(queue) /\ queue'[i] = queue[i]
        BY <1>types, <2>2
      <3>2. CASE j \in 1..Len(queue) /\ queue'[j] = queue[j]
        BY <1>inv, <3>1, <3>2 DEF LookupsInOrder
      <3>3. CASE queue'[j] = m
        <4>1. queue[i].of < r.of
          BY <1>inv, <2>1, <2>3, <3>1 DEF LookupsInOrder
        <4> QED
          BY <1>2, <3>1, <3>3, <4>1
      <3> QED
        BY <2>2, <3>2, <3>3
    <2>9. \A i \in 1..Len(queue'), j \in 1..Len(wire') : IsOwner(queue'[i]) /\ IsLookup(wire'[j]) =>
            queue'[i].of < wire'[j].of
      <3> SUFFICES ASSUME NEW i \in 1..Len(queue'), NEW j \in 1..Len(wire'),
                          IsOwner(queue'[i]), IsLookup(wire'[j])
                   PROVE  queue'[i].of < wire'[j].of
        OBVIOUS
      <3>1. j + 1 \in 1..Len(wire) /\ wire'[j] = wire[j + 1] /\ 1 < j + 1
        BY <2>3
      <3>2. CASE i \in 1..Len(queue) /\ queue'[i] = queue[i]
        BY <1>inv, <3>1, <3>2 DEF LookupsInOrder
      <3>3. CASE queue'[i] = m
        <4>1. r.of < wire[j + 1].of
          BY <1>inv, <2>1, <2>3, <3>1 DEF LookupsInOrder
        <4> QED
          BY <1>2, <3>1, <3>3, <4>1
      <3> QED
        BY <2>2, <3>2, <3>3
    <2>10. \A i \in 1..Len(handled), k \in 1..Len(queue') : handled[i] \in looked_up /\ IsOwner(queue'[k]) =>
             handled[i] < queue'[k].of
      <3> SUFFICES ASSUME NEW i \in 1..Len(handled), NEW k \in 1..Len(queue'),
                          handled[i] \in looked_up, IsOwner(queue'[k])
                   PROVE  handled[i] < queue'[k].of
        OBVIOUS
      <3>1. CASE k \in 1..Len(queue) /\ queue'[k] = queue[k]
        BY <1>inv, <3>1 DEF LookupsInOrder
      <3>2. CASE queue'[k] = m
        <4>1. handled[i] < r.of
          BY <1>inv, <2>1, <2>3 DEF LookupsInOrder
        <4> QED
          BY <1>2, <3>2, <4>1
      <3> QED
        BY <2>2, <3>1, <3>2
    <2>11. \A i \in 1..Len(handled), k \in 1..Len(wire') : handled[i] \in looked_up /\ IsLookup(wire'[k]) =>
             handled[i] < wire'[k].of
      BY <1>inv, <2>3 DEF LookupsInOrder
    <2>12. LookupsInOrder'
      BY <1>3, <2>5, <2>6, <2>7, <2>8, <2>9, <2>10, <2>11 DEF LookupsInOrder, IsLookup, IsOwner
    <2>13. InOrder'
      BY <1>inv, <1>3 DEF InOrder
    <2> QED
      BY <2>4, <2>12, <2>13 DEF Numbers
  <1> QED
    BY <1>5, <1>6

LEMMA TimesOutNumbers ==
  ASSUME Calls, Numbers, Calls', TimesOut, UNCHANGED watchVars
  PROVE  Numbers'
  <1>types. Len(wire) \in Nat /\ Len(queue) \in Nat
    BY TrafficFacts
  <1>1. PICK k \in 1..Len(wire) :
           /\ wire[k] \in Request
           /\ Len(wire') = Len(wire)
           /\ \A i \in 1..Len(wire) :
                /\ wire'[i].what = wire[i].what /\ wire'[i].of = wire[i].of
                /\ wire'[i].late = (wire[i].late \/ i = k)
           /\ Grows(queue, queue', Reply(wire[k], FALSE))
    BY TimesOutFacts
  <1> DEFINE m == Reply(wire[k], FALSE)
  <1>2. ~IsSignal(m) /\ ~IsOwner(m)
    BY <1>1 DEF Reply, IsSignal, IsOwner, Request, Kinds
  <1>3. Grows(queue, queue', m)
    BY <1>1
  <1> HIDE DEF m
  <1>4. \A i \in 1..Len(queue') : IsSignal(queue'[i]) \/ IsOwner(queue'[i]) =>
          i + 0 \in 1..Len(queue) /\ queue'[i] = queue[i + 0]
    <2>1. \A i \in 1..Len(queue') : \/ i \in 1..Len(queue) /\ queue'[i] = queue[i]
                                    \/ i = Len(queue) + 1 /\ queue'[i] = m
      BY <1>types, <1>3, QueuePut
    <2> QED
      BY <1>types, <1>2, <2>1
  <1>5. \A i \in 1..Len(wire') : IsLookup(wire'[i]) =>
          i + 0 \in 1..Len(wire) /\ IsLookup(wire[i + 0]) /\ wire'[i].of = wire[i + 0].of
    <2> SUFFICES ASSUME NEW i \in 1..Len(wire), wire'[i].what = "GetNameOwner", ~wire'[i].late
                 PROVE  i + 0 = i /\ wire[i].what = "GetNameOwner" /\ ~wire[i].late
                        /\ wire'[i].of = wire[i].of
      BY <1>1, <1>types DEF IsLookup
    <2>1. /\ wire'[i].what = wire[i].what /\ wire'[i].of = wire[i].of
          /\ wire'[i].late = (wire[i].late \/ i = k) /\ i + 0 = i
      BY <1>1, <1>types
    <2>2. ~wire[i].late
      BY <2>1, Zenon
    <2> QED
      BY <2>1, <2>2
  <1>6. UNCHANGED <<handled, looked_up, signals>> /\ 0 \in 0..1
    BY DEF watchVars
  <1> QED
    BY <1>4, <1>5, <1>6, NumbersKept

\* One more signal is handled.
LEMMA HandledMore ==
  ASSUME Calls, NEW n \in 1..signals, handled' = Append(handled, n)
  PROVE  /\ Len(handled') \in Nat
         /\ \A i \in 1..Len(handled') : \/ i \in 1..Len(handled) /\ handled'[i] = handled[i]
                                        \/ i = Len(handled) + 1 /\ handled'[i] = n
         /\ DOMAIN handled' = 1..Len(handled')
  <1>1. handled \in Seq(1..signals)
    BY CallsParts DEF DataTypes
  <1> QED
    BY <1>1

\* A signal is handled that is later than all that were, or one that was looked
\* up after all of those that were.
LEMMA InOrderKept ==
  ASSUME Calls, Numbers, NEW n \in 1..signals, handled' = Append(handled, n), UNCHANGED looked_up,
         \/ \A i \in 1..Len(handled) : handled[i] < n
         \/ n \in looked_up /\ \A i \in 1..Len(handled) : handled[i] \in looked_up => handled[i] < n
  PROVE  InOrder'
  <1>types. /\ Len(handled) \in Nat /\ DOMAIN handled = 1..Len(handled)
            /\ \A i \in 1..Len(handled) : handled[i] \in Nat
    BY NumberTypes
  <1>1. /\ Len(handled') \in Nat
        /\ \A i \in 1..Len(handled') : \/ i \in 1..Len(handled) /\ handled'[i] = handled[i]
                                       \/ i = Len(handled) + 1 /\ handled'[i] = n
        /\ DOMAIN handled' = 1..Len(handled')
    BY HandledMore
  <1> SUFFICES ASSUME NEW i \in 1..Len(handled'), NEW j \in 1..Len(handled'), i < j
               PROVE  \/ handled'[i] < handled'[j]
                      \/ handled'[i] > handled'[j] /\ handled'[j] \in looked_up /\ handled'[i] \notin looked_up
    BY <1>1 DEF InOrder
  <1>2. i \in 1..Len(handled) /\ handled'[i] = handled[i]
    BY <1>types, <1>1
  <1>3. CASE j \in 1..Len(handled) /\ handled'[j] = handled[j]
    BY <1>types, <1>2, <1>3 DEF Numbers, InOrder
  <1>4. CASE handled'[j] = n
    BY <1>types, <1>2, <1>4
  <1> QED
    BY <1>1, <1>3, <1>4

\* The first signal in the queue is after all that were looked up or handled,
\* and before the others.
LEMMA FirstSignal ==
  ASSUME Calls, Numbers, queue # <<>>, IsSignal(queue[1]), Shrinks(queue, queue')
  PROVE  /\ queue[1].of \in 1..signals
         /\ \A n \in looked_up : n < queue[1].of
         /\ \A i \in 1..Len(handled) : handled[i] < queue[1].of
         /\ \A k \in 1..Len(queue') : IsSignal(queue'[k]) => queue[1].of < queue'[k].of
  <1>1. 1 \in 1..Len(queue) /\ \A i \in 1..Len(queue') : /\ i + 1 \in 1..Len(queue) /\ 1 < i + 1
                                                        /\ queue'[i] = queue[i + 1]
    BY TrafficFacts DEF Shrinks
  <1> QED
    BY <1>1 DEF Numbers, SignalsAhead

LEMMA OnSignalNumbers ==
  ASSUME Calls, Numbers, Calls', on_signal
  PROVE  Numbers'
  <1>types. /\ Len(wire) \in Nat /\ Len(queue) \in Nat /\ Len(handled) \in Nat
            /\ DOMAIN handled = 1..Len(handled)
            /\ \A i \in 1..Len(handled) : handled[i] \in Nat
            /\ \A k \in looked_up : k \in Nat
            /\ \A k \in 1..Len(queue) : queue[k].of \in Nat
            /\ \A k \in 1..Len(wire) : wire[k].of \in Nat
    BY TrafficFacts, NumberTypes
  <1>inv. SignalsAhead /\ LookupsInOrder /\ InOrder
    BY DEF Numbers
  <1> DEFINE h == queue[1]
             n == h.of
  <1>1. /\ h \in Item /\ Head(queue) = h /\ Shrinks(queue, queue') /\ queue # <<>>
    BY TakeFacts DEF on_signal
  <1>2. /\ \/ UNCHANGED <<wire, handled, looked_up>>
           \/ /\ wire' = SentFor("async", "GetNameOwner", h.rule, n)
              /\ looked_up' = looked_up \cup {n}
              /\ UNCHANGED handled
           \/ /\ handled' = HandledBy(h)
              /\ UNCHANGED <<wire, looked_up>>
        /\ IsSignal(h) /\ UNCHANGED signals
    BY <1>1 DEF on_signal, IsSignal
  <1>3. /\ n \in 1..signals /\ n \in Nat
        /\ \A k \in looked_up : k < n
        /\ \A i \in 1..Len(handled) : handled[i] < n
        /\ \A k \in 1..Len(queue') : IsSignal(queue'[k]) => n < queue'[k].of
    BY <1>1, <1>2, FirstSignal
  <1>4. /\ Len(queue') \in Nat
        /\ \A i \in 1..Len(queue') : i + 1 \in 1..Len(queue) /\ queue'[i] = queue[i + 1]
    BY <1>1, <1>types, QueueTaken
  <1>5. h.rule \in Rules \cup {NoRule}
    BY <1>1 DEF Item
  <1> HIDE DEF h
  <1>6. CASE UNCHANGED <<wire, handled, looked_up>>
    BY <1>1, <1>2, <1>6, NumbersMoved
  <1>7. /\ \A k \in 1..Len(queue') : IsSignal(queue'[k]) => queue'[k].of \in 1..signals
        /\ \A i, j \in 1..Len(queue') : i < j /\ IsSignal(queue'[i]) /\ IsSignal(queue'[j]) =>
             queue'[i].of < queue'[j].of
        /\ \A i, j \in 1..Len(queue') : i < j /\ IsOwner(queue'[i]) /\ IsOwner(queue'[j]) =>
             queue'[i].of < queue'[j].of
    <2>1. \A k \in 1..Len(queue') : IsSignal(queue'[k]) => queue'[k].of \in 1..signals
      BY <1>inv, <1>4 DEF SignalsAhead
    <2>2. \A i, j \in 1..Len(queue') : i < j => i + 1 < j + 1
      BY <1>4
    <2>3. \A i, j \in 1..Len(queue') : i < j /\ IsSignal(queue'[i]) /\ IsSignal(queue'[j]) =>
             queue'[i].of < queue'[j].of
      BY <1>inv, <1>4, <2>2 DEF SignalsAhead
    <2>4. \A i, j \in 1..Len(queue') : i < j /\ IsOwner(queue'[i]) /\ IsOwner(queue'[j]) =>
             queue'[i].of < queue'[j].of
      BY <1>inv, <1>4, <2>2 DEF LookupsInOrder
    <2> QED
      BY <2>1, <2>3, <2>4
  <1>8. CASE /\ wire' = SentFor("async", "GetNameOwner", h.rule, n)
             /\ looked_up' = looked_up \cup {n}
             /\ UNCHANGED handled
    <2> DEFINE m == [by |-> "async", what |-> "GetNameOwner", rule |-> h.rule, of |-> n, late |-> FALSE]
    <2>1. Grows(wire, wire', m) /\ m.of = n
      <3>1. "async" \in Receivers /\ "GetNameOwner" \in Kinds
        BY DEF Receivers, Kinds
      <3> QED
        BY <1>3, <1>5, <1>8, <3>1, SentFacts
    <2> HIDE DEF m
    <2>2. /\ Len(wire') \in Nat
          /\ \A i \in 1..Len(wire') : \/ i \in 1..Len(wire) /\ wire'[i] = wire[i]
                                      \/ i = Len(wire) + 1 /\ wire'[i] = m
      BY <1>types, <2>1, WirePut
    <2> HIDE DEF n
    <2>3. SignalsAhead'
      <3>1. \A k \in 1..Len(queue'), l \in looked_up' : IsSignal(queue'[k]) => l < queue'[k].of
        BY <1>inv, <1>3, <1>4, <1>8 DEF SignalsAhead
      <3>2. \A k \in 1..Len(queue'), i \in 1..Len(handled) : IsSignal(queue'[k]) => handled[i] < queue'[k].of
        BY <1>inv, <1>4 DEF SignalsAhead
      <3> QED
        BY <1>2, <1>7, <1>8, <3>1, <3>2 DEF SignalsAhead, IsSignal
    <2>4. \A k \in 1..Len(wire') : IsLookup(wire'[k]) => wire'[k].of \in looked_up'
      BY <1>inv, <1>8, <2>1, <2>2 DEF LookupsInOrder
    <2>5. \A k \in 1..Len(queue') : IsOwner(queue'[k]) => queue'[k].of \in looked_up /\ queue'[k].of < n
      BY <1>inv, <1>3, <1>4 DEF LookupsInOrder
    <2>6. \A i, j \in 1..Len(wire') : i < j /\ IsLookup(wire'[i]) /\ IsLookup(wire'[j]) =>
            wire'[i].of < wire'[j].of
      <3> SUFFICES ASSUME NEW i \in 1..Len(wire'), NEW j \in 1..Len(wire'), i < j,
                          IsLookup(wire'[i]), IsLookup(wire'[j])
                   PROVE  wire'[i].of < wire'[j].of
        OBVIOUS
      <3>1. i \in 1..Len(wire) /\ wire'[i] = wire[i]
        BY <1>types, <2>2
      <3>2. CASE j \in 1..Len(wire) /\ wire'[j] = wire[j]
        BY <1>inv, <3>1, <3>2 DEF LookupsInOrder
      <3>3. CASE wire'[j] = m
        <4>1. wire[i].of \in looked_up
          BY <1>inv, <3>1 DEF LookupsInOrder
        <4> QED
          BY <1>3, <2>1, <3>1, <3>3, <4>1
      <3> QED
        BY <2>2, <3>2, <3>3
    <2>7. \A i \in 1..Len(queue'), j \in 1..Len(wire') : IsOwner(queue'[i]) /\ IsLookup(wire'[j]) =>
            queue'[i].of < wire'[j].of
      <3> SUFFICES ASSUME NEW i \in 1..Len(queue'), NEW j \in 1..Len(wire'),
                          IsOwner(queue'[i]), IsLookup(wire'[j])
                   PROVE  queue'[i].of < wire'[j].of
        OBVIOUS
      <3>1. CASE j \in 1..Len(wire) /\ wire'[j] = wire[j]
        BY <1>inv, <1>4, <3>1 DEF LookupsInOrder
      <3>2. CASE wire'[j] = m
        BY <2>1, <2>5, <3>2
      <3> QED
        BY <2>2, <3>1, <3>2
    <2>8. \A i \in 1..Len(handled) : handled[i] \in looked_up' => handled[i] \in looked_up
      <3>1. \A i \in 1..Len(handled) : handled[i] # n
        BY <1>types, <1>3
      <3> QED
        BY <1>8, <3>1
    <2>9. \A i \in 1..Len(handled), k \in 1..Len(queue') : handled[i] \in looked_up' /\ IsOwner(queue'[k]) =>
            handled[i] < queue'[k].of
      BY <1>inv, <1>4, <2>8 DEF LookupsInOrder
    <2>10. \A i \in 1..Len(handled), k \in 1..Len(wire') : handled[i] \in looked_up' /\ IsLookup(wire'[k]) =>
            handled[i] < wire'[k].of
      <3> SUFFICES ASSUME NEW i \in 1..Len(handled), NEW k \in 1..Len(wire'),
                          handled[i] \in looked_up, IsLookup(wire'[k])
                   PROVE  handled[i] < wire'[k].of
        BY <2>8
      <3>1. CASE k \in 1..Len(wire) /\ wire'[k] = wire[k]
        BY <1>inv, <3>1 DEF LookupsInOrder
      <3>2. CASE wire'[k] = m
        BY <1>3, <2>1, <3>2
      <3> QED
        BY <2>2, <3>1, <3>2
    <2>11. LookupsInOrder'
      <3>1. \A k \in 1..Len(queue') : IsOwner(queue'[k]) => queue'[k].of \in looked_up'
        BY <1>8, <2>5
      <3>2. handled' = handled
        BY <1>8
      <3> QED
        BY <1>7, <2>4, <2>6, <2>7, <2>9, <2>10, <3>1, <3>2 DEF LookupsInOrder, IsLookup, IsOwner
    <2>12. InOrder'
      <3> SUFFICES ASSUME NEW i \in 1..Len(handled), NEW j \in 1..Len(handled), i < j
                   PROVE  \/ handled[i] < handled[j]
                          \/ handled[i] > handled[j] /\ handled[j] \in looked_up' /\ handled[i] \notin looked_up'
        BY <1>types, <1>8 DEF InOrder
      <3>1. looked_up \subseteq looked_up'
        BY <1>8
      <3> QED
        BY <1>inv, <1>types, <2>8, <3>1 DEF InOrder
    <2> QED
      BY <2>3, <2>11, <2>12 DEF Numbers
  <1>9. CASE handled' = HandledBy(h) /\ UNCHANGED <<wire, looked_up>>
    <2>1. CASE handled' = handled
      BY <1>1, <1>2, <1>9, <2>1, NumbersMoved
    <2>2. CASE handled' # handled
      <3>1. handled' = Append(handled, n)
        BY <1>9, <2>2 DEF HandledBy
      <3>2. /\ Len(handled') \in Nat
            /\ \A i \in 1..Len(handled') : \/ i \in 1..Len(handled) /\ handled'[i] = handled[i]
                                           \/ i = Len(handled) + 1 /\ handled'[i] = n
        BY <1>3, <3>1, HandledMore
      <3>3. InOrder'
        BY <1>3, <1>9, <3>1, InOrderKept
      <3> HIDE DEF n
      <3>4. SignalsAhead'
        <4>1. \A k \in 1..Len(queue'), l \in looked_up : IsSignal(queue'[k]) => l < queue'[k].of
          BY <1>inv, <1>4 DEF SignalsAhead
        <4>2. \A k \in 1..Len(queue'), i \in 1..Len(handled') : IsSignal(queue'[k]) => handled'[i] < queue'[k].of
          BY <1>inv, <1>3, <1>4, <3>2 DEF SignalsAhead
        <4> QED
          BY <1>2, <1>7, <1>9, <4>1, <4>2 DEF SignalsAhead, IsSignal
      <3>5. \A i \in 1..Len(handled') : handled'[i] \in looked_up =>
              i \in 1..Len(handled) /\ handled'[i] = handled[i]
        <4>1. n \notin looked_up
          BY <1>3
        <4> QED
          BY <3>2, <4>1
      <3>6. LookupsInOrder'
        <4>1. \A k \in 1..Len(queue') : IsOwner(queue'[k]) => queue'[k].of \in looked_up
          BY <1>inv, <1>4 DEF LookupsInOrder
        <4>2. \A i \in 1..Len(queue'), j \in 1..Len(wire) : IsOwner(queue'[i]) /\ IsLookup(wire[j]) =>
                queue'[i].of < wire[j].of
          BY <1>inv, <1>4 DEF LookupsInOrder
        <4>3. \A i \in 1..Len(handled'), k \in 1..Len(queue') : handled'[i] \in looked_up /\ IsOwner(queue'[k]) =>
                handled'[i] < queue'[k].of
          BY <1>inv, <1>4, <3>5 DEF LookupsInOrder
        <4>4. \A i \in 1..Len(handled'), k \in 1..Len(wire) : handled'[i] \in looked_up /\ IsLookup(wire[k]) =>
                handled'[i] < wire[k].of
          BY <1>inv, <3>5 DEF LookupsInOrder
        <4>5. wire' = wire /\ looked_up' = looked_up
          BY <1>9
        <4> QED
          BY <1>inv, <1>7, <4>1, <4>2, <4>3, <4>4, <4>5 DEF LookupsInOrder, IsLookup, IsOwner
      <3> QED
        BY <3>3, <3>4, <3>6 DEF Numbers
    <2> QED
      BY <2>1, <2>2
  <1> QED
    BY <1>2, <1>6, <1>8, <1>9

LEMMA OnOwnerNumbers ==
  ASSUME Calls, Numbers, Calls', OnOwner
  PROVE  Numbers'
  <1>types. /\ Len(wire) \in Nat /\ Len(queue) \in Nat /\ Len(handled) \in Nat
            /\ DOMAIN handled = 1..Len(handled)
            /\ \A i \in 1..Len(handled) : handled[i] \in Nat
            /\ \A k \in looked_up : k \in 1..signals
    BY TrafficFacts, NumberTypes
  <1>inv. SignalsAhead /\ LookupsInOrder /\ InOrder
    BY DEF Numbers
  <1> DEFINE h == queue[1]
             n == h.of
  <1>1. /\ h \in Item /\ Head(queue) = h /\ Shrinks(queue, queue') /\ queue # <<>> /\ FitsQueue(h)
    BY TakeFacts DEF OnOwner
  <1>2. /\ handled' = IF h.ok THEN HandledBy(h) ELSE handled
        /\ UNCHANGED <<wire, looked_up, signals>>
        /\ h.to = "async"
    BY <1>1 DEF OnOwner
  <1>3. h.what = "GetNameOwner"
    BY <1>1, <1>2, MatchRulesAssumption DEF FitsQueue
  <1>4. CASE handled' = handled
    BY <1>1, <1>2, <1>4, NumbersMoved
  <1>5. CASE handled' # handled
    <2>1. handled' = Append(handled, n) /\ IsOwner(h)
      BY <1>2, <1>3, <1>5 DEF HandledBy, IsOwner
    <2>2. /\ Len(queue') \in Nat /\ 1 \in 1..Len(queue)
          /\ \A i \in 1..Len(queue') : i + 1 \in 1..Len(queue) /\ 1 < i + 1 /\ queue'[i] = queue[i + 1]
      BY <1>1, <1>types, QueueTaken DEF Shrinks
    <2>3. /\ n \in looked_up /\ n \in 1..signals
          /\ \A i \in 1..Len(handled) : handled[i] \in looked_up => handled[i] < n
          /\ \A k \in 1..Len(queue') : IsOwner(queue'[k]) => n < queue'[k].of
          /\ \A k \in 1..Len(wire) : IsLookup(wire[k]) => n < wire[k].of
      BY <1>types, <1>inv, <2>1, <2>2 DEF LookupsInOrder
    <2>4. /\ Len(handled') \in Nat
          /\ \A i \in 1..Len(handled') : \/ i \in 1..Len(handled) /\ handled'[i] = handled[i]
                                         \/ i = Len(handled) + 1 /\ handled'[i] = n
      BY <2>1, <2>3, HandledMore
    <2>5. InOrder'
      BY <1>2, <2>1, <2>3, InOrderKept
    <2> HIDE DEF n
    <2>6. \A i, j \in 1..Len(queue') : i < j => i + 1 < j + 1
      BY <2>2
    <2>7. SignalsAhead'
      <3>1. \A k \in 1..Len(queue') : IsSignal(queue'[k]) => queue'[k].of \in 1..signals
        BY <1>inv, <2>2 DEF SignalsAhead
      <3>2. \A i, j \in 1..Len(queue') : i < j /\ IsSignal(queue'[i]) /\ IsSignal(queue'[j]) =>
              queue'[i].of < queue'[j].of
        BY <1>inv, <2>2, <2>6 DEF SignalsAhead
      <3>3. \A k \in 1..Len(queue'), l \in looked_up : IsSignal(queue'[k]) => l < queue'[k].of
        BY <1>inv, <2>2 DEF SignalsAhead
      <3>4. \A k \in 1..Len(queue'), i \in 1..Len(handled') : IsSignal(queue'[k]) => handled'[i] < queue'[k].of
        BY <1>inv, <2>2, <2>3, <2>4, <3>3 DEF SignalsAhead
      <3> QED
        BY <1>2, <3>1, <3>2, <3>3, <3>4 DEF SignalsAhead, IsSignal
    <2>8. LookupsInOrder'
      <3>1. \A k \in 1..Len(queue') : IsOwner(queue'[k]) => queue'[k].of \in looked_up
        BY <1>inv, <2>2 DEF LookupsInOrder
      <3>2. \A i, j \in 1..Len(queue') : i < j /\ IsOwner(queue'[i]) /\ IsOwner(queue'[j]) =>
              queue'[i].of < queue'[j].of
        BY <1>inv, <2>2, <2>6 DEF LookupsInOrder
      <3>3. \A i \in 1..Len(queue'), j \in 1..Len(wire) : IsOwner(queue'[i]) /\ IsLookup(wire[j]) =>
              queue'[i].of < wire[j].of
        BY <1>inv, <2>2 DEF LookupsInOrder
      <3>4. \A i \in 1..Len(handled'), k \in 1..Len(queue') : handled'[i] \in looked_up /\ IsOwner(queue'[k]) =>
              handled'[i] < queue'[k].of
        BY <1>inv, <2>2, <2>3, <2>4 DEF LookupsInOrder
      <3>5. \A i \in 1..Len(handled'), k \in 1..Len(wire) : handled'[i] \in looked_up /\ IsLookup(wire[k]) =>
              handled'[i] < wire[k].of
        BY <1>inv, <2>3, <2>4 DEF LookupsInOrder
      <3> QED
        BY <1>2, <1>inv, <3>1, <3>2, <3>3, <3>4, <3>5 DEF LookupsInOrder, IsLookup, IsOwner
    <2> QED
      BY <2>5, <2>7, <2>8 DEF Numbers
  <1> QED
    BY <1>4, <1>5

LEMMA SignalNumbers ==
  ASSUME Calls, Numbers, Calls', NEW r \in Watched, Signal(r)
  PROVE  Numbers'
  <1>types. /\ Len(queue) \in Nat /\ Len(handled) \in Nat /\ signals \in Nat
            /\ \A i \in 1..Len(handled) : handled[i] \in 1..signals
            /\ \A k \in looked_up : k \in 1..signals
    BY TrafficFacts, NumberTypes
  <1>inv. SignalsAhead /\ LookupsInOrder /\ InOrder
    BY DEF Numbers
  <1> DEFINE m == [to |-> "filter", what |-> "Signal", rule |-> r, of |-> signals + 1, ok |-> TRUE]
  <1>1. /\ signals' = signals + 1
        /\ queue' = Append(queue, m)
        /\ UNCHANGED <<wire, handled, looked_up>>
    BY DEF Signal, BusSignals
  <1>2. Grows(queue, queue', m)
    <2>1. m \in Item
      BY <1>types, SignalType, NameWatchAssumption
    <2>2. queue \in Seq(Item)
      BY CallsParts DEF RulesTypeOK
    <2> HIDE DEF m
    <2> QED
      BY <1>1, <2>1, <2>2, AppendFacts DEF Grows
  <1>3. m.of = signals + 1 /\ IsSignal(m) /\ ~IsOwner(m)
    BY DEF IsSignal, IsOwner
  <1> HIDE DEF m
  <1>4. \A i \in 1..Len(queue') : \/ i \in 1..Len(queue) /\ queue'[i] = queue[i]
                                  \/ i = Len(queue) + 1 /\ queue'[i] = m
    BY <1>types, <1>2, QueuePut
  <1>5. SignalsAhead'
    <2>1. \A k \in 1..Len(queue') : IsSignal(queue'[k]) => queue'[k].of \in 1..signals'
      <3>1. \A n \in 1..signals : n \in 1..signals'
        BY <1>1, <1>types
      <3>2. m.of \in 1..signals'
        BY <1>1, <1>3, <1>types
      <3> QED
        BY <1>inv, <1>4, <3>1, <3>2 DEF SignalsAhead
    <2>2. \A i, j \in 1..Len(queue') : i < j /\ IsSignal(queue'[i]) /\ IsSignal(queue'[j]) =>
            queue'[i].of < queue'[j].of
      <3> SUFFICES ASSUME NEW i \in 1..Len(queue'), NEW j \in 1..Len(queue'), i < j,
                          IsSignal(queue'[i]), IsSignal(queue'[j])
                   PROVE  queue'[i].of < queue'[j].of
        OBVIOUS
      <3>1. i \in 1..Len(queue) /\ queue'[i] = queue[i] /\ queue[i].of \in 1..signals
        BY <1>inv, <1>types, <1>4 DEF SignalsAhead
      <3>2. CASE j \in 1..Len(queue) /\ queue'[j] = queue[j]
        BY <1>inv, <3>1, <3>2 DEF SignalsAhead
      <3>3. CASE queue'[j] = m
        BY <1>types, <1>3, <3>1, <3>3
      <3> QED
        BY <1>4, <3>2, <3>3
    <2>3. \A k \in 1..Len(queue'), n \in looked_up : IsSignal(queue'[k]) => n < queue'[k].of
      BY <1>inv, <1>types, <1>3, <1>4 DEF SignalsAhead
    <2>4. \A k \in 1..Len(queue'), i \in 1..Len(handled) : IsSignal(queue'[k]) => handled[i] < queue'[k].of
      BY <1>inv, <1>types, <1>3, <1>4 DEF SignalsAhead
    <2> QED
      BY <1>1, <2>1, <2>2, <2>3, <2>4 DEF SignalsAhead, IsSignal
  <1>6. LookupsInOrder'
    <2>1. \A i \in 1..Len(queue') : IsOwner(queue'[i]) => i \in 1..Len(queue) /\ queue'[i] = queue[i]
      BY <1>3, <1>4
    <2> QED
      BY <1>inv, <1>1, <2>1 DEF LookupsInOrder, IsOwner, IsLookup
  <1>7. InOrder'
    BY <1>inv, <1>1 DEF InOrder
  <1> QED
    BY <1>5, <1>6, <1>7 DEF Numbers

LEMMA DisconnectNumbers ==
  ASSUME Calls, Numbers, Disconnect
  PROVE  Numbers'
  <1>1. Len(wire') = 0 /\ Len(queue') = 0 /\ UNCHANGED <<handled, looked_up>>
    BY DEF Disconnect
  <1>2. SignalsAhead' /\ LookupsInOrder'
    BY <1>1 DEF SignalsAhead, LookupsInOrder
  <1>3. InOrder'
    BY <1>1 DEF Numbers, InOrder
  <1> QED
    BY <1>2, <1>3 DEF Numbers

LEMMA InitNumbers ==
  ASSUME Init
  PROVE  Numbers
  <1>1. Len(wire) = 0 /\ Len(queue) = 0 /\ DOMAIN handled = {}
    BY DEF Init, RulesInit
  <1> QED
    BY <1>1 DEF Numbers, SignalsAhead, LookupsInOrder, InOrder

\* A request for a rule is no lookup.
LEMMA AskForRuleNumbers ==
  ASSUME Calls, Numbers, Calls', NEW t \in Threads, AskForRule(t)
  PROVE  Numbers'
  <1>1. UNCHANGED <<handled, looked_up, signals>>
    BY DEF AskForRule
  <1>2. UNCHANGED <<wire, queue>> \/ \E sent \in BOOLEAN : AskQuietly(What(op[t].on), op[t].rule, sent)
    BY DEF AskForRule, ruleVars
  <1>3. CASE UNCHANGED <<wire, queue>>
    BY <1>1, <1>3, NumbersMoved
  <1>4. CASE \E sent \in BOOLEAN : AskQuietly(What(op[t].on), op[t].rule, sent)
    <2> DEFINE what == What(op[t].on)
               rule == op[t].rule
               m == [by |-> "nobody", what |-> what, rule |-> rule, of |-> 0, late |-> FALSE]
    <2>1. PICK sent \in BOOLEAN : AskQuietly(what, rule, sent)
      BY <1>4
    <2>2. UNCHANGED queue /\ (UNCHANGED wire \/ wire' = SentFor("nobody", what, rule, 0))
      BY <2>1 DEF AskQuietly, Sent
    <2>3. what \in Kinds /\ what # "GetNameOwner" /\ "nobody" \in Receivers /\ 0 \in Nat
      BY DEF What, Kinds, Receivers
    <2>4. rule \in Rules \cup {NoRule}
      <3>1. op[t] \in OpRecord
        BY CallsParts DEF OpTypes
      <3> QED
        BY <3>1 DEF OpRecord
    <2> HIDE DEF what, rule
    <2>5. wire' = SentFor("nobody", what, rule, 0) => Grows(wire, wire', m)
      BY <2>3, <2>4, SentFacts
    <2>6. ~IsLookup(m)
      BY <2>3 DEF IsLookup
    <2> HIDE DEF m
    <2> QED
      BY <1>1, <2>2, <2>5, <2>6, NumbersMoved
  <1> QED
    BY <1>2, <1>3, <1>4

LEMMA AskMatchNumbers ==
  ASSUME Calls, Numbers, Calls', NEW t \in Threads, AskMatch(t)
  PROVE  Numbers'
  <1> DEFINE c == call[t]
             m == [by |-> t, what |-> c.what, rule |-> c.rule, of |-> 0, late |-> FALSE]
  <1>1. UNCHANGED <<handled, looked_up, signals, queue>> /\ c.what # "GetNameOwner"
    BY DEF AskMatch, Ask, watchVars
  <1>2. UNCHANGED wire \/ wire' = SentFor(t, c.what, c.rule, 0)
    BY DEF AskMatch, Ask, Sent
  <1>3. c.what \in Kinds /\ c.rule \in Rules \cup {NoRule} /\ t \in Receivers /\ 0 \in Nat
    BY CallsParts DEF CallRecord, Receivers
  <1>4. ~IsLookup(m)
    BY <1>1 DEF IsLookup
  <1> HIDE DEF c
  <1>5. wire' = SentFor(t, c.what, c.rule, 0) => Grows(wire, wire', m)
    BY <1>3, SentFacts
  <1> HIDE DEF m
  <1> QED
    BY <1>1, <1>2, <1>4, <1>5, NumbersMoved

\* The steps that let signals and lookups alone.
LEMMA NumbersStay ==
  ASSUME Calls, Numbers, Calls', UNCHANGED <<wire, queue, handled, looked_up, signals>>
  PROVE  Numbers'
  BY NumbersMoved

-----------------------------------------------------------------------------
(* The bus has the rules of the callbacks. *)

\* What request m makes of the number of times the bus has rule r: it adds a
\* rule that is not there and removes one that is.
Changes(m, r, from, to) ==
  IF m.rule = r /\ m.what # "GetNameOwner"
    THEN from = (IF m.what = "AddMatch" THEN 0 ELSE 1) /\ to = 1 - from
    ELSE to = from

\* Path p leads from what the bus has now, request by request, to what it is
\* going to have.
Path(p, s, r, from, to) ==
  /\ p \in [1..Len(s) + 1 -> 0..1]
  /\ p[1] = from /\ p[Len(s) + 1] = to
  /\ \A k \in 1..Len(s) : Changes(s[k], r, p[k], p[k + 1])

Believed(r) == IF r \in match_rules THEN 1 ELSE 0

\* The requests under way make true what the filter believes.
RulesForeseen == \A r \in Watched \ doubtful : \E p : Path(p, wire, r, bus[r], Believed(r))

\* A thread that is about to change a callback has got its rule changed; else
\* the callbacks that are set are those whose rule the filter has.
Assigns(t, r) == op[t].at = "assign" /\ op[t].ok /\ op[t].rule = r

CallbacksFollow ==
  /\ \A t \in Threads : op[t].at = "enter" => op[t].ok
  /\ \A r \in Watched \ doubtful :
       /\ \A t \in Threads : Assigns(t, r) => (op[t].on <=> r \in match_rules)
       /\ (\A t \in Threads : ~Assigns(t, r)) => (r \in callbacks <=> r \in match_rules)

LEMMA PathGrows ==
  ASSUME NEW s, NEW t, NEW e, NEW r, NEW from, NEW to, NEW to2 \in 0..1, NEW p,
         Len(s) \in Nat, Grows(s, t, e), Path(p, s, r, from, to), Changes(e, r, to, to2)
  PROVE  \E q : Path(q, t, r, from, to2)
  <1> DEFINE q == [k \in 1..Len(t) + 1 |-> IF k = Len(t) + 1 THEN to2 ELSE p[k]]
  <1>1. /\ Len(t) = Len(s) + 1 /\ t[Len(s) + 1] = e
        /\ \A i \in 1..Len(s) : t[i] = s[i]
    BY DEF Grows
  <1>2. /\ p \in [1..Len(s) + 1 -> 0..1] /\ p[1] = from /\ p[Len(s) + 1] = to
        /\ \A k \in 1..Len(s) : Changes(s[k], r, p[k], p[k + 1])
    BY DEF Path
  <1>3. q \in [1..Len(t) + 1 -> 0..1] /\ q[1] = from /\ q[Len(t) + 1] = to2
    BY <1>1, <1>2
  <1>4. \A k \in 1..Len(s) + 1 : k \in 1..Len(t) /\ q[k] = p[k]
    BY <1>1
  <1> HIDE DEF q
  <1>5. \A k \in 1..Len(t) : Changes(t[k], r, q[k], q[k + 1])
    <2> TAKE k \in 1..Len(t)
    <2>1. CASE k \in 1..Len(s)
      <3>1. k + 1 \in 1..Len(s) + 1 /\ k \in 1..Len(s) + 1
        BY <2>1
      <3> QED
        BY <1>1, <1>2, <1>4, <2>1, <3>1
    <2>2. CASE k = Len(s) + 1
      <3>1. q[k] = to /\ q[k + 1] = to2 /\ t[k] = e
        BY <1>1, <1>2, <1>3, <1>4, <2>2
      <3> QED
        BY <3>1
    <2> QED
      BY <1>1, <2>1, <2>2
  <1> QED
    BY <1>3, <1>5 DEF Path

LEMMA PathShrinks ==
  ASSUME NEW s, NEW t, NEW r, NEW from, NEW to, NEW p,
         Len(s) \in Nat, Shrinks(s, t), Path(p, s, r, from, to)
  PROVE  \E q : Path(q, t, r, p[2], to) /\ Changes(s[1], r, from, p[2])
  <1> DEFINE q == [k \in 1..Len(t) + 1 |-> p[k + 1]]
  <1>1. /\ Len(s) >= 1 /\ Len(t) = Len(s) - 1
        /\ \A i \in 1..Len(t) : i + 1 \in 1..Len(s) /\ t[i] = s[i + 1]
    BY DEF Shrinks
  <1>2. /\ p \in [1..Len(s) + 1 -> 0..1] /\ p[1] = from /\ p[Len(s) + 1] = to
        /\ \A k \in 1..Len(s) : Changes(s[k], r, p[k], p[k + 1])
    BY DEF Path
  <1>3. q \in [1..Len(t) + 1 -> 0..1] /\ q[1] = p[2] /\ q[Len(t) + 1] = to
    BY <1>1, <1>2
  <1>4. \A k \in 1..Len(t) + 1 : q[k] = p[k + 1]
    OBVIOUS
  <1> HIDE DEF q
  <1>5. \A k \in 1..Len(t) : Changes(t[k], r, q[k], q[k + 1])
    <2> TAKE k \in 1..Len(t)
    <2>1. k \in 1..Len(t) + 1 /\ k + 1 \in 1..Len(t) + 1 /\ k + 1 \in 1..Len(s)
      BY <1>1
    <2>2. Changes(s[k + 1], r, p[k + 1], p[(k + 1) + 1])
      BY <1>2, <2>1
    <2> QED
      BY <1>1, <1>4, <2>1, <2>2
  <1>6. Changes(s[1], r, p[1], p[2])
    <2>1. 1 \in 1..Len(s) /\ 1 + 1 = 2
      BY <1>1
    <2> QED
      BY <1>2, <2>1
  <1> QED
    BY <1>2, <1>3, <1>5, <1>6 DEF Path

\* Only the rules and the kinds of the requests count.
LEMMA PathSame ==
  ASSUME NEW s, NEW t, NEW r, NEW from, NEW to, NEW p, Path(p, s, r, from, to),
         Len(t) = Len(s), \A k \in 1..Len(s) : t[k].rule = s[k].rule /\ t[k].what = s[k].what
  PROVE  Path(p, t, r, from, to)
  BY DEF Path, Changes

LEMMA BelievedType == ASSUME NEW r PROVE Believed(r) \in 0..1
  BY DEF Believed

LEMMA ForeseenAt ==
  ASSUME RulesForeseen, NEW r \in Watched \ doubtful
  PROVE  \E p : Path(p, wire, r, bus[r], Believed(r))
  BY DEF RulesForeseen

\* Nothing that concerns the rules of callbacks is sent, handled or believed.
LEMMA ForeseenKept ==
  ASSUME Calls, RulesForeseen, doubtful \subseteq doubtful', UNCHANGED bus,
         \A r \in Watched : r \in match_rules' <=> r \in match_rules,
         \/ UNCHANGED wire
         \/ \E m : Grows(wire, wire', m) /\ (m.what = "GetNameOwner" \/ m.rule \notin Watched)
  PROVE  RulesForeseen'
  <1> SUFFICES ASSUME NEW r \in Watched \ doubtful'
               PROVE  \E p : Path(p, wire', r, bus'[r], Believed(r)')
    BY DEF RulesForeseen
  <1>1. PICK p : Path(p, wire, r, bus[r], Believed(r))
    BY ForeseenAt
  <1>2. Believed(r)' = Believed(r) /\ bus'[r] = bus[r] /\ Believed(r) \in 0..1
    BY DEF Believed
  <1>3. CASE UNCHANGED wire
    BY <1>1, <1>2, <1>3
  <1>4. CASE \E m : Grows(wire, wire', m) /\ (m.what = "GetNameOwner" \/ m.rule \notin Watched)
    <2>1. PICK m : Grows(wire, wire', m) /\ (m.what = "GetNameOwner" \/ m.rule \notin Watched)
      BY <1>4
    <2>2. Changes(m, r, Believed(r), Believed(r))
      BY <2>1 DEF Changes
    <2>3. \E q : Path(q, wire', r, bus[r], Believed(r))
      BY <1>1, <1>2, <2>1, <2>2, TrafficFacts, PathGrows
    <2> QED
      BY <1>2, <2>3
  <1> QED
    BY <1>3, <1>4

\* No thread comes to where callbacks are changed, or goes from there.
LEMMA FollowKept ==
  ASSUME CallbacksFollow, doubtful \subseteq doubtful', UNCHANGED callbacks,
         \A r \in Watched : r \in match_rules' <=> r \in match_rules,
         \A t \in Threads : \/ op'[t] = op[t]
                            \/ /\ op[t].at # "assign" /\ op'[t].at # "assign"
                               /\ op'[t].at = "enter" => op'[t].ok
  PROVE  CallbacksFollow'
  <1>0. \A t \in Threads : op'[t].at = "enter" => op'[t].ok
    BY DEF CallbacksFollow
  <1> SUFFICES ASSUME NEW r \in Watched, r \notin doubtful'
               PROVE  /\ \A t \in Threads : op'[t].at = "assign" /\ op'[t].ok /\ op'[t].rule = r =>
                                              (op'[t].on <=> r \in match_rules')
                      /\ (\A t \in Threads : ~(op'[t].at = "assign" /\ op'[t].ok /\ op'[t].rule = r)) =>
                           (r \in callbacks <=> r \in match_rules')
    BY <1>0 DEF CallbacksFollow, Assigns
  <1>1. r \notin doubtful
    OBVIOUS
  <1>2. /\ \A t \in Threads : Assigns(t, r) => (op[t].on <=> r \in match_rules)
        /\ (\A t \in Threads : ~Assigns(t, r)) => (r \in callbacks <=> r \in match_rules)
    BY <1>1 DEF CallbacksFollow
  <1>3. \A t \in Threads : (op'[t].at = "assign" /\ op'[t].ok /\ op'[t].rule = r) <=> Assigns(t, r)
    <2> TAKE t \in Threads
    <2>1. CASE op'[t] = op[t]
      BY <2>1 DEF Assigns
    <2>2. CASE op[t].at # "assign" /\ op'[t].at # "assign"
      BY <2>2 DEF Assigns
    <2> QED
      BY <2>1, <2>2
  <1>4. \A t \in Threads : Assigns(t, r) => op'[t] = op[t]
    BY DEF Assigns
  <1> QED
    BY <1>2, <1>3, <1>4

LEMMA BusHandlesForeseen ==
  ASSUME Calls, RulesForeseen, BusHandles
  PROVE  RulesForeseen'
  <1>types. /\ Len(wire) \in Nat /\ bus \in [Rules -> Nat]
            /\ \A k \in 1..Len(wire) : FitsWire(wire[k])
    BY TrafficFacts, CallsParts DEF RulesTypeOK
  <1> DEFINE m == wire[1]
  <1>1. PICK ok \in BOOLEAN :
           /\ m \in Request
           /\ m.what = "RemoveMatch" => ok = (bus[m.rule] > 0)
           /\ bus' = CASE ok /\ m.what = "AddMatch" -> [bus EXCEPT ![m.rule] = @ + 1]
                       [] ok /\ m.what = "RemoveMatch" -> [bus EXCEPT ![m.rule] = @ - 1]
                       [] OTHER -> bus
           /\ doubtful' = IF m.by = "nobody" /\ ~ok THEN doubtful \cup {m.rule} ELSE doubtful
           /\ Shrinks(wire, wire')
           /\ UNCHANGED match_rules
    BY BusHandlesFacts
  <1>2. FitsWire(m)
    BY <1>types, <1>1 DEF Shrinks
  <1> SUFFICES ASSUME NEW r \in Watched \ doubtful'
               PROVE  \E p : Path(p, wire', r, bus'[r], Believed(r)')
    BY DEF RulesForeseen
  <1>3. r \in Watched \ doubtful /\ r \in Rules /\ Believed(r)' = Believed(r)
    BY <1>1, NameWatchAssumption DEF Believed
  <1>4. PICK p : Path(p, wire, r, bus[r], Believed(r))
    BY <1>3, ForeseenAt
  <1>5. \E q : Path(q, wire', r, p[2], Believed(r)) /\ Changes(m, r, bus[r], p[2])
    BY <1>types, <1>1, <1>4, PathShrinks
  <1>6. Changes(m, r, bus[r], p[2])
    BY <1>5
  <1>7. bus'[r] = p[2]
    <2> HIDE DEF m
    <2>1. CASE m.rule = r /\ m.what # "GetNameOwner"
      <3>1. m.by = "nobody"
        BY <1>2, <2>1, NameWatchAssumption DEF FitsWire
      <3>2. ok
        BY <1>1, <2>1, <3>1
      <3>3. bus[r] = (IF m.what = "AddMatch" THEN 0 ELSE 1) /\ p[2] = 1 - bus[r]
        BY <1>6, <2>1 DEF Changes
      <3>4. CASE m.what = "AddMatch"
        <4>1. bus' = [bus EXCEPT ![m.rule] = @ + 1]
          BY <1>1, <3>2, <3>4
        <4> QED
          BY <1>types, <1>3, <2>1, <3>3, <3>4, <4>1
      <3>5. CASE m.what = "RemoveMatch"
        <4>1. bus' = [bus EXCEPT ![m.rule] = @ - 1]
          BY <1>1, <3>2, <3>5
        <4> QED
          BY <1>types, <1>3, <2>1, <3>3, <3>5, <4>1
      <3> QED
        BY <1>1, <2>1, <3>4, <3>5 DEF Request, Kinds
    <2>2. CASE m.rule # r
      <3>1. p[2] = bus[r]
        BY <1>6, <2>2 DEF Changes
      <3>2. bus'[r] = bus[r]
        BY <1>types, <1>1, <1>3, <2>2
      <3> QED
        BY <3>1, <3>2
    <2>3. CASE m.what = "GetNameOwner"
      <3>1. p[2] = bus[r]
        BY <1>6, <2>3 DEF Changes
      <3>2. bus' = bus
        BY <1>1, <2>3
      <3> QED
        BY <3>1, <3>2
    <2> QED
      BY <2>1, <2>2, <2>3
  <1> QED
    BY <1>3, <1>5, <1>7

LEMMA TimesOutForeseen ==
  ASSUME Calls, RulesForeseen, TimesOut
  PROVE  RulesForeseen'
  <1>1. PICK k \in 1..Len(wire) :
           /\ Len(wire') = Len(wire)
           /\ \A i \in 1..Len(wire) : wire'[i].what = wire[i].what /\ wire'[i].rule = wire[i].rule
           /\ doubtful' = IF wire[k].what = "GetNameOwner" THEN doubtful ELSE doubtful \cup {wire[k].rule}
           /\ UNCHANGED <<match_rules, bus>>
    BY TimesOutFacts
  <1> SUFFICES ASSUME NEW r \in Watched \ doubtful'
               PROVE  \E p : Path(p, wire', r, bus'[r], Believed(r)')
    BY DEF RulesForeseen
  <1>2. r \in Watched \ doubtful /\ Believed(r)' = Believed(r) /\ bus'[r] = bus[r]
    BY <1>1 DEF Believed
  <1>3. PICK p : Path(p, wire, r, bus[r], Believed(r))
    BY <1>2, ForeseenAt
  <1>4. Path(p, wire', r, bus[r], Believed(r))
    BY <1>1, <1>3, PathSame
  <1> QED
    BY <1>2, <1>4

\* What AskQuietly does to the one rule that it is about.
LEMMA AskQuietlyForeseen ==
  ASSUME Calls, RulesForeseen, NEW what \in {"AddMatch", "RemoveMatch"}, NEW rule \in Watched,
         NEW sent \in BOOLEAN, AskQuietly(what, rule, sent)
  PROVE  RulesForeseen'
  <1>types. Len(wire) \in Nat
    BY TrafficFacts
  <1> DEFINE m == [by |-> "nobody", what |-> what, rule |-> rule, of |-> 0, late |-> FALSE]
  <1>1. /\ match_rules' = IF what = "AddMatch" THEN match_rules \cup {rule} ELSE match_rules \ {rule}
        /\ doubtful' = IF Needed(what, rule) /\ ~sent THEN doubtful \cup {rule} ELSE doubtful
        /\ UNCHANGED bus
    BY DEF AskQuietly, Updated
  <1>2. IF Needed(what, rule) /\ sent THEN Grows(wire, wire', m) ELSE wire' = wire
    <2>1. "nobody" \in Receivers /\ what \in Kinds /\ rule \in Rules \cup {NoRule} /\ 0 \in Nat
      BY NameWatchAssumption DEF Receivers, Kinds
    <2>2. wire' = IF Needed(what, rule) /\ sent THEN SentFor("nobody", what, rule, 0) ELSE wire
      BY DEF AskQuietly, Sent
    <2> QED
      BY <2>1, <2>2, SentFacts
  <1>3. m.rule = rule /\ m.what = what
    OBVIOUS
  <1> HIDE DEF m
  <1> SUFFICES ASSUME NEW r \in Watched \ doubtful'
               PROVE  \E p : Path(p, wire', r, bus'[r], Believed(r)')
    BY DEF RulesForeseen
  <1>4. r \in Watched \ doubtful /\ bus'[r] = bus[r] /\ Believed(r)' \in 0..1
    BY <1>1 DEF Believed
  <1>5. PICK p : Path(p, wire, r, bus[r], Believed(r))
    BY <1>4, ForeseenAt
  <1>6. CASE Needed(what, rule) /\ sent
    <2>1. Changes(m, r, Believed(r), Believed(r)')
      <3>1. CASE r = rule
        BY <1>1, <1>3, <1>6, <3>1 DEF Changes, Believed, Needed
      <3>2. CASE r # rule
        BY <1>1, <1>3, <3>2 DEF Changes, Believed
      <3> QED
        BY <3>1, <3>2
    <2>2. Grows(wire, wire', m)
      BY <1>2, <1>6
    <2>3. \E q : Path(q, wire', r, bus[r], Believed(r)')
      BY <1>types, <1>4, <1>5, <2>1, <2>2, PathGrows
    <2> QED
      BY <1>4, <2>3
  <1>7. CASE ~(Needed(what, rule) /\ sent)
    <2>1. Believed(r)' = Believed(r)
      <3>1. CASE r = rule
        <4>1. ~Needed(what, rule)
          BY <1>1, <1>7, <3>1
        <4> QED
          BY <1>1, <3>1, <4>1 DEF Believed, Needed
      <3>2. CASE r # rule
        BY <1>1, <3>2 DEF Believed
      <3> QED
        BY <3>1, <3>2
    <2>2. wire' = wire
      BY <1>2, <1>7
    <2> QED
      BY <1>4, <1>5, <2>1, <2>2
  <1> QED
    BY <1>6, <1>7

LEMMA AskForRuleForeseen ==
  ASSUME Calls, RulesForeseen, CallbacksFollow, NEW t \in Threads, AskForRule(t)
  PROVE  RulesForeseen' /\ CallbacksFollow'
  <1>inv. OpTypes /\ Links
    BY CallsParts
  <1> DEFINE what == What(op[t].on)
             rule == op[t].rule
             on == op[t].on
  <1>1. /\ op[t].at = "ask" /\ UNCHANGED callbacks
        /\ \/ op' = [op EXCEPT ![t].at = "assign", ![t].ok = FALSE] /\ UNCHANGED ruleVars
           \/ \E sent \in BOOLEAN :
                /\ AskQuietly(what, rule, sent)
                /\ op' = [op EXCEPT ![t].at = "assign", ![t].ok = ~Needed(what, rule) \/ sent]
    BY DEF AskForRule
  <1>2. /\ rule \in Watched /\ op[t] \in OpRecord /\ cb_mutex = t
        /\ \A s \in Threads \ {t} : op[s].at # "assign"
    <2>1. cb_mutex = t
      BY <1>inv, <1>1 DEF OpTypes
    <2> QED
      BY <1>inv, <1>1, <2>1 DEF OpTypes, Links
  <1>3. on \in BOOLEAN /\ what = (IF on THEN "AddMatch" ELSE "RemoveMatch") /\ rule \in Watched
    BY <1>2 DEF OpRecord, What
  <1>4. \A r \in Watched \ doubtful : r \in callbacks <=> r \in match_rules
    <2>1. \A s \in Threads : op[s].at # "assign"
      BY <1>1, <1>2
    <2> QED
      BY <2>1 DEF CallbacksFollow, Assigns
  <1>5. ASSUME NEW ok \in BOOLEAN, op' = [op EXCEPT ![t].at = "assign", ![t].ok = ok]
        PROVE  /\ \A s \in Threads \ {t} : op'[s] = op[s]
               /\ op'[t].at = "assign" /\ op'[t].ok = ok /\ op'[t].rule = rule /\ op'[t].on = on
    <2> DEFINE e == [op[t] EXCEPT !.at = "assign", !.ok = ok]
    <2>1. e.at = "assign" /\ e.ok = ok /\ e.rule = rule /\ e.on = on
      BY <1>2 DEF OpRecord
    <2>2. op' = [op EXCEPT ![t] = e]
      BY <1>inv, <1>5 DEF OpTypes
    <2> HIDE DEF e
    <2> QED
      BY <1>inv, <2>1, <2>2 DEF OpTypes
  <1>6. ASSUME NEW ok \in BOOLEAN,
               /\ \A s \in Threads \ {t} : op'[s] = op[s]
               /\ op'[t].at = "assign" /\ op'[t].ok = ok /\ op'[t].rule = rule /\ op'[t].on = on,
               doubtful \subseteq doubtful',
               \A r \in Watched \ doubtful' :
                 IF r = rule /\ ok THEN on <=> r \in match_rules' ELSE r \in match_rules' <=> r \in match_rules
        PROVE  CallbacksFollow'
    <2>1. \A s \in Threads : op'[s].at = "enter" => op'[s].ok
      BY <1>6 DEF CallbacksFollow
    <2> SUFFICES ASSUME NEW r \in Watched \ doubtful'
                 PROVE  /\ \A s \in Threads : op'[s].at = "assign" /\ op'[s].ok /\ op'[s].rule = r =>
                                                (op'[s].on <=> r \in match_rules')
                        /\ (\A s \in Threads : ~(op'[s].at = "assign" /\ op'[s].ok /\ op'[s].rule = r)) =>
                             (r \in callbacks <=> r \in match_rules')
      BY <1>1, <2>1 DEF CallbacksFollow, Assigns
    <2>2. \A s \in Threads : op'[s].at = "assign" => s = t
      BY <1>2, <1>6
    <2>3. CASE r = rule /\ ok
      BY <1>6, <2>2, <2>3
    <2>4. CASE ~(r = rule /\ ok)
      <3>1. r \in match_rules' <=> r \in match_rules
        BY <1>6, <2>4
      <3>2. r \in callbacks <=> r \in match_rules
        BY <1>4, <1>6
      <3>3. \A s \in Threads : ~(op'[s].at = "assign" /\ op'[s].ok /\ op'[s].rule = r)
        BY <1>6, <2>2, <2>4
      <3> QED
        BY <3>1, <3>2, <3>3
    <2> QED
      BY <2>3, <2>4
  <1> HIDE DEF what, rule, on
  <1>7. CASE op' = [op EXCEPT ![t].at = "assign", ![t].ok = FALSE] /\ UNCHANGED ruleVars
    <2>1. UNCHANGED <<match_rules, doubtful, wire, bus>> /\ FALSE \in BOOLEAN
      BY <1>7 DEF ruleVars
    <2>2. /\ \A s \in Threads \ {t} : op'[s] = op[s]
          /\ op'[t].at = "assign" /\ op'[t].ok = FALSE /\ op'[t].rule = rule /\ op'[t].on = on
      BY <1>5, <1>7, <2>1
    <2>3. CallbacksFollow'
      BY <1>6, <2>1, <2>2
    <2>4. RulesForeseen'
      BY <2>1, ForeseenKept
    <2> QED
      BY <2>3, <2>4
  <1>8. CASE \E sent \in BOOLEAN :
               /\ AskQuietly(what, rule, sent)
               /\ op' = [op EXCEPT ![t].at = "assign", ![t].ok = ~Needed(what, rule) \/ sent]
    <2>1. PICK sent \in BOOLEAN :
               /\ AskQuietly(what, rule, sent)
               /\ op' = [op EXCEPT ![t].at = "assign", ![t].ok = ~Needed(what, rule) \/ sent]
      BY <1>8
    <2> DEFINE ok == ~Needed(what, rule) \/ sent
    <2>2. ok \in BOOLEAN
      OBVIOUS
    <2>3. /\ match_rules' = IF what = "AddMatch" THEN match_rules \cup {rule} ELSE match_rules \ {rule}
          /\ doubtful' = IF Needed(what, rule) /\ ~sent THEN doubtful \cup {rule} ELSE doubtful
      BY <1>3, <2>1 DEF AskQuietly, Updated
    <2>4. \A r \in Watched \ doubtful' :
            IF r = rule /\ ok THEN on <=> r \in match_rules' ELSE r \in match_rules' <=> r \in match_rules
      <3> TAKE r \in Watched \ doubtful'
      <3>1. CASE r = rule
        <4>1. ok
          BY <2>3, <3>1
        <4>2. on <=> r \in match_rules'
          BY <1>3, <2>3, <3>1
        <4> QED
          BY <3>1, <4>1, <4>2
      <3>2. CASE r # rule
        BY <2>3, <3>2
      <3> QED
        BY <3>1, <3>2
    <2>5. op' = [op EXCEPT ![t].at = "assign", ![t].ok = ok]
      BY <2>1
    <2> HIDE DEF ok
    <2>6. /\ \A s \in Threads \ {t} : op'[s] = op[s]
          /\ op'[t].at = "assign" /\ op'[t].ok = ok /\ op'[t].rule = rule /\ op'[t].on = on
      BY <1>5, <2>2, <2>5
    <2>7. doubtful \subseteq doubtful'
      BY <2>3
    <2>8. CallbacksFollow'
      BY <1>6, <2>2, <2>4, <2>6, <2>7
    <2>9. RulesForeseen'
      BY <1>3, <2>1, AskQuietlyForeseen
    <2> QED
      BY <2>8, <2>9
  <1> QED
    BY <1>1, <1>7, <1>8 DEF what, rule

LEMMA EnterFollows ==
  ASSUME Calls, CallbacksFollow, NEW t \in Threads, Enter(t)
  PROVE  CallbacksFollow'
  <1>inv. OpTypes
    BY CallsParts
  <1> DEFINE at == IF op[t].on # (op[t].rule \in callbacks) THEN "ask" ELSE "assign"
             e == [op[t] EXCEPT !.at = at]
  <1>1. /\ op[t].at = "enter" /\ cb_mutex = "free"
        /\ op' = [op EXCEPT ![t].at = at]
        /\ UNCHANGED <<match_rules, doubtful, callbacks>>
    BY DEF Enter, ruleVars
  <1>2. e.at = at /\ e.rule = op[t].rule /\ e.on = op[t].on /\ e.ok = op[t].ok /\ op' = [op EXCEPT ![t] = e]
    BY <1>inv, <1>1 DEF OpTypes, OpRecord
  <1>3. op[t].on \in BOOLEAN
    BY <1>inv DEF OpTypes, OpRecord
  <1> HIDE DEF e
  <1>4. /\ \A s \in Threads \ {t} : op'[s] = op[s]
        /\ op'[t].at = at /\ op'[t].rule = op[t].rule /\ op'[t].on = op[t].on /\ op'[t].ok = op[t].ok
    BY <1>inv, <1>2 DEF OpTypes
  <1>5. \A s \in Threads : op[s].at # "assign"
    BY <1>inv, <1>1, MatchRulesAssumption DEF OpTypes
  <1>6. \A s \in Threads : op'[s].at = "enter" => op'[s].ok
    BY <1>4 DEF CallbacksFollow
  <1> SUFFICES ASSUME NEW r \in Watched \ doubtful
               PROVE  /\ \A s \in Threads : op'[s].at = "assign" /\ op'[s].ok /\ op'[s].rule = r =>
                                              (op'[s].on <=> r \in match_rules)
                      /\ (\A s \in Threads : ~(op'[s].at = "assign" /\ op'[s].ok /\ op'[s].rule = r)) =>
                           (r \in callbacks <=> r \in match_rules)
    BY <1>1, <1>6 DEF CallbacksFollow, Assigns
  <1>7. r \in callbacks <=> r \in match_rules
    BY <1>5 DEF CallbacksFollow, Assigns
  <1>8. ASSUME NEW s \in Threads, op'[s].at = "assign", op'[s].rule = r
        PROVE  op'[s].on <=> r \in match_rules
    <2>1. s = t /\ at = "assign" /\ op[t].rule = r
      BY <1>4, <1>5, <1>8
    <2>2. op[t].on <=> r \in callbacks
      BY <1>3, <2>1
    <2> QED
      BY <1>4, <1>7, <2>1, <2>2
  <1> QED
    BY <1>7, <1>8

LEMMA AssignFollows ==
  ASSUME Calls, CallbacksFollow, NEW t \in Threads, Assign(t)
  PROVE  CallbacksFollow'
  <1>inv. OpTypes
    BY CallsParts
  <1>1. /\ op[t].at = "assign"
        /\ callbacks' = CASE op[t].ok /\ op[t].on -> callbacks \cup {op[t].rule}
                          [] op[t].ok /\ ~op[t].on -> callbacks \ {op[t].rule}
                          [] OTHER -> callbacks
        /\ op' = [op EXCEPT ![t] = NoOp]
        /\ UNCHANGED <<match_rules, doubtful>>
    BY DEF Assign, ruleVars
  <1>2. /\ \A s \in Threads \ {t} : op'[s] = op[s] /\ op[s].at # "assign"
        /\ op'[t].at = "idle"
    <2>1. cb_mutex = t
      BY <1>inv, <1>1 DEF OpTypes
    <2> QED
      BY <1>inv, <1>1, <2>1 DEF OpTypes, NoOp
  <1>3. op[t].on \in BOOLEAN /\ op[t].ok \in BOOLEAN
    BY <1>inv DEF OpTypes, OpRecord
  <1>4. \A s \in Threads : op'[s].at = "enter" => op'[s].ok
    BY <1>2 DEF CallbacksFollow
  <1> SUFFICES ASSUME NEW r \in Watched \ doubtful
               PROVE  /\ \A s \in Threads : op'[s].at # "assign"
                      /\ r \in callbacks' <=> r \in match_rules
    BY <1>1, <1>4 DEF CallbacksFollow, Assigns
  <1>5. \A s \in Threads : op'[s].at # "assign"
    BY <1>2
  <1>6. CASE op[t].ok /\ op[t].rule = r
    <2>1. op[t].on <=> r \in match_rules
      BY <1>1, <1>6 DEF CallbacksFollow, Assigns
    <2>2. op[t].on <=> r \in callbacks'
      BY <1>1, <1>6
    <2> QED
      BY <1>5, <2>1, <2>2
  <1>7. CASE ~(op[t].ok /\ op[t].rule = r)
    <2>1. \A s \in Threads : ~Assigns(s, r)
      BY <1>2, <1>7 DEF Assigns
    <2>2. r \in callbacks <=> r \in match_rules
      BY <2>1 DEF CallbacksFollow
    <2>3. r \in callbacks' <=> r \in callbacks
      BY <1>1, <1>7
    <2> QED
      BY <1>5, <2>2, <2>3
  <1> QED
    BY <1>6, <1>7

LEMMA DisconnectForeseen ==
  ASSUME Calls, CallbacksFollow, Disconnect
  PROVE  RulesForeseen' /\ CallbacksFollow'
  <1>1. /\ callbacks' = {}
        /\ bus' = [r \in Rules |-> 0] /\ wire' = <<>>
        /\ doubtful \cup match_rules \subseteq doubtful'
        /\ UNCHANGED <<match_rules, op>>
    BY DEF Disconnect
  <1>2. RulesForeseen'
    <2> SUFFICES ASSUME NEW r \in Watched \ doubtful'
                 PROVE  \E p : Path(p, wire', r, bus'[r], Believed(r)')
      BY DEF RulesForeseen
    <2>1. bus'[r] = 0 /\ Believed(r)' = 0
      BY <1>1, NameWatchAssumption DEF Believed
    <2> DEFINE p == [k \in 1..1 |-> 0]
    <2>2. p \in [1..1 -> 0..1] /\ p[1] = 0 /\ Len(wire') = 0
      BY <1>1
    <2> HIDE DEF p
    <2>3. Path(p, wire', r, 0, 0)
      BY <2>2 DEF Path
    <2> QED
      BY <2>1, <2>3
  <1>3. CallbacksFollow'
    <2>1. \A s \in Threads : op'[s].at = "enter" => op'[s].ok
      BY <1>1 DEF CallbacksFollow
    <2> SUFFICES ASSUME NEW r \in Watched \ doubtful'
                 PROVE  /\ \A s \in Threads : Assigns(s, r) => (op[s].on <=> r \in match_rules)
                        /\ (\A s \in Threads : ~Assigns(s, r)) => (r \in callbacks' <=> r \in match_rules)
      BY <1>1, <2>1 DEF CallbacksFollow, Assigns
    <2>2. r \notin match_rules /\ r \notin callbacks' /\ r \in Watched \ doubtful
      BY <1>1
    <2> QED
      BY <2>2 DEF CallbacksFollow
  <1> QED
    BY <1>2, <1>3

LEMMA InitForeseen ==
  ASSUME Init
  PROVE  RulesForeseen /\ CallbacksFollow
  <1>1. /\ match_rules = {} /\ callbacks = {} /\ wire = <<>> /\ bus = [r \in Rules |-> 0]
        /\ op = [t \in Threads |-> NoOp]
    BY DEF Init, RulesInit
  <1>2. RulesForeseen
    <2> SUFFICES ASSUME NEW r \in Watched
                 PROVE  \E p : Path(p, wire, r, bus[r], Believed(r))
      BY DEF RulesForeseen
    <2>1. bus[r] = 0 /\ Believed(r) = 0
      BY <1>1, NameWatchAssumption DEF Believed
    <2> DEFINE p == [k \in 1..1 |-> 0]
    <2>2. p \in [1..1 -> 0..1] /\ p[1] = 0 /\ Len(wire) = 0
      BY <1>1
    <2> HIDE DEF p
    <2>3. Path(p, wire, r, 0, 0)
      BY <2>2 DEF Path
    <2> QED
      BY <2>1, <2>3
  <1>3. CallbacksFollow
    BY <1>1 DEF CallbacksFollow, Assigns, NoOp
  <1> QED
    BY <1>2, <1>3

LEMMA FinishForeseen ==
  ASSUME Calls, RulesForeseen, CallbacksFollow, NEW t \in Threads, Finish(t), UNCHANGED watchVars
  PROVE  RulesForeseen' /\ CallbacksFollow'
  <1>1. /\ match_rules' = Updated(call[t].what, call[t].rule, call[t].ok)
        /\ UNCHANGED <<bus, wire, doubtful, callbacks, op>>
        /\ call[t].at = "replied"
    BY DEF Finish, watchVars
  <1>2. call[t].rule \notin Watched
    BY <1>1, CallsParts, NameWatchAssumption DEF Links
  <1>3. \A r \in Watched : r \in match_rules' <=> r \in match_rules
    BY <1>1, <1>2 DEF Updated
  <1> QED
    BY <1>1, <1>3, ForeseenKept, FollowKept

LEMMA AskMatchForeseen ==
  ASSUME Calls, RulesForeseen, CallbacksFollow, NEW t \in Threads, AskMatch(t)
  PROVE  RulesForeseen' /\ CallbacksFollow'
  <1> DEFINE c == call[t]
             m == [by |-> t, what |-> c.what, rule |-> c.rule, of |-> 0, late |-> FALSE]
  <1>1. /\ UNCHANGED <<bus, match_rules, callbacks, op>> /\ c.at = "ready"
        /\ UNCHANGED wire \/ wire' = SentFor(t, c.what, c.rule, 0)
        /\ doubtful \subseteq doubtful'
    BY DEF AskMatch, Ask, Sent, watchVars
  <1>2. /\ c.what \in Kinds /\ c.rule \in Rules \cup {NoRule} /\ t \in Receivers /\ 0 \in Nat
        /\ c.rule \notin Watched
    BY <1>1, CallsParts, NameWatchAssumption DEF CallRecord, Receivers, Links
  <1>3. m.rule = c.rule
    OBVIOUS
  <1> HIDE DEF c
  <1>4. wire' = SentFor(t, c.what, c.rule, 0) => Grows(wire, wire', m)
    BY <1>2, SentFacts
  <1> HIDE DEF m
  <1>5. RulesForeseen'
    BY <1>1, <1>2, <1>3, <1>4, ForeseenKept
  <1>6. CallbacksFollow'
    BY <1>1, FollowKept
  <1> QED
    BY <1>5, <1>6

LEMMA OnSignalForeseen ==
  ASSUME Calls, RulesForeseen, CallbacksFollow, on_signal
  PROVE  RulesForeseen' /\ CallbacksFollow'
  <1> DEFINE h == Head(queue)
             m == [by |-> "async", what |-> "GetNameOwner", rule |-> h.rule, of |-> h.of, late |-> FALSE]
  <1>1. /\ UNCHANGED <<bus, match_rules, doubtful, callbacks, op>> /\ queue # <<>> /\ queue' = Tail(queue)
        /\ UNCHANGED wire \/ wire' = SentFor("async", "GetNameOwner", h.rule, h.of)
    BY DEF on_signal
  <1>2. h \in Item
    BY <1>1, TakeFacts
  <1>3. h.rule \in Rules \cup {NoRule} /\ h.of \in Nat /\ "async" \in Receivers /\ "GetNameOwner" \in Kinds
    BY <1>2 DEF Item, Receivers, Kinds
  <1>4. m.what = "GetNameOwner"
    OBVIOUS
  <1> HIDE DEF h
  <1>5. wire' = SentFor("async", "GetNameOwner", h.rule, h.of) => Grows(wire, wire', m)
    BY <1>3, SentFacts
  <1> HIDE DEF m
  <1>6. RulesForeseen'
    BY <1>1, <1>4, <1>5, ForeseenKept
  <1>7. CallbacksFollow'
    BY <1>1, FollowKept
  <1> QED
    BY <1>6, <1>7

\* The steps that let rules and callbacks alone.
LEMMA ForeseenStays ==
  ASSUME Calls, RulesForeseen, CallbacksFollow, UNCHANGED <<match_rules, bus, wire, doubtful, callbacks>>,
         \A t \in Threads : \/ op'[t] = op[t]
                            \/ /\ op[t].at # "assign" /\ op'[t].at # "assign"
                               /\ op'[t].at = "enter" => op'[t].ok
  PROVE  RulesForeseen' /\ CallbacksFollow'
  BY ForeseenKept, FollowKept

-----------------------------------------------------------------------------
(* The inductive invariant, and the theorems. *)

IInv == Calls /\ Numbers /\ RulesForeseen /\ CallbacksFollow

LEMMA InitIInv == Init => IInv
  BY InitCalls, InitNumbers, InitForeseen DEF IInv

LEMMA BeginForeseen ==
  ASSUME IInv, NEW t \in Threads, NEW at \in {"enter", "match"}, NEW rule \in Rules, NEW on \in BOOLEAN,
         Begin(t, at, rule, on), UNCHANGED <<match_rules, bus, wire, doubtful, callbacks>>
  PROVE  RulesForeseen' /\ CallbacksFollow'
  <1>1. op' = [op EXCEPT ![t] = [at |-> at, rule |-> rule, on |-> on, ok |-> TRUE]] /\ op[t] = NoOp
    BY DEF Begin, Idle
  <1>2. op \in [Threads -> OpRecord]
    BY CallsParts DEF IInv, OpTypes
  <1>3. /\ \A s \in Threads \ {t} : op'[s] = op[s]
        /\ op'[t].at = at /\ op'[t].ok = TRUE /\ op[t].at = "idle"
    BY <1>1, <1>2 DEF NoOp
  <1>4. \A s \in Threads : \/ op'[s] = op[s]
                           \/ /\ op[s].at # "assign" /\ op'[s].at # "assign"
                              /\ op'[s].at = "enter" => op'[s].ok
    BY <1>3
  <1> QED
    BY <1>4, ForeseenStays DEF IInv

LEMMA StepOfThread ==
  ASSUME IInv, NEW t \in Threads,
         \/ Enter(t) \/ AskForRule(t) \/ Assign(t) \/ AskMatch(t) \/ MatchDone(t)
         \/ Finish(t) /\ UNCHANGED watchVars
         \/ (\E rule \in Watched, on \in BOOLEAN : SetCallback(t, rule, on))
         \/ (\E rule \in OtherRules, on \in BOOLEAN : CallMatch(t, rule, on))
  PROVE  IInv'
  <1>inv. Calls /\ Numbers /\ RulesForeseen /\ CallbacksFollow
    BY DEF IInv
  <1>1. CASE Enter(t)
    <2>1. Calls'
      BY <1>inv, <1>1, EnterCalls
    <2>2. UNCHANGED <<match_rules, bus, wire, queue, doubtful, handled, looked_up, signals>>
      BY <1>1 DEF Enter, ruleVars
    <2>3. Numbers'
      BY <1>inv, <2>1, <2>2, NumbersStay
    <2>4. RulesForeseen' /\ CallbacksFollow'
      BY <1>inv, <1>1, <2>2, EnterFollows, ForeseenKept
    <2> QED
      BY <2>1, <2>3, <2>4 DEF IInv
  <1>2. CASE AskForRule(t)
    BY <1>inv, <1>2, AskForRuleCalls, AskForRuleNumbers, AskForRuleForeseen DEF IInv
  <1>3. CASE Assign(t)
    <2>1. Calls'
      BY <1>inv, <1>3, AssignCalls
    <2>2. UNCHANGED <<match_rules, bus, wire, queue, doubtful, handled, looked_up, signals>>
      BY <1>3 DEF Assign, ruleVars
    <2>3. Numbers'
      BY <1>inv, <2>1, <2>2, NumbersStay
    <2>4. RulesForeseen' /\ CallbacksFollow'
      BY <1>inv, <1>3, <2>2, AssignFollows, ForeseenKept
    <2> QED
      BY <2>1, <2>3, <2>4 DEF IInv
  <1>4. CASE AskMatch(t)
    BY <1>inv, <1>4, AskMatchCalls, AskMatchNumbers, AskMatchForeseen DEF IInv
  <1>5. CASE MatchDone(t)
    <2>1. Calls'
      BY <1>inv, <1>5, MatchDoneCalls
    <2>2. /\ UNCHANGED <<match_rules, bus, wire, queue, doubtful, callbacks, handled, looked_up, signals>>
          /\ op[t].at = "match" /\ op' = [op EXCEPT ![t] = NoOp]
      BY <1>5 DEF MatchDone
    <2>3. Numbers'
      BY <1>inv, <2>1, <2>2, NumbersStay
    <2>4. \A s \in Threads : \/ op'[s] = op[s]
                             \/ /\ op[s].at # "assign" /\ op'[s].at # "assign"
                                /\ op'[s].at = "enter" => op'[s].ok
      BY <1>inv, <2>2, CallsParts DEF OpTypes, NoOp
    <2>5. RulesForeseen' /\ CallbacksFollow'
      BY <1>inv, <2>2, <2>4, ForeseenStays
    <2> QED
      BY <2>1, <2>3, <2>5 DEF IInv
  <1>6. CASE Finish(t) /\ UNCHANGED watchVars
    <2>1. Calls'
      BY <1>inv, <1>6, FinishCalls
    <2>2. UNCHANGED <<wire, queue, handled, looked_up, signals>>
      BY <1>6 DEF Finish, watchVars
    <2>3. Numbers'
      BY <1>inv, <2>1, <2>2, NumbersStay
    <2> QED
      BY <1>inv, <1>6, <2>1, <2>3, FinishForeseen DEF IInv
  <1>7. CASE \E rule \in Watched, on \in BOOLEAN : SetCallback(t, rule, on)
    <2>1. PICK rule \in Watched, on \in BOOLEAN : SetCallback(t, rule, on)
      BY <1>7
    <2>2. Calls'
      BY <1>inv, <2>1, SetCallbackCalls
    <2>3. /\ UNCHANGED <<match_rules, bus, wire, queue, doubtful, callbacks, handled, looked_up, signals>>
          /\ Begin(t, "enter", rule, on) /\ rule \in Rules
      BY <2>1, NameWatchAssumption DEF SetCallback, ruleVars
    <2>4. Numbers'
      BY <1>inv, <2>2, <2>3, NumbersStay
    <2>5. RulesForeseen' /\ CallbacksFollow'
      BY <2>3, BeginForeseen
    <2> QED
      BY <2>2, <2>4, <2>5 DEF IInv
  <1>8. CASE \E rule \in OtherRules, on \in BOOLEAN : CallMatch(t, rule, on)
    <2>1. PICK rule \in OtherRules, on \in BOOLEAN : CallMatch(t, rule, on)
      BY <1>8
    <2>2. Calls'
      BY <1>inv, <2>1, CallMatchCalls
    <2>3. /\ UNCHANGED <<match_rules, bus, wire, queue, doubtful, callbacks, handled, looked_up, signals>>
          /\ Begin(t, "match", rule, on) /\ rule \in Rules
      BY <2>1, NameWatchAssumption DEF CallMatch
    <2>4. Numbers'
      BY <1>inv, <2>2, <2>3, NumbersStay
    <2>5. RulesForeseen' /\ CallbacksFollow'
      BY <2>3, BeginForeseen
    <2> QED
      BY <2>2, <2>4, <2>5 DEF IInv
  <1> QED
    BY <1>1, <1>2, <1>3, <1>4, <1>5, <1>6, <1>7, <1>8

LEMMA StepOfDispatch ==
  ASSUME IInv,
         \/ on_signal \/ OnOwner
         \/ OnSyncReply /\ UNCHANGED watchVars
  PROVE  IInv'
  <1>inv. Calls /\ Numbers /\ RulesForeseen /\ CallbacksFollow
    BY DEF IInv
  <1>1. CASE on_signal
    BY <1>inv, <1>1, OnSignalCalls, OnSignalNumbers, OnSignalForeseen DEF IInv
  <1>2. CASE OnOwner
    <2>1. UNCHANGED <<match_rules, bus, wire, doubtful, callbacks, op>>
      BY <1>2 DEF OnOwner
    <2>2. RulesForeseen' /\ CallbacksFollow'
      BY <1>inv, <2>1, ForeseenStays
    <2> QED
      BY <1>inv, <1>2, <2>2, OnOwnerCalls, OnOwnerNumbers DEF IInv
  <1>3. CASE OnSyncReply /\ UNCHANGED watchVars
    <2>1. Calls'
      BY <1>inv, <1>3, OnSyncReplyCalls
    <2>2. /\ UNCHANGED <<match_rules, bus, wire, doubtful, callbacks, op, handled, looked_up, signals>>
          /\ queue # <<>> /\ queue' = Tail(queue)
      BY <1>3 DEF OnSyncReply, watchVars
    <2>3. Shrinks(queue, queue')
      BY <1>inv, <2>2, TakeFacts
    <2>4. Numbers'
      BY <1>inv, <2>1, <2>2, <2>3, NumbersMoved
    <2>5. RulesForeseen' /\ CallbacksFollow'
      BY <1>inv, <2>2, ForeseenStays
    <2> QED
      BY <2>1, <2>4, <2>5 DEF IInv
  <1> QED
    BY <1>1, <1>2, <1>3

LEMMA StepOfBus ==
  ASSUME IInv,
         \/ BusHandles /\ UNCHANGED watchVars
         \/ TimesOut /\ UNCHANGED watchVars
         \/ Disconnect \/ Connect
         \/ \E r \in Watched : Signal(r)
  PROVE  IInv'
  <1>inv. Calls /\ Numbers /\ RulesForeseen /\ CallbacksFollow
    BY DEF IInv
  <1>1. CASE BusHandles /\ UNCHANGED watchVars
    <2>1. UNCHANGED <<match_rules, callbacks, op>> /\ doubtful \subseteq doubtful'
      BY <1>1 DEF BusHandles, watchVars
    <2>2. CallbacksFollow'
      BY <1>inv, <2>1, FollowKept
    <2> QED
      BY <1>inv, <1>1, <2>2, BusHandlesCalls, BusHandlesNumbers, BusHandlesForeseen DEF IInv
  <1>2. CASE TimesOut /\ UNCHANGED watchVars
    <2>1. UNCHANGED <<match_rules, callbacks, op>> /\ doubtful \subseteq doubtful'
      BY <1>2 DEF TimesOut, watchVars
    <2>2. CallbacksFollow'
      BY <1>inv, <2>1, FollowKept
    <2> QED
      BY <1>inv, <1>2, <2>2, TimesOutCalls, TimesOutNumbers, TimesOutForeseen DEF IInv
  <1>3. CASE Disconnect
    BY <1>inv, <1>3, DisconnectCalls, DisconnectNumbers, DisconnectForeseen DEF IInv
  <1>4. CASE Connect
    <2>1. Calls'
      BY <1>inv, <1>4, ConnectCalls
    <2>2. UNCHANGED <<match_rules, bus, wire, queue, doubtful, callbacks, op, handled, looked_up, signals>>
      BY <1>4 DEF Connect, ruleVars
    <2> QED
      BY <1>inv, <2>1, <2>2, NumbersStay, ForeseenStays DEF IInv
  <1>5. CASE \E r \in Watched : Signal(r)
    <2>1. PICK r \in Watched : Signal(r)
      BY <1>5
    <2>2. UNCHANGED <<match_rules, bus, wire, doubtful, callbacks, op>>
      BY <2>1 DEF Signal, BusSignals
    <2> QED
      BY <1>inv, <2>1, <2>2, SignalCalls, SignalNumbers, ForeseenStays DEF IInv
  <1> QED
    BY <1>1, <1>2, <1>3, <1>4, <1>5

LEMMA Unmoved ==
  ASSUME IInv, UNCHANGED vars
  PROVE  IInv'
  <1>inv. Calls /\ Numbers /\ RulesForeseen /\ CallbacksFollow /\ TypeOK /\ Links
    BY DEF IInv, Calls
  <1>1. UNCHANGED ruleVars /\ UNCHANGED watchVars
    BY DEF vars
  <1>2. TypeOK'
    BY <1>inv, <1>1, WatchTypesKept, RuleTypesKept DEF TypeOK, ruleVars
  <1>3. Links'
    BY <1>inv, <1>1 DEF Links, ruleVars, watchVars
  <1>4. Traffic' /\ OneReply'
    BY <1>inv, <1>1, TrafficKept DEF ruleVars
  <1>5. Calls'
    BY <1>2, <1>3, <1>4 DEF Calls
  <1>6. UNCHANGED <<match_rules, bus, wire, queue, doubtful, callbacks, op, handled, looked_up, signals>>
    BY <1>1 DEF ruleVars, watchVars
  <1> QED
    BY <1>inv, <1>5, <1>6, NumbersStay, ForeseenStays DEF IInv

LEMMA NextIInv == IInv /\ [Next]_vars => IInv'
  BY StepOfThread, StepOfDispatch, StepOfBus, Unmoved DEF Next

\* Each variable keeps its type, cb_mutex is held by the thread that changes the
\* callbacks and match_rule_mutex by one that waits for the bus (connection.cpp,
\* set_name_owner_changed_cb to on_signal_impl).
THEOREM TypeCorrect == Spec => []TypeOK
  <1>1. IInv => TypeOK
    BY DEF IInv, Calls
  <1> QED
    BY InitIInv, NextIInv, <1>1, PTL DEF Spec

\* Whatever waits for a lookup, is dropped or times out: signals are handled
\* once each and in order, but for those that overtake one that waits
\* (connection.cpp, on_signal).
THEOREM InOrderHolds == Spec => []InOrder
  <1>1. IInv => InOrder
    BY DEF IInv, Numbers
  <1> QED
    BY InitIInv, NextIInv, <1>1, PTL DEF Spec

\* Whoever sets and resets callbacks at the same time: once nothing is under
\* way, the bus has the rule of each callback that is set and of no other, but
\* for the rules that are in doubt (connection.cpp, set_name_owner_changed_cb,
\* set_name_lost_cb and set_name_acquired_cb; message_filter.cpp, add_match).
THEOREM WatchHasRuleHolds == Spec => []WatchHasRule
  <1>1. IInv => WatchHasRule
    <2> SUFFICES ASSUME IInv, Settled, cb_mutex = "free", NEW r \in Watched \ doubtful
                 PROVE  bus[r] = IF r \in callbacks THEN 1 ELSE 0
      BY DEF WatchHasRule
    <2>1. \A t \in Threads : ~Assigns(t, r)
      BY CallsParts, MatchRulesAssumption DEF IInv, OpTypes, Assigns
    <2>2. r \in callbacks <=> r \in match_rules
      BY <2>1 DEF IInv, CallbacksFollow
    <2>3. PICK p : Path(p, wire, r, bus[r], Believed(r))
      BY ForeseenAt DEF IInv
    <2>4. bus[r] = Believed(r)
      BY <2>3 DEF Settled, Path
    <2> QED
      BY <2>2, <2>4 DEF Believed
  <1> QED
    BY InitIInv, NextIInv, <1>1, PTL DEF Spec

-----------------------------------------------------------------------------
(* A thread that waits for a reply gets one, to what it asked, or has been  *)
(* left behind.                                                            *)

IsFor(m, c) == m.what = c.what /\ m.rule = c.rule

Comes(t, w, q) ==
  \/ \E i \in 1..Len(w) : Awaited(w[i], t)
  \/ \E i \in 1..Len(q) : q[i].to = t

Left(t, w, q, c) == c.at = "asked" /\ ~Comes(t, w, q)

ServedAt(t, w, q, c) ==
  /\ \A i \in 1..Len(w) : Awaited(w[i], t) => IsFor(w[i], c)
  /\ \A i \in 1..Len(q) : q[i].to = t => IsFor(q[i], c)

Served == \A t \in Threads : ServedAt(t, wire, queue, call[t])

\* A step leaves nobody behind, and goes back for nobody.
LeftAsBefore ==
  \A t \in Threads : Left(t, wire', queue', call'[t]) <=> Left(t, wire, queue, call[t])

\* What t waits for afterwards it waited for before, and it still waits for it.
LEMMA ServedKept ==
  ASSUME NEW t, NEW w, NEW q, NEW c, NEW w2, NEW q2, NEW c2, ServedAt(t, w, q, c),
         \A i \in 1..Len(w2) : Awaited(w2[i], t) =>
           \E j \in 1..Len(w) : Awaited(w[j], t) /\ IsFor(w2[i], w[j]),
         \A i \in 1..Len(q2) : q2[i].to = t =>
           \/ \E j \in 1..Len(q) : q[j].to = t /\ IsFor(q2[i], q[j])
           \/ \E j \in 1..Len(w) : Awaited(w[j], t) /\ IsFor(q2[i], w[j]),
         Comes(t, w, q) => IsFor(c2, c),
         c2.at = "asked" => c.at = "asked" /\ (Comes(t, w, q) => Comes(t, w2, q2)),
         Left(t, w, q, c) => c2.at = "asked"
  PROVE  ServedAt(t, w2, q2, c2) /\ (Left(t, w2, q2, c2) <=> Left(t, w, q, c))
  <1>1. ASSUME NEW i \in 1..Len(w2), Awaited(w2[i], t)
        PROVE  IsFor(w2[i], c2)
    <2>1. PICK j \in 1..Len(w) : Awaited(w[j], t) /\ IsFor(w2[i], w[j])
      BY <1>1
    <2>2. IsFor(w[j], c) /\ IsFor(c2, c)
      BY <2>1 DEF ServedAt, Comes
    <2> QED
      BY <2>1, <2>2 DEF IsFor
  <1>2. ASSUME NEW i \in 1..Len(q2), q2[i].to = t
        PROVE  IsFor(q2[i], c2)
    <2>1. CASE \E j \in 1..Len(q) : q[j].to = t /\ IsFor(q2[i], q[j])
      <3>1. PICK j \in 1..Len(q) : q[j].to = t /\ IsFor(q2[i], q[j])
        BY <2>1
      <3>2. IsFor(q[j], c) /\ IsFor(c2, c)
        BY <3>1 DEF ServedAt, Comes
      <3> QED
        BY <3>1, <3>2 DEF IsFor
    <2>2. CASE \E j \in 1..Len(w) : Awaited(w[j], t) /\ IsFor(q2[i], w[j])
      <3>1. PICK j \in 1..Len(w) : Awaited(w[j], t) /\ IsFor(q2[i], w[j])
        BY <2>2
      <3>2. IsFor(w[j], c) /\ IsFor(c2, c)
        BY <3>1 DEF ServedAt, Comes
      <3> QED
        BY <3>1, <3>2 DEF IsFor
    <2> QED
      BY <1>2, <2>1, <2>2
  <1>3. Comes(t, w2, q2) => Comes(t, w, q)
    BY DEF Comes
  <1> QED
    BY <1>1, <1>2, <1>3 DEF ServedAt, Left

\* Who does not wait has nothing under way.
LEMMA IdleHasNone ==
  ASSUME Calls, NEW t \in Threads, call[t].at # "asked"
  PROVE  ~Comes(t, wire, queue)
  <1>1. OneReplyFor(t)
    BY TrafficFacts
  <1> QED
    BY <1>1 DEF OneReplyFor, Comes

\* A step of a thread that sends nothing and does not wait.
LEMMA ServedQuiet ==
  ASSUME Calls, Served, UNCHANGED <<wire, queue>>,
         \A t \in Threads : \/ call'[t] = call[t]
                            \/ call[t].at # "asked" /\ call'[t].at # "asked"
  PROVE  Served' /\ LeftAsBefore
  <1> SUFFICES ASSUME NEW t \in Threads
               PROVE  /\ ServedAt(t, wire, queue, call'[t])
                      /\ Left(t, wire, queue, call'[t]) <=> Left(t, wire, queue, call[t])
    BY DEF Served, LeftAsBefore
  <1>1. ServedAt(t, wire, queue, call[t])
    BY DEF Served
  <1>2. CASE call[t].at # "asked" /\ call'[t].at # "asked"
    <2>1. ~Comes(t, wire, queue)
      BY <1>2, IdleHasNone
    <2> QED
      BY <1>2, <2>1 DEF ServedAt, Comes, Left
  <1> QED
    BY <1>1, <1>2

\* What is sent is for no thread that waits, and so is what is taken or comes.
LEMMA ServedMoved ==
  ASSUME Calls, Served,
         \/ UNCHANGED wire
         \/ \E m : Grows(wire, wire', m) /\ m.by \notin Threads,
         \/ UNCHANGED queue
         \/ Shrinks(queue, queue') /\ queue[1].to \notin Threads
         \/ \E m : Grows(queue, queue', m) /\ m.to \notin Threads,
         UNCHANGED call
  PROVE  Served' /\ LeftAsBefore
  <1>len. Len(wire) \in Nat /\ Len(queue) \in Nat
    BY TrafficFacts
  <1> SUFFICES ASSUME NEW t \in Threads
               PROVE  /\ ServedAt(t, wire', queue', call'[t])
                      /\ Left(t, wire', queue', call'[t]) <=> Left(t, wire, queue, call[t])
    BY DEF Served, LeftAsBefore
  <1>1. /\ \A i \in 1..Len(wire') : Awaited(wire'[i], t) => i \in 1..Len(wire) /\ wire'[i] = wire[i]
        /\ \A i \in 1..Len(wire) : i \in 1..Len(wire') /\ wire'[i] = wire[i]
    <2>1. CASE \E m : Grows(wire, wire', m) /\ m.by \notin Threads
      <3>1. PICK m : Grows(wire, wire', m) /\ m.by \notin Threads
        BY <2>1
      <3>2. \A i \in 1..Len(wire') : \/ i \in 1..Len(wire) /\ wire'[i] = wire[i]
                                     \/ i = Len(wire) + 1 /\ wire'[i] = m
        BY <1>len, <3>1, WirePut
      <3>3. \A i \in 1..Len(wire) : i \in 1..Len(wire') /\ wire'[i] = wire[i]
        BY <1>len, <3>1 DEF Grows
      <3> QED
        BY <3>1, <3>2, <3>3 DEF Awaited
    <2> QED
      BY <2>1
  <1>2. \E d \in -1..0 :
          /\ \A i \in 1..Len(queue') : queue'[i].to = t =>
               i - d \in 1..Len(queue) /\ queue'[i] = queue[i - d]
          /\ \A i \in 1..Len(queue) : queue[i].to = t =>
               i + d \in 1..Len(queue') /\ queue'[i + d] = queue[i]
    <2>1. CASE UNCHANGED queue
      <3>1. \A i \in 1..Len(queue) : i - 0 = i /\ i + 0 = i
        BY <1>len
      <3>2. 0 \in -1..0
        OBVIOUS
      <3> QED
        BY <2>1, <3>1, <3>2
    <2>2. CASE Shrinks(queue, queue') /\ queue[1].to \notin Threads
      <3>1. /\ Len(queue') \in Nat
            /\ \A i \in 1..Len(queue') : i + 1 \in 1..Len(queue) /\ queue'[i] = queue[i + 1]
        BY <1>len, <2>2, QueueTaken
      <3>2. \A i \in 1..Len(queue) : i # 1 => i - 1 \in 1..Len(queue') /\ queue'[i - 1] = queue[i]
        BY <1>len, <2>2 DEF Shrinks
      <3>3. /\ \A i \in 1..Len(queue') : queue'[i].to = t =>
                 i - (-1) \in 1..Len(queue) /\ queue'[i] = queue[i - (-1)]
            /\ \A i \in 1..Len(queue) : queue[i].to = t =>
                 i + (-1) \in 1..Len(queue') /\ queue'[i + (-1)] = queue[i]
        BY <1>len, <2>2, <3>1, <3>2
      <3>4. -1 \in -1..0
        OBVIOUS
      <3> QED
        BY <3>3, <3>4
    <2>3. CASE \E m : Grows(queue, queue', m) /\ m.to \notin Threads
      <3>1. PICK m : Grows(queue, queue', m) /\ m.to \notin Threads
        BY <2>3
      <3>2. \A i \in 1..Len(queue') : \/ i \in 1..Len(queue) /\ queue'[i] = queue[i]
                                      \/ i = Len(queue) + 1 /\ queue'[i] = m
        BY <1>len, <3>1, QueuePut
      <3>3. \A i \in 1..Len(queue) : i \in 1..Len(queue') /\ queue'[i] = queue[i]
        BY <1>len, <3>1 DEF Grows
      <3>4. /\ \A i \in 1..Len(queue') : queue'[i].to = t =>
                 i - 0 \in 1..Len(queue) /\ queue'[i] = queue[i - 0]
            /\ \A i \in 1..Len(queue) : queue[i].to = t =>
                 i + 0 \in 1..Len(queue') /\ queue'[i + 0] = queue[i]
        BY <1>len, <3>1, <3>2, <3>3
      <3>5. 0 \in -1..0
        OBVIOUS
      <3> QED
        BY <3>4, <3>5
    <2> QED
      BY <2>1, <2>2, <2>3
  <1>3. \A i \in 1..Len(wire') : Awaited(wire'[i], t) =>
          \E j \in 1..Len(wire) : Awaited(wire[j], t) /\ IsFor(wire'[i], wire[j])
    BY <1>1 DEF IsFor
  <1>4. \A i \in 1..Len(queue') : queue'[i].to = t =>
          \E j \in 1..Len(queue) : queue[j].to = t /\ IsFor(queue'[i], queue[j])
    BY <1>2 DEF IsFor
  <1>5. Comes(t, wire, queue) => Comes(t, wire', queue')
    BY <1>1, <1>2 DEF Comes
  <1>6. ServedAt(t, wire, queue, call[t]) /\ call'[t] = call[t] /\ IsFor(call'[t], call[t])
    BY DEF Served, IsFor
  <1>7. call'[t].at = "asked" => call[t].at = "asked" /\ (Comes(t, wire, queue) => Comes(t, wire', queue'))
    BY <1>5, <1>6
  <1>8. Left(t, wire, queue, call[t]) => call'[t].at = "asked"
    BY <1>5, <1>6 DEF Left
  <1>9. \A i \in 1..Len(queue') : queue'[i].to = t =>
          \/ \E j \in 1..Len(queue) : queue[j].to = t /\ IsFor(queue'[i], queue[j])
          \/ \E j \in 1..Len(wire) : Awaited(wire[j], t) /\ IsFor(queue'[i], wire[j])
    BY <1>4
  <1> HIDE DEF Served
  <1> QED
    BY <1>3, <1>6, <1>7, <1>8, <1>9, ServedKept

\* The bus answers, unless the request timed out.
LEMMA BusHandlesServed ==
  ASSUME Calls, Served, BusHandles
  PROVE  Served' /\ LeftAsBefore
  <1>len. Len(wire) \in Nat /\ Len(queue) \in Nat
    BY TrafficFacts
  <1>1. PICK ok \in BOOLEAN :
          /\ Shrinks(wire, wire') /\ UNCHANGED call
          /\ \/ queue' = queue /\ (wire[1].by = "nobody" \/ wire[1].late)
             \/ Grows(queue, queue', Reply(wire[1], ok)) /\ ~wire[1].late
    BY BusHandlesFacts
  <1> DEFINE m == Reply(wire[1], ok)
  <1>2. m.to = wire[1].by /\ IsFor(m, wire[1])
    BY DEF Reply, IsFor
  <1>3. queue' = queue \/ Grows(queue, queue', m)
    BY <1>1
  <1>4. wire[1].by \in Threads => \/ queue' = queue /\ wire[1].late
                                  \/ Grows(queue, queue', m) /\ ~wire[1].late
    BY <1>1, MatchRulesAssumption
  <1> HIDE DEF m
  <1>5. /\ 1 \in 1..Len(wire)
        /\ \A i \in 1..Len(wire') : i + 1 \in 1..Len(wire) /\ wire'[i] = wire[i + 1]
        /\ \A i \in 1..Len(wire) : i # 1 => i - 1 \in 1..Len(wire') /\ wire'[i - 1] = wire[i]
    BY <1>len, <1>1 DEF Shrinks
  <1>6. \A i \in 1..Len(queue') :
          \/ i \in 1..Len(queue) /\ queue'[i] = queue[i]
          \/ queue'[i] = m /\ Grows(queue, queue', m)
    BY <1>len, <1>3, QueuePut
  <1>7. \A i \in 1..Len(queue) : i \in 1..Len(queue') /\ queue'[i] = queue[i]
    BY <1>len, <1>3 DEF Grows
  <1>8. Grows(queue, queue', m) => \E i \in 1..Len(queue') : queue'[i] = m
    BY <1>len DEF Grows
  <1> SUFFICES ASSUME NEW t \in Threads
               PROVE  /\ ServedAt(t, wire', queue', call'[t])
                      /\ Left(t, wire', queue', call'[t]) <=> Left(t, wire, queue, call[t])
    BY DEF Served, LeftAsBefore
  <1>9. \A i \in 1..Len(wire') : Awaited(wire'[i], t) =>
          \E j \in 1..Len(wire) : Awaited(wire[j], t) /\ IsFor(wire'[i], wire[j])
    BY <1>5 DEF IsFor
  <1>10. \A i \in 1..Len(queue') : queue'[i].to = t =>
           \/ \E j \in 1..Len(queue) : queue[j].to = t /\ IsFor(queue'[i], queue[j])
           \/ \E j \in 1..Len(wire) : Awaited(wire[j], t) /\ IsFor(queue'[i], wire[j])
    <2> SUFFICES ASSUME NEW i \in 1..Len(queue'), queue'[i].to = t
                 PROVE  \/ \E j \in 1..Len(queue) : queue[j].to = t /\ IsFor(queue'[i], queue[j])
                        \/ \E j \in 1..Len(wire) : Awaited(wire[j], t) /\ IsFor(queue'[i], wire[j])
      OBVIOUS
    <2>1. CASE i \in 1..Len(queue) /\ queue'[i] = queue[i]
      BY <2>1 DEF IsFor
    <2>2. CASE queue'[i] = m /\ Grows(queue, queue', m)
      <3>1. wire[1].by = t
        BY <1>2, <2>2
      <3>2. ~wire[1].late
        <4>1. Len(queue') = Len(queue) + 1
          BY <2>2 DEF Grows
        <4>2. queue' # queue
          BY <1>len, <4>1
        <4> QED
          BY <1>4, <3>1, <4>2
      <3> QED
        BY <1>2, <1>5, <2>2, <3>1, <3>2 DEF Awaited
    <2> QED
      BY <1>6, <2>1, <2>2
  <1>11. Comes(t, wire, queue) => Comes(t, wire', queue')
    <2>1. CASE \E i \in 1..Len(queue) : queue[i].to = t
      BY <1>7, <2>1 DEF Comes
    <2>2. ASSUME NEW i \in 1..Len(wire), Awaited(wire[i], t)
          PROVE  Comes(t, wire', queue')
      <3>1. CASE i = 1
        BY <1>2, <1>4, <1>8, <2>2, <3>1 DEF Awaited, Comes
      <3>2. CASE i # 1
        BY <1>5, <2>2, <3>2 DEF Comes
      <3> QED
        BY <3>1, <3>2
    <2> QED
      BY <2>1, <2>2 DEF Comes
  <1>12. ServedAt(t, wire, queue, call[t]) /\ call'[t] = call[t] /\ IsFor(call'[t], call[t])
    BY <1>1 DEF Served, IsFor
  <1>13. call'[t].at = "asked" => call[t].at = "asked" /\ (Comes(t, wire, queue) => Comes(t, wire', queue'))
    BY <1>11, <1>12
  <1>14. Left(t, wire, queue, call[t]) => call'[t].at = "asked"
    BY <1>11, <1>12 DEF Left
  <1> QED
    BY <1>9, <1>10, <1>12, <1>13, <1>14, ServedKept

\* A timeout answers in its place.
LEMMA TimesOutServed ==
  ASSUME Calls, Served, TimesOut
  PROVE  Served' /\ LeftAsBefore
  <1>len. Len(wire) \in Nat /\ Len(queue) \in Nat
    BY TrafficFacts
  <1>1. PICK k \in 1..Len(wire) :
          /\ ~wire[k].late /\ Len(wire') = Len(wire) /\ UNCHANGED call
          /\ \A i \in 1..Len(wire) :
               /\ wire'[i].by = wire[i].by /\ wire'[i].what = wire[i].what
               /\ wire'[i].rule = wire[i].rule
               /\ wire'[i].late = (wire[i].late \/ i = k)
          /\ Grows(queue, queue', Reply(wire[k], FALSE))
    BY TimesOutFacts
  <1> DEFINE m == Reply(wire[k], FALSE)
  <1>2. m.to = wire[k].by /\ IsFor(m, wire[k])
    BY DEF Reply, IsFor
  <1>3. Grows(queue, queue', m)
    BY <1>1
  <1> HIDE DEF m
  <1>4. /\ \A i \in 1..Len(queue') : (i \in 1..Len(queue) /\ queue'[i] = queue[i]) \/ queue'[i] = m
        /\ \A i \in 1..Len(queue) : i \in 1..Len(queue') /\ queue'[i] = queue[i]
        /\ \E i \in 1..Len(queue') : queue'[i] = m
    <2>1. \A i \in 1..Len(queue') : (i \in 1..Len(queue) /\ queue'[i] = queue[i]) \/ queue'[i] = m
      BY <1>len, <1>3, QueuePut
    <2>2. /\ \A i \in 1..Len(queue) : i \in 1..Len(queue') /\ queue'[i] = queue[i]
          /\ Len(queue) + 1 \in 1..Len(queue') /\ queue'[Len(queue) + 1] = m
      BY <1>len, <1>3 DEF Grows
    <2> QED
      BY <2>1, <2>2
  <1> SUFFICES ASSUME NEW t \in Threads
               PROVE  /\ ServedAt(t, wire', queue', call'[t])
                      /\ Left(t, wire', queue', call'[t]) <=> Left(t, wire, queue, call[t])
    BY DEF Served, LeftAsBefore
  <1>5. \A i \in 1..Len(wire') : Awaited(wire'[i], t) =>
          \E j \in 1..Len(wire) : Awaited(wire[j], t) /\ IsFor(wire'[i], wire[j])
    <2> SUFFICES ASSUME NEW i \in 1..Len(wire'), Awaited(wire'[i], t)
                 PROVE  i \in 1..Len(wire) /\ Awaited(wire[i], t) /\ IsFor(wire'[i], wire[i])
      OBVIOUS
    <2> QED
      BY <1>1 DEF Awaited, IsFor
  <1>6. \A i \in 1..Len(queue') : queue'[i].to = t =>
          \/ \E j \in 1..Len(queue) : queue[j].to = t /\ IsFor(queue'[i], queue[j])
          \/ \E j \in 1..Len(wire) : Awaited(wire[j], t) /\ IsFor(queue'[i], wire[j])
    <2> SUFFICES ASSUME NEW i \in 1..Len(queue'), queue'[i].to = t
                 PROVE  \/ \E j \in 1..Len(queue) : queue[j].to = t /\ IsFor(queue'[i], queue[j])
                        \/ \E j \in 1..Len(wire) : Awaited(wire[j], t) /\ IsFor(queue'[i], wire[j])
      OBVIOUS
    <2>1. CASE i \in 1..Len(queue) /\ queue'[i] = queue[i]
      BY <2>1 DEF IsFor
    <2>2. CASE queue'[i] = m
      BY <1>1, <1>2, <2>2 DEF Awaited
    <2> QED
      BY <1>4, <2>1, <2>2
  <1>7. Comes(t, wire, queue) => Comes(t, wire', queue')
    <2>1. CASE \E i \in 1..Len(queue) : queue[i].to = t
      BY <1>4, <2>1 DEF Comes
    <2>2. ASSUME NEW i \in 1..Len(wire), Awaited(wire[i], t)
          PROVE  Comes(t, wire', queue')
      <3>1. CASE i = k
        BY <1>2, <1>4, <2>2, <3>1 DEF Awaited, Comes
      <3>2. CASE i # k
        <4>1. i \in 1..Len(wire') /\ Awaited(wire'[i], t)
          BY <1>1, <2>2, <3>2 DEF Awaited
        <4> QED
          BY <4>1 DEF Comes
      <3> QED
        BY <3>1, <3>2
    <2> QED
      BY <2>1, <2>2 DEF Comes
  <1>8. ServedAt(t, wire, queue, call[t]) /\ call'[t] = call[t] /\ IsFor(call'[t], call[t])
    BY <1>1 DEF Served, IsFor
  <1>9. call'[t].at = "asked" => call[t].at = "asked" /\ (Comes(t, wire, queue) => Comes(t, wire', queue'))
    BY <1>7, <1>8
  <1>10. Left(t, wire, queue, call[t]) => call'[t].at = "asked"
    BY <1>7, <1>8 DEF Left
  <1> QED
    BY <1>5, <1>6, <1>8, <1>9, <1>10, ServedKept

\* The reply goes to the thread that asked; those of the others stay.
LEMMA OnSyncReplyServed ==
  ASSUME Calls, Served, OnSyncReply
  PROVE  Served' /\ LeftAsBefore
  <1>len. Len(wire) \in Nat /\ Len(queue) \in Nat
    BY TrafficFacts
  <1>1. queue # <<>> /\ queue' = Tail(queue)
    BY DEF OnSyncReply
  <1>2. Head(queue) = queue[1] /\ Shrinks(queue, queue')
    BY <1>1, TakeFacts
  <1> DEFINE w == queue[1].to
  <1>3. /\ w \in Threads /\ UNCHANGED wire
        /\ call' = [call EXCEPT ![w].at = "replied", ![w].ok = queue[1].ok]
    BY <1>2 DEF OnSyncReply
  <1>4. /\ \A i \in 1..Len(queue') : i + 1 \in 1..Len(queue) /\ queue'[i] = queue[i + 1]
        /\ \A i \in 1..Len(queue) : i # 1 => i - 1 \in 1..Len(queue') /\ queue'[i - 1] = queue[i]
    BY <1>len, <1>2 DEF Shrinks
  <1> HIDE DEF w
  <1>5. /\ call'[w].at = "replied" /\ IsFor(call'[w], call[w])
        /\ \A t \in Threads \ {w} : call'[t] = call[t]
    <2>1. call \in [Threads -> CallRecord]
      BY CallsParts
    <2> QED
      BY <1>3, <2>1 DEF IsFor, CallRecord
  <1> SUFFICES ASSUME NEW t \in Threads
               PROVE  /\ ServedAt(t, wire', queue', call'[t])
                      /\ Left(t, wire', queue', call'[t]) <=> Left(t, wire, queue, call[t])
    BY DEF Served, LeftAsBefore
  <1>6. \A i \in 1..Len(wire') : Awaited(wire'[i], t) =>
          \E j \in 1..Len(wire) : Awaited(wire[j], t) /\ IsFor(wire'[i], wire[j])
    BY <1>3 DEF IsFor
  <1>7. \A i \in 1..Len(queue') : queue'[i].to = t =>
          \E j \in 1..Len(queue) : queue[j].to = t /\ IsFor(queue'[i], queue[j])
    BY <1>4 DEF IsFor
  <1>8. ServedAt(t, wire, queue, call[t]) /\ IsFor(call'[t], call[t])
    BY <1>5 DEF Served, IsFor
  <1>9. ASSUME call'[t].at = "asked"
        PROVE  call[t].at = "asked" /\ (Comes(t, wire, queue) => Comes(t, wire', queue'))
    <2>1. t # w /\ call[t].at = "asked"
      BY <1>5, <1>9
    <2>2. \A i \in 1..Len(queue) : queue[i].to = t => i # 1
      BY <2>1 DEF w
    <2> QED
      BY <1>3, <1>4, <2>1, <2>2 DEF Comes
  <1>10. Left(t, wire, queue, call[t]) => call'[t].at = "asked"
    <2>1. 1 \in 1..Len(queue)
      BY <1>len, <1>2 DEF Shrinks
    <2>2. Left(t, wire, queue, call[t]) => t # w
      BY <2>1 DEF Left, Comes, w
    <2> QED
      BY <1>5, <2>2 DEF Left
  <1> QED
    BY <1>6, <1>7, <1>8, <1>9, <1>10, ServedKept

\* Who begins to wait has sent the request for which it waits.
LEMMA AskMatchServed ==
  ASSUME Calls, Served, NEW t \in Threads, AskMatch(t)
  PROVE  Served' /\ LeftAsBefore
  <1>type. call \in [Threads -> CallRecord] /\ Len(wire) \in Nat /\ Len(queue) \in Nat
    BY CallsParts, TrafficFacts
  <1>1. Ask(t)
    BY DEF AskMatch
  <1>2. call[t].at = "ready" /\ UNCHANGED queue
    BY <1>1 DEF Ask
  <1>3. CASE UNCHANGED wire /\ \E ok \in BOOLEAN : call' = [call EXCEPT ![t].at = "done", ![t].ok = ok]
    <2>1. \A s \in Threads : \/ call'[s] = call[s]
                             \/ call[s].at # "asked" /\ call'[s].at # "asked"
      BY <1>type, <1>2, <1>3 DEF CallRecord
    <2> QED
      BY <1>2, <1>3, <2>1, ServedQuiet
  <1>4. CASE wire' = Sent(t, call[t].what, call[t].rule) /\ call' = [call EXCEPT ![t].at = "asked"]
    <2> DEFINE m == [by |-> t, what |-> call[t].what, rule |-> call[t].rule, of |-> 0, late |-> FALSE]
    <2>1. t \in Receivers /\ call[t].what \in Kinds /\ call[t].rule \in Rules \cup {NoRule}
      BY <1>type DEF Receivers, CallRecord
    <2>2. Grows(wire, wire', m) /\ IsFor(m, call[t]) /\ Awaited(m, t) /\ m.by = t
      <3>1. wire' = SentFor(t, call[t].what, call[t].rule, 0)
        BY <1>4 DEF Sent
      <3> QED
        BY <2>1, <3>1, SentFacts DEF IsFor, Awaited
    <2> HIDE DEF m
    <2>3. /\ \A i \in 1..Len(wire') : \/ i \in 1..Len(wire) /\ wire'[i] = wire[i]
                                      \/ wire'[i] = m
          /\ \A i \in 1..Len(wire) : i \in 1..Len(wire') /\ wire'[i] = wire[i]
          /\ \E i \in 1..Len(wire') : wire'[i] = m
      <3>1. \A i \in 1..Len(wire') : \/ i \in 1..Len(wire) /\ wire'[i] = wire[i]
                                     \/ wire'[i] = m
        BY <1>type, <2>2, WirePut
      <3>2. /\ \A i \in 1..Len(wire) : i \in 1..Len(wire') /\ wire'[i] = wire[i]
            /\ Len(wire) + 1 \in 1..Len(wire') /\ wire'[Len(wire) + 1] = m
        BY <1>type, <2>2 DEF Grows
      <3> QED
        BY <3>1, <3>2
    <2>4. call'[t].at = "asked" /\ IsFor(call'[t], call[t]) /\ \A s \in Threads \ {t} : call'[s] = call[s]
      BY <1>type, <1>4 DEF IsFor, CallRecord
    <2>5. /\ ServedAt(t, wire', queue', call'[t])
          /\ Left(t, wire', queue', call'[t]) <=> Left(t, wire, queue, call[t])
      <3>1. ~Comes(t, wire, queue)
        BY <1>2, IdleHasNone
      <3>2. /\ \A i \in 1..Len(wire') : Awaited(wire'[i], t) => wire'[i] = m
            /\ \A i \in 1..Len(queue') : queue'[i].to # t
        BY <1>2, <2>3, <3>1 DEF Comes
      <3>3. IsFor(m, call'[t]) /\ Comes(t, wire', queue')
        BY <2>2, <2>3, <2>4 DEF Comes, IsFor
      <3> QED
        BY <1>2, <3>2, <3>3 DEF ServedAt, Left
    <2>6. ASSUME NEW s \in Threads \ {t}
          PROVE  /\ ServedAt(s, wire', queue', call'[s])
                 /\ Left(s, wire', queue', call'[s]) <=> Left(s, wire, queue, call[s])
      <3>1. ~Awaited(m, s)
        BY <2>2 DEF Awaited
      <3>2. ServedAt(s, wire, queue, call[s])
        BY DEF Served
      <3> QED
        BY <1>2, <2>3, <2>4, <3>1, <3>2 DEF ServedAt, Comes, Left
    <2> QED
      BY <2>5, <2>6 DEF Served, LeftAsBefore
  <1> QED
    BY <1>1, <1>3, <1>4 DEF Ask

LEMMA AskForRuleServed ==
  ASSUME Calls, Served, NEW t \in Threads, AskForRule(t)
  PROVE  Served' /\ LeftAsBefore
  <1>1. UNCHANGED <<call, queue>> /\ (UNCHANGED wire \/ wire' = Sent("nobody", What(op[t].on), op[t].rule))
    BY DEF AskForRule, AskQuietly, ruleVars
  <1>2. CASE UNCHANGED wire
    BY <1>1, <1>2, ServedMoved
  <1>3. CASE wire' = Sent("nobody", What(op[t].on), op[t].rule)
    <2>1. "nobody" \in Receivers /\ What(op[t].on) \in Kinds /\ op[t].rule \in Rules \cup {NoRule}
      BY CallsParts DEF OpTypes, OpRecord, Receivers, What, Kinds
    <2>2. \E m : Grows(wire, wire', m) /\ m.by = "nobody"
      <3> DEFINE by == "nobody"
                 what == What(op[t].on)
                 rule == op[t].rule
                 of == 0
      <3>1. wire' = SentFor(by, what, rule, of)
        BY <1>3 DEF Sent
      <3>2. by \in Receivers /\ what \in Kinds /\ rule \in Rules \cup {NoRule} /\ of \in Nat
        BY <2>1
      <3> HIDE DEF what, rule, of
      <3>3. Grows(wire, wire', [by |-> by, what |-> what, rule |-> rule, of |-> of, late |-> FALSE])
        BY <3>1, <3>2, SentFacts
      <3> QED
        BY <3>3
    <2>3. \E m : Grows(wire, wire', m) /\ m.by \notin Threads
      BY <2>2, MatchRulesAssumption
    <2> QED
      BY <1>1, <2>3, ServedMoved
  <1> QED
    BY <1>1, <1>2, <1>3

\* The head of the queue is for the filter or for a lookup.
LEMMA WatchServed ==
  ASSUME Calls, Served, on_signal \/ OnOwner
  PROVE  Served' /\ LeftAsBefore
  <1>1. queue # <<>> /\ queue' = Tail(queue) /\ UNCHANGED call
    BY DEF on_signal, OnOwner
  <1>2. queue[1] \in Item /\ Head(queue) = queue[1] /\ Shrinks(queue, queue') /\ FitsQueue(queue[1])
    BY <1>1, TakeFacts
  <1>3. queue[1].to \notin Threads
    BY <1>2, MatchRulesAssumption DEF on_signal, OnOwner, FitsQueue
  <1>4. UNCHANGED wire \/ wire' = SentFor("async", "GetNameOwner", queue[1].rule, queue[1].of)
    BY <1>2 DEF on_signal, OnOwner
  <1>5. CASE UNCHANGED wire
    BY <1>1, <1>2, <1>3, <1>5, ServedMoved
  <1>6. CASE wire' = SentFor("async", "GetNameOwner", queue[1].rule, queue[1].of)
    <2>1. /\ "async" \in Receivers /\ "GetNameOwner" \in Kinds
          /\ queue[1].rule \in Rules \cup {NoRule} /\ queue[1].of \in Nat
      BY <1>2 DEF Item, Receivers, Kinds
    <2>2. \E m : Grows(wire, wire', m) /\ m.by = "async"
      <3> DEFINE rule == queue[1].rule
                 of == queue[1].of
      <3>1. wire' = SentFor("async", "GetNameOwner", rule, of) /\ rule \in Rules \cup {NoRule} /\ of \in Nat
        BY <1>6, <2>1
      <3> HIDE DEF rule, of
      <3>2. Grows(wire, wire', [by |-> "async", what |-> "GetNameOwner",
                                rule |-> rule, of |-> of, late |-> FALSE])
        BY <2>1, <3>1, SentFacts
      <3> QED
        BY <3>2
    <2>3. \E m : Grows(wire, wire', m) /\ m.by \notin Threads
      BY <2>2, MatchRulesAssumption
    <2> QED
      BY <1>1, <1>2, <1>3, <2>3, ServedMoved
  <1> QED
    BY <1>4, <1>5, <1>6

LEMMA SignalServed ==
  ASSUME Calls, Served, NEW r \in Watched, Signal(r)
  PROVE  Served' /\ LeftAsBefore
  <1> DEFINE m == [to |-> "filter", what |-> "Signal", rule |-> r, of |-> signals + 1, ok |-> TRUE]
  <1>1. queue' = Append(queue, m) /\ UNCHANGED <<wire, call>>
    BY DEF Signal, BusSignals
  <1>2. m \in Item /\ m.to \notin Threads
    BY CallsParts, NameWatchAssumption, MatchRulesAssumption, SignalType DEF DataTypes
  <1>3. queue \in Seq(Item)
    BY CallsParts DEF RulesTypeOK
  <1> HIDE DEF m
  <1>4. Grows(queue, queue', m)
    BY <1>1, <1>2, <1>3, AppendFacts DEF Grows
  <1>5. \E n : Grows(queue, queue', n) /\ n.to \notin Threads
    BY <1>2, <1>4
  <1> QED
    BY <1>1, <1>5, ServedMoved

\* A disconnect drops everything.
LEMMA DisconnectServed ==
  ASSUME Disconnect
  PROVE  Served'
  <1>1. wire' = <<>> /\ queue' = <<>>
    BY DEF Disconnect
  <1> QED
    BY <1>1 DEF Served, ServedAt

LEMMA NextServed == IInv /\ Served /\ [Next]_vars => Served' /\ (LeftAsBefore \/ Disconnect)
  <1> SUFFICES ASSUME IInv, Served, [Next]_vars
               PROVE  Served' /\ (LeftAsBefore \/ Disconnect)
    OBVIOUS
  <1>calls. Calls /\ call \in [Threads -> CallRecord]
    BY CallsParts DEF IInv
  <1>1. ASSUME NEW t \in Threads,
               \/ Enter(t) \/ Assign(t) \/ \E rule \in Watched, on \in BOOLEAN : SetCallback(t, rule, on)
        PROVE  Served' /\ LeftAsBefore
    <2>1. UNCHANGED <<wire, queue, call>>
      BY <1>1 DEF Enter, Assign, SetCallback, ruleVars
    <2> QED
      BY <1>calls, <2>1, ServedQuiet
  <1>2. ASSUME NEW t \in Threads,
               MatchDone(t) \/ \E rule \in OtherRules, on \in BOOLEAN : CallMatch(t, rule, on)
        PROVE  Served' /\ LeftAsBefore
    <2>1. /\ UNCHANGED <<wire, queue>>
          /\ call' = [call EXCEPT ![t] = NoCall] \/ \E what, rule : call' = Begun(t, what, rule)
      BY <1>2 DEF MatchDone, CallMatch
    <2>2. call[t].at # "asked"
      <3>1. CASE MatchDone(t)
        BY <3>1 DEF MatchDone
      <3>2. CASE \E rule \in OtherRules, on \in BOOLEAN : CallMatch(t, rule, on)
        BY <1>calls, <3>2, CallsParts DEF CallMatch, Begin, Idle, NoOp, Links
      <3> QED
        BY <1>2, <3>1, <3>2
    <2>3. \A s \in Threads : \/ call'[s] = call[s]
                             \/ call[s].at # "asked" /\ call'[s].at # "asked"
      BY <1>calls, <2>1, <2>2 DEF Begun, NoCall
    <2> QED
      BY <1>calls, <2>1, <2>3, ServedQuiet
  <1>3. ASSUME NEW t \in Threads, Finish(t)
        PROVE  Served' /\ LeftAsBefore
    <2>1. \A s \in Threads : \/ call'[s] = call[s]
                             \/ call[s].at # "asked" /\ call'[s].at # "asked"
      BY <1>3, <1>calls DEF Finish, CallRecord
    <2>2. UNCHANGED <<wire, queue>>
      BY <1>3 DEF Finish
    <2> QED
      BY <1>calls, <2>1, <2>2, ServedQuiet
  <1>4. ASSUME NEW t \in Threads, AskForRule(t) \/ AskMatch(t)
        PROVE  Served' /\ LeftAsBefore
    BY <1>4, <1>calls, AskForRuleServed, AskMatchServed
  <1>5. CASE on_signal \/ OnOwner \/ OnSyncReply
    BY <1>5, <1>calls, WatchServed, OnSyncReplyServed
  <1>6. CASE BusHandles \/ TimesOut \/ \E r \in Watched : Signal(r)
    BY <1>6, <1>calls, BusHandlesServed, TimesOutServed, SignalServed
  <1>7. CASE Connect \/ UNCHANGED vars
    <2>1. UNCHANGED <<wire, queue, call>>
      BY <1>7 DEF Connect, vars, ruleVars
    <2> QED
      BY <1>calls, <2>1, ServedQuiet
  <1>8. CASE Disconnect
    BY <1>8, DisconnectServed
  <1> QED
    BY <1>1, <1>2, <1>3, <1>4, <1>5, <1>6, <1>7, <1>8 DEF Next

LEMMA ServedHolds == Spec => []Served
  <1>1. ASSUME Init
        PROVE  Served
    BY <1>1 DEF Init, RulesInit, NoCall, Served, ServedAt
  <1>2. Init => Served
    BY <1>1
  <1> QED
    BY <1>2, InitIInv, NextIInv, NextServed, PTL DEF Spec

\* A set of positions no two of which can be members.
LEMMA AtMostOne ==
  ASSUME NEW S, \A i, j \in S : i = j
  PROVE  Cardinality(S) = IF S = {} THEN 0 ELSE 1
  <1>1. CASE S = {}
    BY <1>1, FS_EmptySet
  <1>2. CASE S # {}
    <2>1. PICK i : S = {i}
      BY <1>2
    <2> QED
      BY <1>2, <2>1, FS_Singleton
  <1> QED
    BY <1>1, <1>2

LEMMA LeftIsLeftBehind ==
  ASSUME IInv, NEW t \in Threads
  PROVE  LeftBehind(t) <=> Left(t, wire, queue, call[t])
  <1>1. DOMAIN wire = 1..Len(wire) /\ DOMAIN queue = 1..Len(queue)
    BY DEF IInv, Calls, TypeOK, RulesTypeOK
  <1> QED
    BY <1>1 DEF LeftBehind, AskedBy, AnswersTo, Left, Comes, Awaited

\* A thread in add_match or remove_match of the connection has one request or
\* one reply under way, to what it asked, while lookups and requests that
\* nobody awaits travel with it; or it has been left behind, and then nothing
\* comes for it.
THEOREM ReplyComesUnlessLeftBehind ==
  Spec => [](\A t \in Threads : ReplyIsComingTo(t) \/ LeftBehind(t))
  <1>1. IInv /\ Served => \A t \in Threads : ReplyIsComingTo(t) \/ LeftBehind(t)
    <2> SUFFICES ASSUME IInv, Served, NEW t \in Threads, ~LeftBehind(t)
                 PROVE  ReplyIsComingTo(t)
      OBVIOUS
    <2>1. /\ DOMAIN wire = 1..Len(wire) /\ DOMAIN queue = 1..Len(queue)
          /\ OneReplyFor(t) /\ ServedAt(t, wire, queue, call[t])
      <3>1. wire \in Seq(Request) /\ queue \in Seq(Item) /\ Calls
        BY DEF IInv, Calls, TypeOK, RulesTypeOK
      <3> QED
        BY <3>1, TrafficFacts DEF Served
    <2>2. /\ \A i, j \in AskedBy(t) : i = j
          /\ \A i, j \in AnswersTo(t) : i = j
          /\ AskedBy(t) = {} \/ AnswersTo(t) = {}
          /\ call[t].at # "asked" => AskedBy(t) = {} /\ AnswersTo(t) = {}
      BY <2>1 DEF OneReplyFor, Awaited, AskedBy, AnswersTo
    <2>3. /\ \A k \in AskedBy(t) : wire[k].what = call[t].what /\ wire[k].rule = call[t].rule
          /\ \A k \in AnswersTo(t) : queue[k].what = call[t].what /\ queue[k].rule = call[t].rule
      BY <2>1 DEF ServedAt, Awaited, IsFor, AskedBy, AnswersTo
    <2>4. /\ Cardinality(AskedBy(t)) = IF AskedBy(t) = {} THEN 0 ELSE 1
          /\ Cardinality(AnswersTo(t)) = IF AnswersTo(t) = {} THEN 0 ELSE 1
      BY <2>2, AtMostOne
    <2>5. call[t].at = "asked" => AskedBy(t) # {} \/ AnswersTo(t) # {}
      BY DEF LeftBehind
    <2>6. Cardinality(AskedBy(t)) + Cardinality(AnswersTo(t)) = IF call[t].at = "asked" THEN 1 ELSE 0
      BY <2>2, <2>4, <2>5
    <2> QED
      BY <2>3, <2>6 DEF ReplyIsComingTo
  <1> QED
    BY <1>1, ServedHolds, InitIInv, NextIInv, PTL DEF Spec

\* A thread is left behind by a disconnect while it waits (connection.cpp:488-490
\* drops its call), by nothing else, and for good: no refusal, timeout or
\* overtaken reply leaves it waiting for nothing, and no reconnect, no reply to
\* another and no late answer wakes it again.
THEOREM OnlyDisconnectLeavesBehind ==
  Spec => [][\A t \in Threads :
               LeftBehind(t)' <=> LeftBehind(t) \/ (Disconnect /\ call[t].at = "asked")]_vars
  <1>1. ASSUME IInv, IInv', Served, [Next]_vars, NEW t \in Threads
        PROVE  LeftBehind(t)' <=> LeftBehind(t) \/ (Disconnect /\ call[t].at = "asked")
    <2>1. LeftBehind(t) <=> Left(t, wire, queue, call[t])
      BY <1>1, LeftIsLeftBehind
    <2>2. LeftBehind(t)' <=> Left(t, wire', queue', call'[t])
      <3>1. DOMAIN wire' = 1..Len(wire') /\ DOMAIN queue' = 1..Len(queue')
        BY <1>1 DEF IInv, Calls, TypeOK, RulesTypeOK
      <3> QED
        BY <3>1 DEF LeftBehind, AskedBy, AnswersTo, Left, Comes, Awaited
    <2>3. CASE ~Disconnect
      BY <1>1, <2>1, <2>2, <2>3, NextServed DEF LeftAsBefore
    <2>4. CASE Disconnect
      <3>1. wire' = <<>> /\ queue' = <<>> /\ call' = call
        BY <2>4 DEF Disconnect
      <3>2. LeftBehind(t)' <=> call[t].at = "asked"
        BY <2>2, <3>1 DEF Left, Comes
      <3> QED
        BY <2>4, <3>2 DEF LeftBehind
    <2> QED
      BY <2>3, <2>4
  <1>2. IInv /\ IInv' /\ Served /\ [Next]_vars =>
          [\A t \in Threads :
             LeftBehind(t)' <=> LeftBehind(t) \/ (Disconnect /\ call[t].at = "asked")]_vars
    BY <1>1
  <1> QED
    BY <1>2, ServedHolds, InitIInv, NextIInv, PTL DEF Spec

-----------------------------------------------------------------------------
(* Three threads wait for each other. *)

\* Who waits for a reply, or has it and has not gone on, holds match_rule_mutex.
Holding == \A t \in Threads : call[t].at \in {"asked", "replied"} => match_rule_mutex = t

LEMMA AskHolds ==
  ASSUME Calls, Holding, NEW t \in Threads, Ask(t)
  PROVE  Holding'
  <1>1. \A s \in Threads : call[s].at \notin {"asked", "replied"}
    BY MatchRulesAssumption DEF Ask, Holding
  <1>2. /\ \A s \in Threads \ {t} : call'[s] = call[s]
        /\ call'[t].at = "asked" => match_rule_mutex' = t
    BY CallsParts DEF Ask, CallRecord
  <1>3. call'[t].at \in {"asked", "done"}
    BY CallsParts DEF Ask, CallRecord
  <1> QED
    BY <1>1, <1>2, <1>3 DEF Holding

LEMMA NextHolds == IInv /\ Holding /\ [Next]_vars => Holding'
  <1> SUFFICES ASSUME IInv, Holding, [Next]_vars
               PROVE  Holding'
    OBVIOUS
  <1>calls. Calls /\ call \in [Threads -> CallRecord]
    BY CallsParts DEF IInv
  <1>quiet. ASSUME UNCHANGED match_rule_mutex,
                   \A s \in Threads : \/ call'[s] = call[s]
                                      \/ call'[s].at \notin {"asked", "replied"}
            PROVE  Holding'
    BY <1>quiet DEF Holding
  <1>1. ASSUME NEW t \in Threads,
               \/ Enter(t) \/ AskForRule(t) \/ Assign(t)
               \/ \E rule \in Watched, on \in BOOLEAN : SetCallback(t, rule, on)
        PROVE  Holding'
    <2>1. UNCHANGED <<call, match_rule_mutex>>
      BY <1>1 DEF Enter, AskForRule, AskQuietly, Assign, SetCallback, ruleVars
    <2> QED
      BY <2>1, <1>quiet
  <1>2. ASSUME NEW t \in Threads,
               MatchDone(t) \/ \E rule \in OtherRules, on \in BOOLEAN : CallMatch(t, rule, on)
        PROVE  Holding'
    <2>1. /\ UNCHANGED match_rule_mutex
          /\ call' = [call EXCEPT ![t] = NoCall] \/ \E what, rule : call' = Begun(t, what, rule)
      BY <1>2 DEF MatchDone, CallMatch
    <2>2. \A s \in Threads : \/ call'[s] = call[s]
                             \/ call'[s].at \notin {"asked", "replied"}
      BY <1>calls, <2>1 DEF Begun, NoCall
    <2> QED
      BY <2>1, <2>2, <1>quiet
  <1>3. ASSUME NEW t \in Threads, AskMatch(t)
        PROVE  Holding'
    BY <1>3, <1>calls, AskHolds DEF AskMatch
  <1>4. ASSUME NEW t \in Threads, Finish(t)
        PROVE  Holding'
    <2>1. /\ call[t].at = "replied"
          /\ call'[t].at = "done" /\ \A s \in Threads \ {t} : call'[s] = call[s]
      BY <1>4, <1>calls DEF Finish, CallRecord
    <2>2. match_rule_mutex = t
      BY <2>1 DEF Holding
    <2> QED
      BY <2>1, <2>2 DEF Holding
  <1>5. CASE OnSyncReply
    <2>1. /\ queue # <<>> /\ queue' = Tail(queue) /\ Head(queue).to \in Threads
          /\ UNCHANGED match_rule_mutex
          /\ call' = [call EXCEPT ![Head(queue).to].at = "replied", ![Head(queue).to].ok = Head(queue).ok]
      BY <1>5 DEF OnSyncReply
    <2>2. Head(queue) = queue[1] /\ Len(queue) \in Nat /\ Len(queue) >= 1
      BY <1>calls, <2>1, TakeFacts, TrafficFacts DEF Shrinks
    <2>3. call[queue[1].to].at = "asked"
      <3>1. OneReplyFor(queue[1].to)
        BY <1>calls, <2>1, <2>2, TrafficFacts
      <3> QED
        BY <2>2, <3>1 DEF OneReplyFor
    <2>4. \A s \in Threads \ {queue[1].to} : call'[s] = call[s]
      BY <1>calls, <2>1, <2>2
    <2> QED
      BY <2>1, <2>2, <2>3, <2>4 DEF Holding
  <1>6. CASE \/ on_signal \/ OnOwner \/ BusHandles \/ TimesOut \/ Disconnect \/ Connect \/ UNCHANGED vars
             \/ \E r \in Watched : Signal(r)
    <2>1. UNCHANGED <<call, match_rule_mutex>>
      BY <1>6 DEF on_signal, OnOwner, BusHandles, TimesOut, Disconnect, Connect, Signal, BusSignals,
                  vars, ruleVars
    <2> QED
      BY <2>1, <1>quiet
  <1> QED
    BY <1>1, <1>2, <1>3, <1>4, <1>5, <1>6 DEF Next

LEMMA HoldingHolds == Spec => []Holding
  <1>1. Init => Holding
    BY DEF Init, RulesInit, NoCall, Holding
  <1> QED
    BY <1>1, InitIInv, NextIInv, NextHolds, PTL DEF Spec

\* The dispatch thread waits for cb_mutex, which a setter has; the setter waits
\* for match_rule_mutex, which a third thread has; and that one waits for a
\* reply that the dispatch thread would have to bring.
Knotted ==
  /\ connected
  /\ queue # <<>> /\ Head(queue).what \in {"Signal", "GetNameOwner"}
  /\ \E s, t \in Threads :
       /\ cb_mutex = s /\ op[s].at = "ask"
       /\ match_rule_mutex = t /\ call[t].at = "asked"

\* What is received goes behind the item for which the dispatch thread waits.
LEMMA KnotGrows ==
  ASSUME Calls, queue # <<>>, BusHandles \/ TimesOut \/ \E r \in Watched : Signal(r)
  PROVE  queue' # <<>> /\ Head(queue') = Head(queue)
  <1>1. queue \in Seq(Item)
    BY CallsParts DEF RulesTypeOK
  <1>2. queue' \in Seq(Item) /\ (queue' = queue \/ \E m : Grows(queue, queue', m))
    <2>1. CASE BusHandles
      BY <2>1, <1>1, BusHandlesFacts
    <2>2. CASE TimesOut
      BY <2>2, TimesOutFacts
    <2>3. ASSUME NEW r \in Watched, Signal(r)
          PROVE  queue' \in Seq(Item) /\ (queue' = queue \/ \E m : Grows(queue, queue', m))
      <3> DEFINE m == [to |-> "filter", what |-> "Signal", rule |-> r, of |-> signals + 1, ok |-> TRUE]
      <3>1. queue' = Append(queue, m) /\ m \in Item
        BY <2>3, CallsParts, NameWatchAssumption, SignalType DEF Signal, BusSignals, DataTypes
      <3> HIDE DEF m
      <3>2. queue' \in Seq(Item) /\ Grows(queue, queue', m)
        BY <1>1, <3>1, AppendFacts DEF Grows
      <3> QED
        BY <3>2
    <2> QED
      BY <2>1, <2>2, <2>3
  <1>3. Len(queue) \in Nat /\ Len(queue) >= 1 /\ Head(queue) = queue[1]
    BY <1>1
  <1>4. Len(queue') >= 1 /\ queue'[1] = queue[1]
    BY <1>2, <1>3 DEF Grows
  <1> QED
    BY <1>2, <1>3, <1>4

LEMMA NextKnotted == IInv /\ Holding /\ Knotted /\ [Next]_vars => Knotted' \/ Disconnect
  <1> SUFFICES ASSUME IInv, Holding, Knotted, [Next]_vars, ~Disconnect
               PROVE  Knotted'
    OBVIOUS
  <1>calls. Calls
    BY DEF IInv
  <1>1. PICK s \in Threads, t \in Threads :
           /\ cb_mutex = s /\ op[s].at = "ask"
           /\ match_rule_mutex = t /\ call[t].at = "asked"
    BY DEF Knotted
  <1>2. /\ connected /\ queue # <<>> /\ Head(queue).what \in {"Signal", "GetNameOwner"}
        /\ s # "free" /\ t # "free" /\ op[t].at = "match"
    BY <1>1, <1>calls, CallsParts, MatchRulesAssumption DEF Knotted, OpTypes, Links
  <1>3. /\ op \in [Threads -> OpRecord] /\ call \in [Threads -> CallRecord]
        /\ \A x \in Threads : op[x].at \in {"ask", "assign"} => x = s
    BY <1>1, <1>calls, CallsParts DEF OpTypes
  <1>keep. ASSUME queue' # <<>>, Head(queue') = Head(queue), UNCHANGED <<connected, cb_mutex, match_rule_mutex>>,
                  op'[s] = op[s], call'[t] = call[t]
           PROVE  Knotted'
    BY <1>keep, <1>1, <1>2 DEF Knotted
  <1>4. ASSUME NEW x \in Threads, Enter(x) \/ AskForRule(x) \/ Assign(x) \/ AskMatch(x) \/ Finish(x)
        PROVE  FALSE
    <2>1. ~Enter(x)
      BY <1>1, <1>2 DEF Enter
    <2>2. ~AskForRule(x)
      BY <1>1, <1>2 DEF AskForRule, AskQuietly
    <2>3. ~Assign(x)
      BY <1>1, <1>3 DEF Assign
    <2>4. ~AskMatch(x)
      BY <1>1, <1>2 DEF AskMatch, Ask
    <2>5. ~Finish(x)
      BY <1>1 DEF Finish, Holding
    <2> QED
      BY <1>4, <2>1, <2>2, <2>3, <2>4, <2>5
  <1>5. ASSUME NEW x \in Threads, NEW rule, NEW on, SetCallback(x, rule, on) \/ CallMatch(x, rule, on)
        PROVE  Knotted'
    <2>1. x # s /\ x # t
      <3>1. op[x] = NoOp
        BY <1>5 DEF SetCallback, CallMatch, Begin, Idle
      <3>2. op[x].at = "idle"
        BY <3>1 DEF NoOp
      <3> QED
        BY <1>1, <1>2, <3>2
    <2>2. op'[s] = op[s]
      BY <1>3, <1>5, <2>1 DEF SetCallback, CallMatch, Begin
    <2>3. call'[t] = call[t]
      BY <1>3, <1>5, <2>1 DEF SetCallback, CallMatch, Begun, ruleVars
    <2>4. UNCHANGED <<queue, connected, cb_mutex, match_rule_mutex>>
      BY <1>5 DEF SetCallback, CallMatch, ruleVars
    <2> QED
      BY <1>2, <1>keep, <2>2, <2>3, <2>4
  <1>6. ASSUME NEW x \in Threads, MatchDone(x)
        PROVE  Knotted'
    <2>1. x # s /\ x # t
      BY <1>1, <1>6 DEF MatchDone
    <2>2. /\ op'[s] = op[s] /\ call'[t] = call[t]
          /\ UNCHANGED <<queue, connected, cb_mutex, match_rule_mutex>>
      BY <1>3, <1>6, <2>1 DEF MatchDone
    <2> QED
      BY <1>2, <1>keep, <2>2
  <1>7. ASSUME on_signal \/ OnOwner \/ OnSyncReply \/ Connect
        PROVE  FALSE
    <2>1. ~on_signal /\ ~OnOwner
      BY <1>1, <1>2 DEF on_signal, OnOwner
    <2>2. ~OnSyncReply
      <3>1. ASSUME OnSyncReply
            PROVE  FALSE
        <4>1. Head(queue) = queue[1] /\ FitsQueue(queue[1]) /\ Head(queue).to \in Threads
          BY <1>calls, <3>1, TakeFacts DEF OnSyncReply
        <4> QED
          BY <1>2, <4>1, MatchRulesAssumption DEF FitsQueue
      <3> QED
        BY <3>1
    <2>3. ~Connect
      BY <1>1, <1>2 DEF Connect
    <2> QED
      BY <1>7, <2>1, <2>2, <2>3
  <1>8. CASE /\ BusHandles \/ TimesOut \/ \E r \in Watched : Signal(r)
             /\ UNCHANGED <<connected, cb_mutex, op>>
    <2>1. queue' # <<>> /\ Head(queue') = Head(queue)
      BY <1>calls, <1>2, <1>8, KnotGrows
    <2>2. UNCHANGED <<call, match_rule_mutex>>
      BY <1>8 DEF BusHandles, TimesOut, Signal, BusSignals
    <2> QED
      BY <1>8, <1>keep, <2>1, <2>2
  <1>9. CASE UNCHANGED vars
    BY <1>2, <1>9, <1>keep DEF vars, ruleVars, watchVars
  <1> QED
    BY <1>4, <1>5, <1>6, <1>7, <1>8, <1>9 DEF Next, Signal, watchVars

\* Once the dispatch thread needs cb_mutex, its owner match_rule_mutex and the
\* owner of that a reply, only a disconnect changes it: not even the timeout of
\* the request helps, since its error is delivered by the dispatch thread
\* (connection.cpp, set_name_owner_changed_cb and on_signal; message_filter.cpp,
\* add_match).  A disconnect that comes before the dispatch thread has begun to
\* wait (it would join it, connection.cpp:499) leaves the last one behind.
THEOREM KnottedForGood == Spec => [][Knotted => Knotted' \/ Disconnect]_vars
  <1>1. IInv /\ Holding /\ [Next]_vars => [Knotted => Knotted' \/ Disconnect]_vars
    BY NextKnotted
  <1> QED
    BY <1>1, HoldingHolds, InitIInv, NextIInv, PTL DEF Spec

=============================================================================
