------------------------- MODULE Registrations_proofs -------------------------
(***************************************************************************)
(* What holds of the callbacks for signals, for any threads and bounds and *)
(* for each of the classes: the types and the owners of the two mutexes,   *)
(* that the bus has the rules that the filter believes it has, and that a  *)
(* callback has its rule.                                                  *)
(***************************************************************************)
EXTENDS Registrations, FiniteSetTheorems, TLAPS

-----------------------------------------------------------------------------
(* Sequences, and what is put into them. *)

LEMMA TailFacts ==
  ASSUME NEW S, NEW s \in Seq(S), s # <<>>
  PROVE  /\ Tail(s) \in Seq(S) /\ Len(s) \in Nat /\ Len(s) >= 1
         /\ Len(Tail(s)) = Len(s) - 1
         /\ Head(s) = s[1] /\ s[1] \in S
         /\ \A i \in 1..Len(s) - 1 : i + 1 \in 1..Len(s) /\ Tail(s)[i] = s[i + 1]
  OBVIOUS

LEMMA AppendFacts ==
  ASSUME NEW S, NEW s \in Seq(S), NEW e \in S
  PROVE  /\ Append(s, e) \in Seq(S) /\ Len(s) \in Nat
         /\ Len(Append(s, e)) = Len(s) + 1
         /\ Append(s, e)[Len(s) + 1] = e
         /\ \A i \in 1..Len(s) : Append(s, e)[i] = s[i]
  OBVIOUS

LEMMA RequestType ==
  ASSUME NEW by \in Receivers, NEW what \in Kinds, NEW rule \in Rules \cup {NoRule}, NEW of \in Nat
  PROVE  [by |-> by, what |-> what, rule |-> rule, of |-> of, late |-> FALSE] \in Request
  BY DEF Request

LEMMA ReplyType ==
  ASSUME NEW r \in Request, NEW ok \in BOOLEAN
  PROVE  Reply(r, ok) \in Item
  BY DEF Request, Item, Reply, Receivers

LEMMA SignalType ==
  ASSUME NEW r \in Rules, NEW of \in Nat
  PROVE  [to |-> "filter", what |-> "Signal", rule |-> r, of |-> of, ok |-> TRUE] \in Item
  BY DEF Item

\* What a step does to wire or to queue.
Grows(s, t, e) ==
  /\ Len(s) \in Nat
  /\ Len(t) = Len(s) + 1
  /\ t[Len(s) + 1] = e
  /\ \A i \in 1..Len(s) : t[i] = s[i]

Shrinks(s, t) ==
  /\ Len(s) \in Nat /\ Len(s) >= 1
  /\ Len(t) = Len(s) - 1
  /\ \A i \in 1..Len(t) : i + 1 \in 1..Len(s) /\ t[i] = s[i + 1]

\* The same, seen from the sequence that results.
LEMMA Put ==
  ASSUME NEW s, NEW t, NEW e, Grows(s, t, e)
  PROVE  /\ Len(t) \in Nat /\ Len(t) = Len(s) + 1
         /\ \A i \in 1..Len(t) : \/ i \in 1..Len(s) /\ t[i] = s[i]
                                 \/ i = Len(s) + 1 /\ t[i] = e
  BY DEF Grows

LEMMA Taken ==
  ASSUME NEW s, NEW t, Shrinks(s, t)
  PROVE  /\ Len(t) \in Nat /\ 1 \in 1..Len(s)
         /\ \A i \in 1..Len(t) : i + 1 \in 1..Len(s) /\ t[i] = s[i + 1]
         /\ \A i \in 1..Len(s) : i = 1 \/ (i - 1 \in 1..Len(t) /\ t[i - 1] = s[i])
  <1>1. /\ Len(t) \in Nat /\ 1 \in 1..Len(s)
        /\ \A i \in 1..Len(t) : i + 1 \in 1..Len(s) /\ t[i] = s[i + 1]
    BY DEF Shrinks
  <1>2. \A i \in 1..Len(s) : i = 1 \/ (i - 1 \in 1..Len(t) /\ t[i - 1] = s[i])
    <2> SUFFICES ASSUME NEW i \in 1..Len(s), i # 1
                 PROVE  i - 1 \in 1..Len(t) /\ t[i - 1] = s[i]
      OBVIOUS
    <2>1. i - 1 \in 1..Len(t) /\ (i - 1) + 1 = i
      BY DEF Shrinks
    <2> QED
      BY <1>1, <2>1
  <1> QED
    BY <1>1, <1>2

-----------------------------------------------------------------------------
(* One rule: what the filter believes, what the bus has, and the news of it *)
(* that are under way.  A successful reply to add or to remove it is news.   *)

IsRule(what) == what \in {"AddMatch", "RemoveMatch"}
About(m, r) == m.rule = r /\ IsRule(m.what)
Ok(m, r) == About(m, r) /\ m.ok
Got(c, r) == c.at = "replied" /\ Ok(c, r)
ToAdd(m, r) == m.rule = r /\ m.what = "AddMatch"
ToRemove(m, r) == m.rule = r /\ m.what = "RemoveMatch"

Has(r, known) == IF r \in known THEN 1 ELSE 0
ToCome(r, known) == IF r \in known THEN "RemoveMatch" ELSE "AddMatch"

NoNews(r, q, cl) ==
  /\ \A i \in 1..Len(q) : ~Ok(q[i], r)
  /\ \A t \in Threads : ~Got(cl[t], r)

OneNews(r, q, cl) ==
  /\ \A i, j \in 1..Len(q) : Ok(q[i], r) /\ Ok(q[j], r) => i = j
  /\ \A i \in 1..Len(q), t \in Threads : ~(Ok(q[i], r) /\ Got(cl[t], r))
  /\ \A t, u \in Threads : Got(cl[t], r) /\ Got(cl[u], r) => t = u

\* The filter is wrong exactly while the news that puts it right is under way.
TrueNews(r, q, cl, known, b) ==
  /\ \A i \in 1..Len(q) : Ok(q[i], r) => q[i].what = ToCome(r, known) /\ b = 1 - Has(r, known)
  /\ \A t \in Threads : Got(cl[t], r) => cl[t].what = ToCome(r, known) /\ b = 1 - Has(r, known)
  /\ NoNews(r, q, cl) => b = Has(r, known)

\* A rule is asked for when it is not there, and last of all.
Adds(r, q, w, cl, known) ==
  \A k \in 1..Len(w) : ToAdd(w[k], r) =>
    /\ r \notin known /\ NoNews(r, q, cl)
    /\ \A i \in 1..Len(w) : i > k => ~About(w[i], r)

\* Nothing takes away a rule that was added and is not yet known to be there.
NoRemoves(r, w, known, b) ==
  (r \notin known /\ b > 0) => \A k \in 1..Len(w) : ~ToRemove(w[k], r)

AgreeOn(r, q, w, cl, known, b) ==
  /\ OneNews(r, q, cl)
  /\ TrueNews(r, q, cl, known, b)
  /\ Adds(r, q, w, cl, known)
  /\ NoRemoves(r, w, known, b)

\* A step that is not about the rule.
SameNews(r, q, q2, d) ==
  /\ \A i \in 1..Len(q2) : Ok(q2[i], r) =>
       i + d \in 1..Len(q) /\ Ok(q[i + d], r) /\ q2[i].what = q[i + d].what
  /\ \A i \in 1..Len(q) : Ok(q[i], r) => i - d \in 1..Len(q2) /\ Ok(q2[i - d], r)

SameGot(r, cl, cl2) ==
  \A t \in Threads : /\ Got(cl2[t], r) => Got(cl[t], r) /\ cl2[t].what = cl[t].what
                     /\ Got(cl[t], r) => Got(cl2[t], r)

NoneAsked(r, w, w2, d) ==
  \A i \in 1..Len(w2) : About(w2[i], r) =>
    i + d \in 1..Len(w) /\ About(w[i + d], r) /\ w2[i].what = w[i + d].what

LEMMA SameNewsTaken ==
  ASSUME NEW r, NEW q, NEW q2, Shrinks(q, q2), ~Ok(q[1], r)
  PROVE  SameNews(r, q, q2, 1)
  <1>1. /\ \A i \in 1..Len(q2) : i + 1 \in 1..Len(q) /\ q2[i] = q[i + 1]
        /\ \A i \in 1..Len(q) : i = 1 \/ (i - 1 \in 1..Len(q2) /\ q2[i - 1] = q[i])
    BY Taken
  <1> QED
    BY <1>1 DEF SameNews

LEMMA SameNewsPut ==
  ASSUME NEW r, NEW q, NEW q2, NEW m, Grows(q, q2, m), ~Ok(m, r)
  PROVE  SameNews(r, q, q2, 0)
  <1>1. /\ Len(q) \in Nat /\ Len(q2) = Len(q) + 1
        /\ \A i \in 1..Len(q2) : \/ i \in 1..Len(q) /\ q2[i] = q[i]
                                 \/ i = Len(q) + 1 /\ q2[i] = m
        /\ \A i \in 1..Len(q) : q2[i] = q[i]
    BY Put DEF Grows
  <1>2. \A i \in 1..Len(q) : i + 0 = i /\ i - 0 = i /\ i \in 1..Len(q2)
    BY <1>1
  <1> QED
    BY <1>1, <1>2 DEF SameNews

LEMMA SameNewsKept ==
  ASSUME NEW r, NEW q, Len(q) \in Nat
  PROVE  SameNews(r, q, q, 0)
  <1>1. \A i \in 1..Len(q) : i + 0 = i /\ i - 0 = i
    OBVIOUS
  <1> QED
    BY <1>1 DEF SameNews

LEMMA NoneAskedTaken ==
  ASSUME NEW r, NEW w, NEW w2, Shrinks(w, w2)
  PROVE  NoneAsked(r, w, w2, 1)
  BY Taken DEF NoneAsked

LEMMA NoneAskedPut ==
  ASSUME NEW r, NEW w, NEW w2, NEW m, Grows(w, w2, m), ~About(m, r)
  PROVE  NoneAsked(r, w, w2, 0)
  <1>1. \A i \in 1..Len(w2) : \/ i \in 1..Len(w) /\ w2[i] = w[i]
                              \/ i = Len(w) + 1 /\ w2[i] = m
    BY Put
  <1>2. \A i \in 1..Len(w) : i + 0 = i
    BY DEF Grows
  <1> QED
    BY <1>1, <1>2 DEF NoneAsked

LEMMA NoneAskedKept ==
  ASSUME NEW r, NEW w, Len(w) \in Nat
  PROVE  NoneAsked(r, w, w, 0)
  <1>1. \A i \in 1..Len(w) : i + 0 = i
    OBVIOUS
  <1> QED
    BY <1>1 DEF NoneAsked

LEMMA AgreeKept ==
  ASSUME NEW r, NEW q, NEW q2, NEW w, NEW w2, NEW cl, NEW cl2, NEW known, NEW known2, NEW b,
         NEW dq \in 0..1, NEW dw \in 0..1,
         Len(q) \in Nat, Len(q2) \in Nat, Len(w) \in Nat, Len(w2) \in Nat,
         AgreeOn(r, q, w, cl, known, b),
         SameNews(r, q, q2, dq), SameGot(r, cl, cl2), NoneAsked(r, w, w2, dw),
         r \in known2 <=> r \in known
  PROVE  AgreeOn(r, q2, w2, cl2, known2, b)
  <1>1. OneNews(r, q2, cl2)
    <2>1. \A i, j \in 1..Len(q2) : Ok(q2[i], r) /\ Ok(q2[j], r) => i = j
      <3> SUFFICES ASSUME NEW i \in 1..Len(q2), NEW j \in 1..Len(q2), Ok(q2[i], r), Ok(q2[j], r)
                   PROVE  i = j
        OBVIOUS
      <3>1. i + dq = j + dq
        BY DEF SameNews, AgreeOn, OneNews
      <3> QED
        BY <3>1
    <2>2. \A i \in 1..Len(q2), t \in Threads : ~(Ok(q2[i], r) /\ Got(cl2[t], r))
      BY DEF SameNews, SameGot, AgreeOn, OneNews
    <2>3. \A t, u \in Threads : Got(cl2[t], r) /\ Got(cl2[u], r) => t = u
      BY DEF SameGot, AgreeOn, OneNews
    <2> QED
      BY <2>1, <2>2, <2>3 DEF OneNews
  <1>2. NoNews(r, q2, cl2) <=> NoNews(r, q, cl)
    BY DEF NoNews, SameNews, SameGot
  <1>3. Has(r, known2) = Has(r, known) /\ ToCome(r, known2) = ToCome(r, known)
    BY DEF Has, ToCome
  <1>4. TrueNews(r, q2, cl2, known2, b)
    <2>1. TrueNews(r, q, cl, known, b)
      BY DEF AgreeOn
    <2> QED
      BY <1>2, <1>3, <2>1 DEF TrueNews, SameNews, SameGot
  <1>5. Adds(r, q2, w2, cl2, known2)
    <2> SUFFICES ASSUME NEW k \in 1..Len(w2), ToAdd(w2[k], r)
                 PROVE  /\ r \notin known2 /\ NoNews(r, q2, cl2)
                        /\ \A i \in 1..Len(w2) : i > k => ~About(w2[i], r)
      BY DEF Adds
    <2>1. k + dw \in 1..Len(w) /\ ToAdd(w[k + dw], r)
      BY DEF NoneAsked, About, ToAdd, IsRule
    <2>2. /\ r \notin known /\ NoNews(r, q, cl)
          /\ \A i \in 1..Len(w) : i > k + dw => ~About(w[i], r)
      BY <2>1 DEF AgreeOn, Adds
    <2>3. \A i \in 1..Len(w2) : i > k => ~About(w2[i], r)
      <3> SUFFICES ASSUME NEW i \in 1..Len(w2), i > k, About(w2[i], r)
                   PROVE  FALSE
        OBVIOUS
      <3>1. i + dw \in 1..Len(w) /\ About(w[i + dw], r) /\ i + dw > k + dw
        BY DEF NoneAsked
      <3> QED
        BY <2>2, <3>1
    <2> QED
      BY <1>2, <2>2, <2>3
  <1>6. NoRemoves(r, w2, known2, b)
    <2> SUFFICES ASSUME r \notin known, b > 0, NEW k \in 1..Len(w2), ToRemove(w2[k], r)
                 PROVE  FALSE
      BY DEF NoRemoves
    <2>1. k + dw \in 1..Len(w) /\ ToRemove(w[k + dw], r)
      BY DEF NoneAsked, About, ToRemove, IsRule
    <2> QED
      BY <2>1 DEF AgreeOn, NoRemoves
  <1> QED
    BY <1>1, <1>4, <1>5, <1>6 DEF AgreeOn

\* The bus carries out a request, and sends the news.
LEMMA NewsSent ==
  ASSUME NEW r, NEW q, NEW q2, NEW w, NEW w2, NEW cl, NEW known, NEW b \in Nat, NEW b2, NEW m,
         AgreeOn(r, q, w, cl, known, b),
         Grows(q, q2, m), Ok(m, r), Shrinks(w, w2), About(w[1], r), m.what = w[1].what,
         m.what = "AddMatch" => b2 = b + 1,
         m.what = "RemoveMatch" => b > 0 /\ b2 = b - 1
  PROVE  AgreeOn(r, q2, w2, cl, known, b2)
  <1>w. /\ Len(w2) \in Nat /\ 1 \in 1..Len(w)
        /\ \A i \in 1..Len(w2) : i + 1 \in 1..Len(w) /\ w2[i] = w[i + 1]
    BY Taken
  <1>q. /\ Len(q2) \in Nat /\ Len(q2) = Len(q) + 1 /\ Len(q) \in Nat
        /\ \A i \in 1..Len(q2) : \/ i \in 1..Len(q) /\ q2[i] = q[i]
                                 \/ i = Len(q) + 1 /\ q2[i] = m
        /\ q2[Len(q) + 1] = m
    BY Put DEF Grows
  <1>h. Has(r, known) \in 0..1 /\ (Has(r, known) = 1 <=> r \in known)
    BY DEF Has
  <1>1. NoNews(r, q, cl) /\ m.what = ToCome(r, known) /\ b2 = 1 - Has(r, known)
    <2>1. CASE m.what = "AddMatch"
      <3>1. ToAdd(w[1], r)
        BY <2>1 DEF ToAdd, About
      <3>2. r \notin known /\ NoNews(r, q, cl)
        BY <1>w, <3>1 DEF AgreeOn, Adds
      <3>3. b = Has(r, known)
        BY <3>2 DEF AgreeOn, TrueNews
      <3> QED
        BY <1>h, <2>1, <3>2, <3>3 DEF ToCome
    <2>2. CASE m.what = "RemoveMatch"
      <3>1. ToRemove(w[1], r)
        BY <2>2 DEF ToRemove, About
      <3>2. r \in known
        BY <1>w, <2>2, <3>1 DEF AgreeOn, NoRemoves
      <3>3. NoNews(r, q, cl)
        <4>1. b # 1 - Has(r, known)
          BY <1>h, <2>2, <3>2
        <4> QED
          BY <4>1 DEF AgreeOn, TrueNews, NoNews
      <3>4. b = Has(r, known)
        BY <3>3 DEF AgreeOn, TrueNews
      <3> QED
        BY <1>h, <2>2, <3>2, <3>3, <3>4 DEF ToCome
    <2> QED
      BY <2>1, <2>2 DEF About, IsRule
  <1>2. \A i \in 1..Len(q2) : Ok(q2[i], r) => i = Len(q) + 1
    BY <1>q, <1>1 DEF NoNews
  <1>3. OneNews(r, q2, cl)
    BY <1>1, <1>2 DEF OneNews, NoNews
  <1>4. ~NoNews(r, q2, cl)
    <2>1. Len(q) + 1 \in 1..Len(q2)
      BY <1>q
    <2> QED
      BY <1>q, <2>1 DEF NoNews
  <1>5. TrueNews(r, q2, cl, known, b2)
    <2>1. \A i \in 1..Len(q2) : Ok(q2[i], r) => q2[i].what = ToCome(r, known)
      BY <1>q, <1>1, <1>2
    <2> QED
      BY <1>1, <1>4, <2>1 DEF TrueNews, NoNews
  <1>6. \A k \in 1..Len(w2) : ~ToAdd(w2[k], r)
    <2> SUFFICES ASSUME NEW k \in 1..Len(w2), ToAdd(w2[k], r)
                 PROVE  FALSE
      OBVIOUS
    <2>1. k + 1 \in 1..Len(w) /\ ToAdd(w[k + 1], r) /\ k + 1 > 1
      BY <1>w
    <2>2. r \notin known
      BY <2>1 DEF AgreeOn, Adds
    <2>3. ToAdd(w[1], r)
      BY <1>1, <2>2 DEF ToCome, ToAdd, About
    <2>4. ~About(w[k + 1], r)
      BY <1>w, <2>1, <2>3 DEF AgreeOn, Adds
    <2> QED
      BY <2>1, <2>4 DEF About, ToAdd, IsRule
  <1>7. NoRemoves(r, w2, known, b2)
    <2> SUFFICES ASSUME r \notin known, NEW k \in 1..Len(w2), ToRemove(w2[k], r)
                 PROVE  FALSE
      BY DEF NoRemoves
    <2>1. ToAdd(w[1], r)
      BY <1>1 DEF ToCome, ToAdd, About
    <2>2. k + 1 \in 1..Len(w) /\ ToRemove(w[k + 1], r) /\ k + 1 > 1
      BY <1>w
    <2>3. ~About(w[k + 1], r)
      BY <1>w, <2>1, <2>2 DEF AgreeOn, Adds
    <2> QED
      BY <2>2, <2>3 DEF About, ToRemove, IsRule
  <1> QED
    BY <1>3, <1>5, <1>6, <1>7 DEF AgreeOn, Adds

\* The dispatch thread hands news to the thread that waits for it.
LEMMA NewsHanded ==
  ASSUME NEW r, NEW q, NEW q2, NEW w, NEW cl, NEW cl2, NEW known, NEW b, NEW t \in Threads,
         AgreeOn(r, q, w, cl, known, b), Shrinks(q, q2),
         \A s \in Threads \ {t} : cl2[s] = cl[s],
         ~Got(cl[t], r),
         Got(cl2[t], r) => Ok(q[1], r) /\ cl2[t].what = q[1].what,
         Ok(q[1], r) => Got(cl2[t], r)
  PROVE  AgreeOn(r, q2, w, cl2, known, b)
  <1>q. /\ Len(q2) \in Nat /\ 1 \in 1..Len(q) /\ Len(q) \in Nat
        /\ \A i \in 1..Len(q2) : i + 1 \in 1..Len(q) /\ q2[i] = q[i + 1]
        /\ \A i \in 1..Len(q) : i = 1 \/ (i - 1 \in 1..Len(q2) /\ q2[i - 1] = q[i])
    BY Taken DEF Shrinks
  <1>1. NoNews(r, q2, cl2) => NoNews(r, q, cl)
    <2> SUFFICES ASSUME NoNews(r, q2, cl2)
                 PROVE  NoNews(r, q, cl)
      OBVIOUS
    <2>1. \A i \in 1..Len(q) : ~Ok(q[i], r)
      BY <1>q DEF NoNews
    <2>2. \A s \in Threads : ~Got(cl[s], r)
      BY DEF NoNews
    <2> QED
      BY <2>1, <2>2 DEF NoNews
  <1>2. NoNews(r, q, cl) => NoNews(r, q2, cl2)
    BY <1>q DEF NoNews
  <1>3. OneNews(r, q2, cl2)
    <2>o. OneNews(r, q, cl)
      BY DEF AgreeOn
    <2>1. \A i, j \in 1..Len(q2) : Ok(q2[i], r) /\ Ok(q2[j], r) => i = j
      <3> SUFFICES ASSUME NEW i \in 1..Len(q2), NEW j \in 1..Len(q2), Ok(q2[i], r), Ok(q2[j], r)
                   PROVE  i = j
        OBVIOUS
      <3>1. i + 1 = j + 1
        BY <1>q, <2>o DEF OneNews
      <3> QED
        BY <3>1
    <2>2. \A i \in 1..Len(q2), s \in Threads : ~(Ok(q2[i], r) /\ Got(cl2[s], r))
      <3> SUFFICES ASSUME NEW i \in 1..Len(q2), NEW s \in Threads, Ok(q2[i], r), Got(cl2[s], r)
                   PROVE  FALSE
        OBVIOUS
      <3>1. i + 1 \in 1..Len(q) /\ Ok(q[i + 1], r) /\ i + 1 # 1
        BY <1>q
      <3>2. CASE s = t
        BY <1>q, <2>o, <3>1, <3>2 DEF OneNews
      <3>3. CASE s # t
        BY <2>o, <3>1, <3>3 DEF OneNews
      <3> QED
        BY <3>2, <3>3
    <2>3. \A s, u \in Threads : Got(cl2[s], r) /\ Got(cl2[u], r) => s = u
      BY <1>q, <2>o DEF OneNews
    <2> QED
      BY <2>1, <2>2, <2>3 DEF OneNews
  <1>4. TrueNews(r, q2, cl2, known, b)
    <2>o. TrueNews(r, q, cl, known, b)
      BY DEF AgreeOn
    <2>1. \A i \in 1..Len(q2) : Ok(q2[i], r) => q2[i].what = ToCome(r, known) /\ b = 1 - Has(r, known)
      BY <1>q, <2>o DEF TrueNews
    <2>2. \A s \in Threads : Got(cl2[s], r) => cl2[s].what = ToCome(r, known) /\ b = 1 - Has(r, known)
      BY <1>q, <2>o DEF TrueNews
    <2>3. NoNews(r, q2, cl2) => b = Has(r, known)
      BY <1>1, <2>o DEF TrueNews
    <2> QED
      BY <2>1, <2>2, <2>3 DEF TrueNews
  <1> QED
    BY <1>2, <1>3, <1>4 DEF AgreeOn, Adds

\* The filter takes news in, from a thread or from the reply callback.
LEMMA NewsHeard ==
  ASSUME NEW r, NEW q, NEW q2, NEW w, NEW cl, NEW cl2, NEW known, NEW known2, NEW b, NEW what,
         AgreeOn(r, q, w, cl, known, b),
         ~NoNews(r, q, cl), NoNews(r, q2, cl2),
         what = ToCome(r, known), b = 1 - Has(r, known),
         r \in known2 <=> what = "AddMatch"
  PROVE  AgreeOn(r, q2, w, cl2, known2, b)
  <1>1. b = Has(r, known2)
    BY DEF Has, ToCome
  <1>2. OneNews(r, q2, cl2)
    BY DEF OneNews, NoNews
  <1>3. TrueNews(r, q2, cl2, known2, b)
    BY <1>1 DEF TrueNews, NoNews
  <1>4. \A k \in 1..Len(w) : ~ToAdd(w[k], r)
    BY DEF AgreeOn, Adds
  <1>5. r \notin known2 => ~(b > 0)
    BY <1>1 DEF Has
  <1> QED
    BY <1>2, <1>3, <1>4, <1>5 DEF AgreeOn, Adds, NoRemoves

\* A request goes out.
LEMMA RuleAsked ==
  ASSUME NEW r, NEW q, NEW w, NEW w2, NEW cl, NEW cl2, NEW known, NEW b, NEW m,
         AgreeOn(r, q, w, cl, known, b), Grows(w, w2, m), About(m, r),
         SameGot(r, cl, cl2), \A t \in Threads : ~Got(cl[t], r),
         m.what = "RemoveMatch" => r \in known,
         m.what = "AddMatch" =>
           /\ r \notin known
           /\ \A k \in 1..Len(w) : ~ToAdd(w[k], r)
           /\ \A k \in 1..Len(q) : ~ToAdd(q[k], r)
  PROVE  AgreeOn(r, q, w2, cl2, known, b)
  <1>w. /\ Len(w) \in Nat /\ Len(w2) \in Nat /\ Len(w2) = Len(w) + 1
        /\ \A i \in 1..Len(w2) : \/ i \in 1..Len(w) /\ w2[i] = w[i]
                                 \/ i = Len(w) + 1 /\ w2[i] = m
    BY Put DEF Grows
  <1>1. OneNews(r, q, cl2)
    BY DEF AgreeOn, OneNews, SameGot
  <1>2. NoNews(r, q, cl2) <=> NoNews(r, q, cl)
    BY DEF NoNews, SameGot
  <1>3. TrueNews(r, q, cl2, known, b)
    BY <1>2 DEF AgreeOn, TrueNews, SameGot
  <1>4. m.what = "AddMatch" => NoNews(r, q, cl)
    <2> SUFFICES ASSUME m.what = "AddMatch", NEW i \in 1..Len(q), Ok(q[i], r)
                 PROVE  FALSE
      BY DEF NoNews
    <2>1. q[i].what = "AddMatch"
      BY DEF AgreeOn, TrueNews, ToCome
    <2> QED
      BY <2>1 DEF Ok, About, ToAdd
  <1>5. Adds(r, q, w2, cl2, known)
    <2> SUFFICES ASSUME NEW k \in 1..Len(w2), ToAdd(w2[k], r)
                 PROVE  /\ r \notin known /\ NoNews(r, q, cl2)
                        /\ \A i \in 1..Len(w2) : i > k => ~About(w2[i], r)
      BY DEF Adds
    <2>1. CASE m.what = "AddMatch"
      <3>1. k = Len(w) + 1
        BY <1>w, <2>1
      <3> QED
        BY <1>w, <1>2, <1>4, <2>1, <3>1
    <2>2. CASE m.what = "RemoveMatch"
      <3>1. k \in 1..Len(w) /\ ToAdd(w[k], r)
        BY <1>w, <2>2 DEF ToAdd
      <3>2. r \notin known
        BY <3>1 DEF AgreeOn, Adds
      <3> QED
        BY <2>2, <3>2
    <2> QED
      BY <2>1, <2>2 DEF About, IsRule
  <1>6. NoRemoves(r, w2, known, b)
    <2> SUFFICES ASSUME r \notin known, b > 0, NEW k \in 1..Len(w2), ToRemove(w2[k], r)
                 PROVE  FALSE
      BY DEF NoRemoves
    <2>1. m.what = "AddMatch"
      BY DEF About, IsRule
    <2>2. k \in 1..Len(w) /\ ToRemove(w[k], r)
      BY <1>w, <2>1 DEF ToRemove
    <2> QED
      BY <2>2 DEF AgreeOn, NoRemoves
  <1> QED
    BY <1>1, <1>3, <1>5, <1>6 DEF AgreeOn

-----------------------------------------------------------------------------
(* The calls, their requests and their replies. *)

CallRecord == [what : Kinds, rule : Rules \cup {NoRule},
               at : {"none", "ready", "asked", "replied", "done"}, ok : BOOLEAN]

OpRecord == [at : {"idle", "lookup", "enter", "asks"}, slot : AllSlots \cup {NoRule}, on : BOOLEAN,
             to : Roots, todo : Seq(Kinds \X Rules), done : SUBSET AllSlots, failed : SUBSET AllSlots]

TableTypes ==
  /\ kind \in KindsUsed /\ cb_mutex \in Threads \cup {"free"}
  /\ table \subseteq Slots /\ root \in Roots /\ unique \in BOOLEAN
  /\ op \in [Threads -> OpRecord]
  /\ calls \in 0..MaxCalls[kind]

\* Where thread t is, with its call and the two mutexes.
Place(t, o, c, rules, cb) ==
  /\ rules = t <=> IsRule(c.what) /\ c.at \in {"asked", "replied"}
  /\ o.at = "idle" => c.at = "none" /\ cb # t
  /\ o.at = "lookup" => /\ c.at \in {"none", "asked", "replied"} /\ o.slot \in Slots
                        /\ c.at # "none" => c.what = "GetNameOwner"
  /\ o.at = "enter" => c.at = "none" /\ o.slot \in Slots
  /\ o.at = "asks" => /\ c.at \in {"ready", "asked", "replied", "done"}
                      /\ IsRule(c.what) /\ c.rule \in Rules
                      /\ kind # "filter" => cb = t /\ o.slot \in Slots
  /\ kind = "filter" => o.at \in {"idle", "asks"} /\ o.todo = <<>> /\ cb # t

Places == \A t \in Threads : Place(t, op[t], call[t], match_rule_mutex, cb_mutex)

\* Only a filter is used without waiting; a request that is late has made its
\* rule doubtful.
FitsWire(m, k, unsure) ==
  /\ m.by \in Threads \cup {"async"}
  /\ m.by = "async" => IsRule(m.what) /\ k = "filter"
  /\ IsRule(m.what) => m.rule \in Rules /\ (m.late => m.rule \in unsure)

FitsQueue(m, k) ==
  /\ m.to \in Threads \cup {"async", "filter"}
  /\ m.to = "filter" <=> m.what = "Signal"
  /\ m.to = "async" => IsRule(m.what) /\ k = "filter"
  /\ IsRule(m.what) => m.rule \in Rules

Traffic ==
  /\ \A i \in 1..Len(wire) : FitsWire(wire[i], kind, doubtful)
  /\ \A i \in 1..Len(queue) : FitsQueue(queue[i], kind)

\* A thread that waits for a reply gets one, and to what it asked for.
Awaited(m, t) == m.by = t /\ ~m.late

WaitsFor(c, m) == c.at = "asked" /\ c.what = m.what /\ c.rule = m.rule

OneReply(t, w, q, c) ==
  /\ \A i, j \in 1..Len(w) : Awaited(w[i], t) /\ Awaited(w[j], t) => i = j
  /\ \A i, j \in 1..Len(q) : q[i].to = t /\ q[j].to = t => i = j
  /\ \A i \in 1..Len(w), j \in 1..Len(q) : ~(Awaited(w[i], t) /\ q[j].to = t)
  /\ \A i \in 1..Len(w) : Awaited(w[i], t) => WaitsFor(c, w[i])
  /\ \A i \in 1..Len(q) : q[i].to = t => WaitsFor(c, q[i])

Replies == \A t \in Threads : OneReply(t, wire, queue, call[t])

Calls == RulesTypeOK /\ TableTypes /\ Places /\ Traffic /\ Replies

Agree == \A r \in Rules \ doubtful : AgreeOn(r, queue, wire, call, match_rules, bus[r])

-----------------------------------------------------------------------------
(* The table of callbacks and the operation that is under way on it.         *)

RootAfter(o, at) == IF o.slot = "added" /\ o.on THEN o.to ELSE at

Kept(slot, at, known, unsure) == RuleOf(slot, at) \in known \cup unsure

\* A callback that stays has its rule, and the request under way is not to remove it.
Safe(slot, c, at, known, unsure) ==
  \/ RuleOf(slot, at) \in unsure
  \/ /\ RuleOf(slot, at) \in known
     /\ ~(c.what = "RemoveMatch" /\ c.at # "done" /\ c.rule = RuleOf(slot, at))

\* A callback is added, or "added" moves to another root, or one is removed; o
\* is the operation, c its present request.
IsAdded(c, known) == c.what = "AddMatch" /\ (c.at = "done" /\ c.ok => c.rule \in known)

Adding(o, c, tbl, at, known) ==
  /\ IsAdded(c, known) /\ c.rule = RuleOf(o.slot, RootAfter(o, at))
  /\ o.todo = <<>>
  /\ o.done = tbl \cup {o.slot} /\ o.failed = tbl \ {o.slot}

Moving(o, c, tbl, at, known, unsure) ==
  /\ o.slot = "added" /\ o.slot \in tbl /\ o.on /\ o.to # at
  /\ IsAdded(c, known) /\ c.rule = o.to
  /\ o.todo = << <<"RemoveMatch", at>> >>
  /\ o.done = tbl /\ o.failed = tbl
  /\ Kept(o.slot, at, known, unsure)
  /\ \A s \in tbl \ {o.slot} : RuleOf(s, at) \in unsure \/ RuleOf(s, at) # at

Dropping(o, c, tbl, at, known, unsure) ==
  /\ c.what = "RemoveMatch" /\ RootAfter(o, at) = at
  /\ o.todo = <<>>
  /\ o.done = o.failed
  /\ \/ o.done = tbl \ {o.slot}
     \/ o.done = tbl /\ Safe(o.slot, c, at, known, unsure)

Carries(o, c, tbl, at, known, unsure) ==
  /\ \A s \in tbl \ {o.slot} : Safe(s, c, at, known, unsure)
  /\ \/ Adding(o, c, tbl, at, known)
     \/ Moving(o, c, tbl, at, known, unsure)
     \/ Dropping(o, c, tbl, at, known, unsure)

Tables ==
  kind # "filter" =>
    /\ \A t \in Threads : op[t].at = "asks" => Carries(op[t], call[t], table, root, match_rules, doubtful)
    /\ (\A t \in Threads : op[t].at # "asks") =>
         \A s \in table : Kept(s, root, match_rules, doubtful)

IInv == Calls /\ Agree /\ Tables

-----------------------------------------------------------------------------
(* What the steps do to calls, places and traffic. *)

LEMMA SlotsKnown == Slots \subseteq AllSlots
  BY DEF Slots, AllSlots

LEMMA CallSet ==
  ASSUME call \in [Threads -> CallRecord], NEW t \in Threads, NEW e \in CallRecord,
         call' = [call EXCEPT ![t] = e]
  PROVE  /\ call' \in [Threads -> CallRecord] /\ call'[t] = e
         /\ \A s \in Threads \ {t} : call'[s] = call[s]
  OBVIOUS

LEMMA OpSet ==
  ASSUME op \in [Threads -> OpRecord], NEW t \in Threads, NEW e \in OpRecord,
         op' = [op EXCEPT ![t] = e]
  PROVE  /\ op' \in [Threads -> OpRecord] /\ op'[t] = e
         /\ \A s \in Threads \ {t} : op'[s] = op[s]
  OBVIOUS

\* One thread changes its place.
LEMMA PlacesMoved ==
  ASSUME Places, NEW t \in Threads, kind' = kind,
         \A s \in Threads \ {t} : call'[s] = call[s] /\ op'[s] = op[s],
         \A s \in Threads \ {t} : match_rule_mutex' = s <=> match_rule_mutex = s,
         \A s \in Threads \ {t} : cb_mutex' = s <=> cb_mutex = s,
         Place(t, op'[t], call'[t], match_rule_mutex', cb_mutex')
  PROVE  Places'
  <1>1. Slots' = Slots
    BY DEF Slots
  <1>2. \A s \in Threads : Place(s, op'[s], call'[s], match_rule_mutex', cb_mutex')
    <2> SUFFICES ASSUME NEW s \in Threads, s # t
                 PROVE  Place(s, op'[s], call'[s], match_rule_mutex', cb_mutex')
      OBVIOUS
    <2>1. call'[s] = call[s] /\ op'[s] = op[s]
          /\ (match_rule_mutex' = s <=> match_rule_mutex = s) /\ (cb_mutex' = s <=> cb_mutex = s)
      OBVIOUS
    <2>2. Place(s, op[s], call[s], match_rule_mutex, cb_mutex)
      BY DEF Places
    <2> QED
      BY <2>1, <2>2 DEF Place
  <1> QED
    BY <1>1, <1>2 DEF Places, Place

\* No thread does.
LEMMA PlacesKept ==
  ASSUME Places, UNCHANGED <<kind, call, op, match_rule_mutex, cb_mutex>>
  PROVE  Places'
  <1>1. Slots' = Slots
    BY DEF Slots
  <1> QED
    BY <1>1 DEF Places, Place

LEMMA TableTypesKept ==
  ASSUME TableTypes, UNCHANGED <<kind, cb_mutex, table, root, unique, op, calls>>
  PROVE  TableTypes'
  BY DEF TableTypes, Slots

\* The lengths, and what may be taken for granted of each item.
LEMMA TrafficFacts ==
  ASSUME Calls
  PROVE  /\ Len(wire) \in Nat /\ Len(queue) \in Nat
         /\ wire \in Seq(Request) /\ queue \in Seq(Item)
         /\ \A i \in 1..Len(wire) : wire[i] \in Request /\ FitsWire(wire[i], kind, doubtful)
         /\ \A i \in 1..Len(queue) : queue[i] \in Item /\ FitsQueue(queue[i], kind)
         /\ \A t \in Threads : OneReply(t, wire, queue, call[t])
         /\ \A t \in Threads : Place(t, op[t], call[t], match_rule_mutex, cb_mutex)
         /\ call \in [Threads -> CallRecord]
  <1>1. wire \in Seq(Request) /\ queue \in Seq(Item) /\ call \in [Threads -> CallRecord]
    BY DEF Calls, RulesTypeOK, CallRecord
  <1>2. /\ Len(wire) \in Nat /\ Len(queue) \in Nat
        /\ \A i \in 1..Len(wire) : wire[i] \in Request
        /\ \A i \in 1..Len(queue) : queue[i] \in Item
    BY <1>1
  <1> QED
    BY <1>1, <1>2 DEF Calls, Traffic, Replies, Places

\* Where the items of wire and queue for one thread come from.
WireFrom(t, w, w2, d) ==
  \A i \in 1..Len(w2) : Awaited(w2[i], t) =>
    /\ i + d \in 1..Len(w) /\ Awaited(w[i + d], t)
    /\ w2[i].what = w[i + d].what /\ w2[i].rule = w[i + d].rule

QueueFrom(t, q, q2, d) ==
  \A i \in 1..Len(q2) : q2[i].to = t =>
    /\ i + d \in 1..Len(q) /\ q[i + d].to = t
    /\ q2[i].what = q[i + d].what /\ q2[i].rule = q[i + d].rule

LEMMA Carried ==
  ASSUME NEW t, NEW w, NEW w2, NEW q, NEW q2, NEW c, NEW c2, NEW dw \in 0..1, NEW dq \in 0..1,
         Len(w) \in Nat, Len(w2) \in Nat, Len(q) \in Nat, Len(q2) \in Nat,
         OneReply(t, w, q, c), WireFrom(t, w, w2, dw), QueueFrom(t, q, q2, dq),
         c.at = "asked" => c2 = c
  PROVE  OneReply(t, w2, q2, c2)
  <1>1. \A i, j \in 1..Len(w2) : Awaited(w2[i], t) /\ Awaited(w2[j], t) => i = j
    <2> SUFFICES ASSUME NEW i \in 1..Len(w2), NEW j \in 1..Len(w2), Awaited(w2[i], t), Awaited(w2[j], t)
                 PROVE  i = j
      OBVIOUS
    <2>1. i + dw = j + dw
      BY DEF OneReply, WireFrom
    <2> QED
      BY <2>1
  <1>2. \A i, j \in 1..Len(q2) : q2[i].to = t /\ q2[j].to = t => i = j
    <2> SUFFICES ASSUME NEW i \in 1..Len(q2), NEW j \in 1..Len(q2), q2[i].to = t, q2[j].to = t
                 PROVE  i = j
      OBVIOUS
    <2>1. i + dq = j + dq
      BY DEF OneReply, QueueFrom
    <2> QED
      BY <2>1
  <1>3. \A i \in 1..Len(w2), j \in 1..Len(q2) : ~(Awaited(w2[i], t) /\ q2[j].to = t)
    BY DEF OneReply, WireFrom, QueueFrom
  <1>4. \A i \in 1..Len(w2) : Awaited(w2[i], t) => WaitsFor(c2, w2[i])
    BY DEF OneReply, WireFrom, WaitsFor
  <1>5. \A i \in 1..Len(q2) : q2[i].to = t => WaitsFor(c2, q2[i])
    BY DEF OneReply, QueueFrom, WaitsFor
  <1> QED
    BY <1>1, <1>2, <1>3, <1>4, <1>5 DEF OneReply

LEMMA WireFromKept ==
  ASSUME NEW t, NEW w, Len(w) \in Nat
  PROVE  WireFrom(t, w, w, 0)
  <1>1. \A i \in 1..Len(w) : i + 0 = i
    OBVIOUS
  <1> QED
    BY <1>1 DEF WireFrom

LEMMA WireFromTaken ==
  ASSUME NEW t, NEW w, NEW w2, Shrinks(w, w2)
  PROVE  WireFrom(t, w, w2, 1)
  BY Taken DEF WireFrom

LEMMA WireFromPut ==
  ASSUME NEW t, NEW w, NEW w2, NEW m, Grows(w, w2, m), m.by # t
  PROVE  WireFrom(t, w, w2, 0)
  <1>1. \A i \in 1..Len(w2) : \/ i \in 1..Len(w) /\ w2[i] = w[i]
                              \/ i = Len(w) + 1 /\ w2[i] = m
    BY Put
  <1>2. \A i \in 1..Len(w) : i + 0 = i
    BY DEF Grows
  <1> QED
    BY <1>1, <1>2 DEF WireFrom, Awaited

LEMMA QueueFromKept ==
  ASSUME NEW t, NEW q, Len(q) \in Nat
  PROVE  QueueFrom(t, q, q, 0)
  <1>1. \A i \in 1..Len(q) : i + 0 = i
    OBVIOUS
  <1> QED
    BY <1>1 DEF QueueFrom

LEMMA QueueFromTaken ==
  ASSUME NEW t, NEW q, NEW q2, Shrinks(q, q2)
  PROVE  QueueFrom(t, q, q2, 1)
  BY Taken DEF QueueFrom

LEMMA QueueFromPut ==
  ASSUME NEW t, NEW q, NEW q2, NEW m, Grows(q, q2, m), m.to # t
  PROVE  QueueFrom(t, q, q2, 0)
  <1>1. \A i \in 1..Len(q2) : \/ i \in 1..Len(q) /\ q2[i] = q[i]
                              \/ i = Len(q) + 1 /\ q2[i] = m
    BY Put
  <1>2. \A i \in 1..Len(q) : i + 0 = i
    BY DEF Grows
  <1> QED
    BY <1>1, <1>2 DEF QueueFrom

\* A step of which wire and queue see nothing.
LEMMA TrafficKept ==
  ASSUME Calls, UNCHANGED <<wire, queue, kind>>, doubtful \subseteq doubtful',
         \A t \in Threads : call[t].at = "asked" => call'[t] = call[t]
  PROVE  Traffic' /\ Replies'
  <1>1. Traffic'
    BY TrafficFacts DEF Traffic, FitsWire
  <1>2. Replies'
    <2>1. \A t \in Threads : OneReply(t, wire, queue, call'[t])
      <3> TAKE t \in Threads
      <3>1. 0 \in 0..1 /\ Len(wire) \in Nat /\ Len(queue) \in Nat /\ OneReply(t, wire, queue, call[t])
        BY TrafficFacts
      <3>2. WireFrom(t, wire, wire, 0) /\ QueueFrom(t, queue, queue, 0)
        BY <3>1, WireFromKept, QueueFromKept
      <3>3. call[t].at = "asked" => call'[t] = call[t]
        OBVIOUS
      <3> QED
        BY <3>1, <3>2, <3>3, Carried
    <2> QED
      BY <2>1 DEF Replies
  <1> QED
    BY <1>1, <1>2

\* A request for which no thread waits is sent, or none; the queue keeps what
\* it has, loses its first item or gets one that no thread waits for.
LEMMA TrafficMoved ==
  ASSUME Calls, UNCHANGED <<call, kind>>, doubtful \subseteq doubtful',
         \/ UNCHANGED wire
         \/ \E m : Grows(wire, wire', m) /\ FitsWire(m, kind, doubtful') /\ m.by \notin Threads,
         \/ UNCHANGED queue
         \/ Shrinks(queue, queue')
         \/ \E m : Grows(queue, queue', m) /\ FitsQueue(m, kind) /\ m.to \notin Threads
  PROVE  Traffic' /\ Replies'
  <1>inv. /\ Len(wire) \in Nat /\ Len(queue) \in Nat
          /\ \A i \in 1..Len(wire) : FitsWire(wire[i], kind, doubtful)
          /\ \A i \in 1..Len(queue) : FitsQueue(queue[i], kind)
          /\ \A t \in Threads : OneReply(t, wire, queue, call[t])
    BY TrafficFacts
  <1>0. \A i \in 1..Len(wire) : FitsWire(wire[i], kind, doubtful')
    BY <1>inv DEF FitsWire
  <1>1. /\ Len(wire') \in Nat
        /\ \A i \in 1..Len(wire') : FitsWire(wire'[i], kind, doubtful')
        /\ \A t \in Threads : WireFrom(t, wire, wire', 0)
    <2>1. CASE UNCHANGED wire
      BY <1>inv, <1>0, <2>1, WireFromKept
    <2>2. CASE \E m : Grows(wire, wire', m) /\ FitsWire(m, kind, doubtful') /\ m.by \notin Threads
      <3>1. PICK m : Grows(wire, wire', m) /\ FitsWire(m, kind, doubtful') /\ m.by \notin Threads
        BY <2>2
      <3>2. /\ Len(wire') \in Nat
            /\ \A i \in 1..Len(wire') : \/ i \in 1..Len(wire) /\ wire'[i] = wire[i]
                                        \/ i = Len(wire) + 1 /\ wire'[i] = m
        BY <3>1, Put
      <3>3. \A t \in Threads : WireFrom(t, wire, wire', 0)
        BY <3>1, WireFromPut
      <3> QED
        BY <1>0, <3>1, <3>2, <3>3
    <2> QED
      BY <2>1, <2>2
  <1>2. /\ Len(queue') \in Nat
        /\ \A i \in 1..Len(queue') : FitsQueue(queue'[i], kind)
        /\ \E d \in 0..1 : \A t \in Threads : QueueFrom(t, queue, queue', d)
    <2>1. CASE UNCHANGED queue
      BY <1>inv, <2>1, QueueFromKept
    <2>2. CASE Shrinks(queue, queue')
      <3>1. /\ Len(queue') \in Nat
            /\ \A i \in 1..Len(queue') : i + 1 \in 1..Len(queue) /\ queue'[i] = queue[i + 1]
        BY <2>2, Taken
      <3>2. \A t \in Threads : QueueFrom(t, queue, queue', 1)
        BY <2>2, QueueFromTaken
      <3> QED
        BY <1>inv, <3>1, <3>2
    <2>3. CASE \E m : Grows(queue, queue', m) /\ FitsQueue(m, kind) /\ m.to \notin Threads
      <3>1. PICK m : Grows(queue, queue', m) /\ FitsQueue(m, kind) /\ m.to \notin Threads
        BY <2>3
      <3>2. /\ Len(queue') \in Nat
            /\ \A i \in 1..Len(queue') : \/ i \in 1..Len(queue) /\ queue'[i] = queue[i]
                                         \/ i = Len(queue) + 1 /\ queue'[i] = m
        BY <3>1, Put
      <3>3. \A t \in Threads : QueueFrom(t, queue, queue', 0)
        BY <3>1, QueueFromPut
      <3> QED
        BY <1>inv, <3>1, <3>2, <3>3
    <2> QED
      BY <2>1, <2>2, <2>3
  <1>3. Traffic'
    BY <1>1, <1>2 DEF Traffic
  <1>4. Replies'
    <2>1. PICK d \in 0..1 : \A t \in Threads : QueueFrom(t, queue, queue', d)
      BY <1>2
    <2>2. 0 \in 0..1
      OBVIOUS
    <2>3. \A t \in Threads : OneReply(t, wire', queue', call[t])
      BY <1>inv, <1>1, <1>2, <2>1, <2>2, Carried
    <2> QED
      BY <2>3 DEF Replies
  <1> QED
    BY <1>3, <1>4

\* A thread sends a request and waits for the reply.
LEMMA TrafficAsked ==
  ASSUME Calls, UNCHANGED <<queue, kind>>, doubtful \subseteq doubtful',
         NEW t \in Threads, NEW m, Grows(wire, wire', m), FitsWire(m, kind, doubtful), m.by = t,
         call[t].at # "asked", WaitsFor(call'[t], m),
         \A s \in Threads \ {t} : call'[s] = call[s]
  PROVE  Traffic' /\ Replies'
  <1>inv. /\ Len(wire) \in Nat /\ Len(queue) \in Nat
          /\ \A i \in 1..Len(wire) : FitsWire(wire[i], kind, doubtful)
          /\ \A i \in 1..Len(queue) : FitsQueue(queue[i], kind)
          /\ \A s \in Threads : OneReply(s, wire, queue, call[s])
    BY TrafficFacts
  <1>w. /\ Len(wire') \in Nat
        /\ \A i \in 1..Len(wire') : \/ i \in 1..Len(wire) /\ wire'[i] = wire[i]
                                    \/ i = Len(wire) + 1 /\ wire'[i] = m
    BY Put
  <1>1. Traffic'
    <2>1. \A i \in 1..Len(wire') : FitsWire(wire'[i], kind, doubtful)
      BY <1>inv, <1>w
    <2>2. \A i \in 1..Len(wire') : FitsWire(wire'[i], kind, doubtful')
      BY <2>1 DEF FitsWire
    <2> QED
      BY <1>inv, <2>2 DEF Traffic
  <1>2. \A s \in Threads : OneReply(s, wire', queue, call'[s])
    <2> TAKE s \in Threads
    <2>1. CASE s = t
      <3>1. /\ \A i \in 1..Len(wire) : ~Awaited(wire[i], t)
            /\ \A i \in 1..Len(queue) : queue[i].to # t
        BY <1>inv DEF OneReply, WaitsFor
      <3>2. \A i \in 1..Len(wire') : Awaited(wire'[i], t) => i = Len(wire) + 1 /\ wire'[i] = m
        BY <1>w, <3>1
      <3> QED
        BY <2>1, <3>1, <3>2 DEF OneReply
    <2>2. CASE s # t
      <3>1. 0 \in 0..1 /\ call'[s] = call[s] /\ OneReply(s, wire, queue, call[s])
        BY <1>inv, <2>2
      <3>2. WireFrom(s, wire, wire', 0) /\ QueueFrom(s, queue, queue, 0)
        BY <1>inv, <2>2, WireFromPut, QueueFromKept
      <3> QED
        BY <1>inv, <1>w, <3>1, <3>2, Carried
    <2> QED
      BY <2>1, <2>2
  <1> QED
    BY <1>1, <1>2 DEF Replies

-----------------------------------------------------------------------------
(* The steps of the bus *)

LEMMA BusHandlesFacts ==
  ASSUME Calls, BusHandles
  PROVE  \E ok \in BOOLEAN :
           /\ wire[1] \in Request
           /\ wire[1].what = "RemoveMatch" => ok = (bus[wire[1].rule] > 0)
           /\ bus' = CASE ok /\ wire[1].what = "AddMatch" -> [bus EXCEPT ![wire[1].rule] = @ + 1]
                       [] ok /\ wire[1].what = "RemoveMatch" -> [bus EXCEPT ![wire[1].rule] = @ - 1]
                       [] OTHER -> bus
           /\ doubtful' = doubtful
           /\ wire' \in Seq(Request) /\ Shrinks(wire, wire')
           /\ queue' \in Seq(Item)
           /\ \/ queue' = queue /\ wire[1].late
              \/ Grows(queue, queue', Reply(wire[1], ok)) /\ ~wire[1].late
           /\ FitsWire(wire[1], kind, doubtful)
           /\ UNCHANGED <<match_rules, match_rule_mutex, call>>
  <1>types. wire \in Seq(Request) /\ queue \in Seq(Item)
    BY TrafficFacts
  <1> DEFINE r == wire[1]
  <1>1. PICK ok \in BOOLEAN :
           /\ r.what = "RemoveMatch" => ok = (bus[r.rule] > 0)
           /\ bus' = CASE ok /\ r.what = "AddMatch" -> [bus EXCEPT ![r.rule] = @ + 1]
                       [] ok /\ r.what = "RemoveMatch" -> [bus EXCEPT ![r.rule] = @ - 1]
                       [] OTHER -> bus
           /\ queue' = Answered(r, ok)
           /\ doubtful' = IF r.by = "nobody" /\ ~ok THEN doubtful \cup {r.rule} ELSE doubtful
    BY <1>types, TailFacts DEF BusHandles
  <1>2. wire # <<>> /\ wire' = Tail(wire) /\ UNCHANGED <<match_rules, match_rule_mutex, call>>
    BY DEF BusHandles
  <1>3. r \in Request /\ wire' \in Seq(Request) /\ Shrinks(wire, wire')
    BY <1>types, <1>2, TailFacts DEF Shrinks
  <1>4. FitsWire(r, kind, doubtful)
    BY <1>3, Taken, TrafficFacts
  <1>5. r.by # "nobody"
    BY <1>4, MatchRulesAssumption DEF FitsWire
  <1> HIDE DEF r
  <1>6. CASE r.late
    <2>1. queue' = queue
      BY <1>1, <1>6 DEF Answered
    <2> QED
      BY <1>types, <1>1, <1>2, <1>3, <1>4, <1>5, <1>6, <2>1 DEF r
  <1>7. CASE ~r.late
    <2>1. queue' = Append(queue, Reply(r, ok))
      BY <1>1, <1>5, <1>7 DEF Answered
    <2>2. queue' \in Seq(Item) /\ Grows(queue, queue', Reply(r, ok))
      BY <1>types, <1>3, <2>1, ReplyType, AppendFacts DEF Grows
    <2> QED
      BY <1>1, <1>2, <1>3, <1>4, <1>5, <1>7, <2>2 DEF r
  <1> QED
    BY <1>6, <1>7

\* A reply fits if its request did, and is for the same thread.
LEMMA ReplyFits ==
  ASSUME NEW m \in Request, NEW ok \in BOOLEAN, FitsWire(m, kind, doubtful)
  PROVE  /\ FitsQueue(Reply(m, ok), kind)
         /\ Reply(m, ok).to = m.by /\ Reply(m, ok).what = m.what
         /\ Reply(m, ok).rule = m.rule /\ Reply(m, ok).ok = ok
  <1> DEFINE e == Reply(m, ok)
  <1>1. e.to = m.by /\ e.what = m.what /\ e.rule = m.rule /\ e.ok = ok
    BY DEF Reply
  <1>2. m.what # "Signal" /\ m.by # "filter"
    BY MatchRulesAssumption DEF Request, Kinds, FitsWire
  <1> HIDE DEF e
  <1>3. FitsQueue(e, kind)
    BY <1>1, <1>2 DEF FitsWire, FitsQueue
  <1> QED
    BY <1>1, <1>3 DEF e

LEMMA BusHandlesCalls ==
  ASSUME Calls, BusHandles, UNCHANGED tableVars
  PROVE  Calls'
  <1>inv. RulesTypeOK /\ TableTypes /\ Places
    BY DEF Calls
  <1>traffic. /\ Len(wire) \in Nat /\ Len(queue) \in Nat
              /\ \A i \in 1..Len(wire) : FitsWire(wire[i], kind, doubtful)
              /\ \A i \in 1..Len(queue) : FitsQueue(queue[i], kind)
              /\ \A t \in Threads : OneReply(t, wire, queue, call[t])
    BY TrafficFacts
  <1> DEFINE r == wire[1]
  <1>1. PICK ok \in BOOLEAN :
           /\ r \in Request
           /\ r.what = "RemoveMatch" => ok = (bus[r.rule] > 0)
           /\ bus' = CASE ok /\ r.what = "AddMatch" -> [bus EXCEPT ![r.rule] = @ + 1]
                       [] ok /\ r.what = "RemoveMatch" -> [bus EXCEPT ![r.rule] = @ - 1]
                       [] OTHER -> bus
           /\ doubtful' = doubtful
           /\ wire' \in Seq(Request) /\ Shrinks(wire, wire')
           /\ queue' \in Seq(Item)
           /\ \/ queue' = queue /\ r.late
              \/ Grows(queue, queue', Reply(r, ok)) /\ ~r.late
           /\ FitsWire(r, kind, doubtful)
           /\ UNCHANGED <<match_rules, match_rule_mutex, call>>
    BY BusHandlesFacts
  <1>2. /\ Len(wire') \in Nat /\ 1 \in 1..Len(wire)
        /\ \A i \in 1..Len(wire') : i + 1 \in 1..Len(wire) /\ wire'[i] = wire[i + 1]
    BY <1>1, Taken
  <1>3. \A t \in Threads : Awaited(r, t) =>
           /\ \A i \in 1..Len(wire') : ~Awaited(wire'[i], t)
           /\ \A i \in 1..Len(queue) : queue[i].to # t
           /\ WaitsFor(call[t], r)
    <2> SUFFICES ASSUME NEW t \in Threads, Awaited(r, t)
                 PROVE  /\ \A i \in 1..Len(wire') : ~Awaited(wire'[i], t)
                        /\ \A i \in 1..Len(queue) : queue[i].to # t
                        /\ WaitsFor(call[t], r)
      OBVIOUS
    <2>1. OneReply(t, wire, queue, call[t])
      BY <1>traffic
    <2>2. \A i \in 1..Len(wire') : ~Awaited(wire'[i], t)
      BY <1>traffic, <1>2, <2>1 DEF OneReply
    <2> QED
      BY <1>2, <2>1, <2>2 DEF OneReply
  <1> HIDE DEF r
  <1>kind. kind' = kind /\ UNCHANGED <<kind, cb_mutex, table, root, unique, op, calls>>
    BY DEF tableVars
  <1>4. bus' \in [Rules -> Nat]
    <2>1. CASE ok /\ r.what = "AddMatch"
      BY <1>inv, <1>1, <2>1 DEF RulesTypeOK, FitsWire, IsRule
    <2>2. CASE ok /\ r.what = "RemoveMatch"
      <3>1. bus' = [bus EXCEPT ![r.rule] = bus[r.rule] - 1] /\ bus[r.rule] > 0 /\ r.rule \in Rules
        BY <1>1, <2>2 DEF FitsWire, IsRule
      <3>2. bus[r.rule] - 1 \in Nat
        BY <1>inv, <3>1 DEF RulesTypeOK
      <3> QED
        BY <1>inv, <3>1, <3>2 DEF RulesTypeOK
    <2>3. CASE ~(ok /\ r.what = "AddMatch") /\ ~(ok /\ r.what = "RemoveMatch")
      BY <1>inv, <1>1, <2>3 DEF RulesTypeOK
    <2> QED
      BY <2>1, <2>2, <2>3
  <1>5. RulesTypeOK'
    BY <1>inv, <1>1, <1>4 DEF RulesTypeOK
  <1>6. TableTypes' /\ Places'
    BY <1>inv, <1>1, <1>kind, TableTypesKept, PlacesKept
  <1>7. Traffic'
    <2>1. \A i \in 1..Len(wire') : FitsWire(wire'[i], kind, doubtful)
      BY <1>traffic, <1>2
    <2>2. CASE queue' = queue
      BY <1>traffic, <1>1, <1>kind, <2>1, <2>2 DEF Traffic
    <2>3. CASE Grows(queue, queue', Reply(r, ok))
      <3>1. FitsQueue(Reply(r, ok), kind)
        BY <1>1, ReplyFits
      <3>2. \A i \in 1..Len(queue') : \/ i \in 1..Len(queue) /\ queue'[i] = queue[i]
                                      \/ i = Len(queue) + 1 /\ queue'[i] = Reply(r, ok)
        BY <2>3, Put
      <3>3. \A i \in 1..Len(queue') : FitsQueue(queue'[i], kind)
        BY <1>traffic, <3>1, <3>2
      <3> QED
        BY <1>1, <1>kind, <2>1, <3>3 DEF Traffic
    <2> QED
      BY <1>1, <2>2, <2>3
  <1>8. \A t \in Threads : OneReply(t, wire', queue', call[t])
    <2> TAKE t \in Threads
    <2>1. OneReply(t, wire, queue, call[t]) /\ WireFrom(t, wire, wire', 1) /\ 0 \in 0..1 /\ 1 \in 0..1
      BY <1>traffic, <1>1, WireFromTaken
    <2>2. CASE queue' = queue
      BY <1>traffic, <1>2, <2>1, <2>2, QueueFromKept, Carried
    <2>3. CASE Grows(queue, queue', Reply(r, ok)) /\ ~r.late
      <3> DEFINE e == Reply(r, ok)
      <3>1. e.to = r.by /\ e.what = r.what /\ e.rule = r.rule
        BY <1>1, ReplyFits
      <3> HIDE DEF e
      <3>2. /\ Len(queue') \in Nat
            /\ \A i \in 1..Len(queue') : \/ i \in 1..Len(queue) /\ queue'[i] = queue[i]
                                         \/ i = Len(queue) + 1 /\ queue'[i] = e
        BY <2>3, Put DEF e
      <3>3. CASE r.by = t
        <4>1. Awaited(r, t)
          BY <2>3, <3>3 DEF Awaited
        <4>2. /\ \A i \in 1..Len(wire') : ~Awaited(wire'[i], t)
              /\ \A i \in 1..Len(queue') : queue'[i].to = t => i = Len(queue) + 1 /\ queue'[i] = e
              /\ WaitsFor(call[t], e)
          BY <1>3, <3>1, <3>2, <4>1 DEF WaitsFor
        <4> QED
          BY <4>2 DEF OneReply
      <3>4. CASE r.by # t
        <4>1. QueueFrom(t, queue, queue', 0)
          BY <2>3, <3>1, <3>4, QueueFromPut DEF e
        <4> QED
          BY <1>traffic, <1>2, <2>1, <3>2, <4>1, Carried
      <3> QED
        BY <3>3, <3>4
    <2> QED
      BY <1>1, <2>2, <2>3
  <1>9. Replies'
    BY <1>1, <1>8 DEF Replies
  <1> QED
    BY <1>5, <1>6, <1>7, <1>9 DEF Calls

LEMMA BusHandlesAgree ==
  ASSUME Calls, Agree, BusHandles
  PROVE  Agree'
  <1> DEFINE m == wire[1]
  <1>traffic. Len(wire) \in Nat /\ Len(queue) \in Nat /\ bus \in [Rules -> Nat]
    BY TrafficFacts DEF Calls, RulesTypeOK
  <1>1. PICK ok \in BOOLEAN :
           /\ m \in Request
           /\ m.what = "RemoveMatch" => ok = (bus[m.rule] > 0)
           /\ bus' = CASE ok /\ m.what = "AddMatch" -> [bus EXCEPT ![m.rule] = @ + 1]
                       [] ok /\ m.what = "RemoveMatch" -> [bus EXCEPT ![m.rule] = @ - 1]
                       [] OTHER -> bus
           /\ doubtful' = doubtful
           /\ wire' \in Seq(Request) /\ Shrinks(wire, wire')
           /\ queue' \in Seq(Item)
           /\ \/ queue' = queue /\ m.late
              \/ Grows(queue, queue', Reply(m, ok)) /\ ~m.late
           /\ FitsWire(m, kind, doubtful)
           /\ UNCHANGED <<match_rules, match_rule_mutex, call>>
    BY BusHandlesFacts
  <1> HIDE DEF m
  <1> DEFINE e == Reply(m, ok)
  <1>2. e.what = m.what /\ e.rule = m.rule /\ e.ok = ok
    BY <1>1, ReplyFits
  <1> HIDE DEF e
  <1>3. \/ queue' = queue /\ m.late
        \/ Grows(queue, queue', e) /\ ~m.late
    BY <1>1 DEF e
  <1>4. Len(wire') \in Nat /\ Len(queue') \in Nat
    BY <1>1, <1>3, <1>traffic, Taken, Put
  <1> SUFFICES ASSUME NEW r \in Rules \ doubtful
               PROVE  AgreeOn(r, queue', wire', call, match_rules, bus'[r])
    BY <1>1 DEF Agree
  <1>5. AgreeOn(r, queue, wire, call, match_rules, bus[r])
    BY DEF Agree
  <1>6. CASE About(m, r) /\ ok
    <2>1. ~m.late /\ Grows(queue, queue', e)
      BY <1>1, <1>3, <1>6 DEF About, FitsWire
    <2>2. Ok(e, r)
      BY <1>2, <1>6 DEF Ok, About
    <2>3. /\ m.what = "AddMatch" => bus'[r] = bus[r] + 1
          /\ m.what = "RemoveMatch" => bus[r] > 0 /\ bus'[r] = bus[r] - 1
      <3>1. m.rule = r /\ IsRule(m.what)
        BY <1>6 DEF About
      <3>2. CASE m.what = "AddMatch"
        BY <1>1, <1>6, <1>traffic, <3>1, <3>2
      <3>3. CASE m.what = "RemoveMatch"
        BY <1>1, <1>6, <1>traffic, <3>1, <3>3
      <3> QED
        BY <3>1, <3>2, <3>3 DEF IsRule
    <2>4. bus[r] \in Nat
      BY <1>traffic
    <2>5. Shrinks(wire, wire') /\ About(wire[1], r) /\ e.what = wire[1].what
      BY <1>1, <1>2, <1>6 DEF m
    <2>6. /\ e.what = "AddMatch" => bus'[r] = bus[r] + 1
          /\ e.what = "RemoveMatch" => bus[r] > 0 /\ bus'[r] = bus[r] - 1
      BY <1>2, <2>3
    <2> QED
      BY <1>5, <2>1, <2>2, <2>4, <2>5, <2>6, NewsSent
  <1>7. CASE ~(About(m, r) /\ ok)
    <2>1. bus'[r] = bus[r]
      <3>1. CASE ok /\ IsRule(m.what)
        <4>1. m.rule # r /\ m.rule \in Rules
          BY <1>1, <1>7, <3>1 DEF About, FitsWire
        <4> QED
          BY <1>1, <1>traffic, <3>1, <4>1 DEF IsRule
      <3>2. CASE ~(ok /\ IsRule(m.what))
        BY <1>1, <3>2 DEF IsRule
      <3> QED
        BY <3>1, <3>2
    <2>2. ~Ok(e, r)
      BY <1>2, <1>7 DEF Ok, About
    <2>3. SameNews(r, queue, queue', 0)
      BY <1>3, <1>traffic, <2>2, SameNewsPut, SameNewsKept
    <2>4. NoneAsked(r, wire, wire', 1)
      BY <1>1, NoneAskedTaken
    <2>5. SameGot(r, call, call) /\ 0 \in 0..1 /\ 1 \in 0..1
      BY DEF SameGot
    <2>6. AgreeOn(r, queue', wire', call, match_rules, bus[r])
      BY <1>4, <1>5, <1>traffic, <2>3, <2>4, <2>5, AgreeKept
    <2> QED
      BY <2>1, <2>6
  <1> QED
    BY <1>6, <1>7

LEMMA TimesOutFacts ==
  ASSUME Calls, TimesOut
  PROVE  \E k \in 1..Len(wire) :
           /\ wire[k] \in Request /\ ~wire[k].late /\ FitsWire(wire[k], kind, doubtful)
           /\ wire' \in Seq(Request) /\ Len(wire') = Len(wire)
           /\ \A i \in 1..Len(wire) :
                /\ wire'[i].by = wire[i].by /\ wire'[i].what = wire[i].what
                /\ wire'[i].rule = wire[i].rule
                /\ wire'[i].late = (wire[i].late \/ i = k)
           /\ queue' \in Seq(Item) /\ Grows(queue, queue', Reply(wire[k], FALSE))
           /\ doubtful' = IF wire[k].what = "GetNameOwner" THEN doubtful ELSE doubtful \cup {wire[k].rule}
           /\ UNCHANGED <<match_rules, match_rule_mutex, call, bus>>
  <1>types. wire \in Seq(Request) /\ queue \in Seq(Item)
    BY TrafficFacts
  <1>1. PICK k \in DOMAIN wire :
           /\ ~wire[k].late /\ wire[k].by # "nobody"
           /\ wire' = [wire EXCEPT ![k].late = TRUE]
           /\ queue' = Append(queue, Reply(wire[k], FALSE))
           /\ doubtful' = IF wire[k].what = "GetNameOwner" THEN doubtful ELSE doubtful \cup {wire[k].rule}
    BY DEF TimesOut
  <1>2. k \in 1..Len(wire) /\ Len(wire) \in Nat /\ wire \in [1..Len(wire) -> Request]
    BY <1>types
  <1> DEFINE e == [wire[k] EXCEPT !.late = TRUE]
  <1>3. e \in Request /\ wire' = [wire EXCEPT ![k] = e]
    BY <1>1, <1>2 DEF Request
  <1>4. wire' \in [1..Len(wire) -> Request] /\ \A i \in 1..Len(wire) : wire'[i] = IF i = k THEN e ELSE wire[i]
    <2> HIDE DEF e
    <2> QED
      BY <1>2, <1>3
  <1>5. \A i \in 1..Len(wire) :
           /\ wire'[i].by = wire[i].by /\ wire'[i].what = wire[i].what
           /\ wire'[i].rule = wire[i].rule
           /\ wire'[i].late = (wire[i].late \/ i = k)
    <2> SUFFICES ASSUME NEW i \in 1..Len(wire)
                 PROVE  /\ wire'[i].by = wire[i].by /\ wire'[i].what = wire[i].what
                        /\ wire'[i].rule = wire[i].rule
                        /\ wire'[i].late = (wire[i].late \/ i = k)
      OBVIOUS
    <2>1. CASE i = k
      BY <1>2, <1>4, <2>1 DEF Request
    <2>2. CASE i # k
      <3>1. wire'[i] = wire[i] /\ wire[i].late \in BOOLEAN
        BY <1>2, <1>4, <2>2 DEF Request
      <3> QED
        BY <2>2, <3>1
    <2> QED
      BY <2>1, <2>2
  <1>6. wire' \in Seq(Request) /\ Len(wire') = Len(wire)
    BY <1>2, <1>4
  <1>7. queue' \in Seq(Item) /\ Grows(queue, queue', Reply(wire[k], FALSE))
    <2> DEFINE reply == Reply(wire[k], FALSE)
    <2>1. reply \in Item
      BY <1>2, ReplyType
    <2>2. queue' = Append(queue, reply)
      BY <1>1
    <2> HIDE DEF reply
    <2>3. queue' \in Seq(Item) /\ Grows(queue, queue', reply)
      BY <1>types, <2>1, <2>2, AppendFacts DEF Grows
    <2> QED
      BY <2>3 DEF reply
  <1>8. wire[k] \in Request /\ FitsWire(wire[k], kind, doubtful)
    BY <1>2, TrafficFacts
  <1>9. UNCHANGED <<match_rules, match_rule_mutex, call, bus>>
    BY DEF TimesOut
  <1> QED
    BY <1>1, <1>2, <1>5, <1>6, <1>7, <1>8, <1>9

LEMMA TimesOutInv ==
  ASSUME Calls, Agree, TimesOut, UNCHANGED tableVars
  PROVE  Calls' /\ Agree'
  <1>inv. RulesTypeOK /\ TableTypes /\ Places
    BY DEF Calls
  <1>traffic. /\ Len(wire) \in Nat /\ Len(queue) \in Nat
              /\ \A i \in 1..Len(wire) : FitsWire(wire[i], kind, doubtful)
              /\ \A i \in 1..Len(queue) : FitsQueue(queue[i], kind)
              /\ \A t \in Threads : OneReply(t, wire, queue, call[t])
    BY TrafficFacts
  <1>1. PICK k \in 1..Len(wire) :
           /\ wire[k] \in Request /\ ~wire[k].late /\ FitsWire(wire[k], kind, doubtful)
           /\ wire' \in Seq(Request) /\ Len(wire') = Len(wire)
           /\ \A i \in 1..Len(wire) :
                /\ wire'[i].by = wire[i].by /\ wire'[i].what = wire[i].what
                /\ wire'[i].rule = wire[i].rule
                /\ wire'[i].late = (wire[i].late \/ i = k)
           /\ queue' \in Seq(Item) /\ Grows(queue, queue', Reply(wire[k], FALSE))
           /\ doubtful' = IF wire[k].what = "GetNameOwner" THEN doubtful ELSE doubtful \cup {wire[k].rule}
           /\ UNCHANGED <<match_rules, match_rule_mutex, call, bus>>
    BY TimesOutFacts
  <1> DEFINE m == wire[k]
             e == Reply(m, FALSE)
  <1>2. e.to = m.by /\ e.what = m.what /\ e.rule = m.rule /\ ~e.ok /\ FitsQueue(e, kind)
    <2>1. e.to = m.by /\ e.what = m.what /\ e.rule = m.rule /\ FitsQueue(e, kind)
      BY <1>1, ReplyFits
    <2>2. ~e.ok
      BY DEF Reply
    <2> QED
      BY <2>1, <2>2
  <1>3. Grows(queue, queue', e) /\ ~m.late /\ FitsWire(m, kind, doubtful)
    BY <1>1
  <1>4. doubtful' = IF m.what = "GetNameOwner" THEN doubtful ELSE doubtful \cup {m.rule}
    BY <1>1
  <1>5. IsRule(m.what) <=> m.what # "GetNameOwner"
    BY <1>1 DEF Request, Kinds, IsRule
  <1>6. \A i \in 1..Len(wire') : i \in 1..Len(wire) /\ i + 0 = i
    BY <1>1, <1>traffic
  <1> HIDE DEF e
  <1>7. /\ Len(queue') \in Nat
        /\ \A i \in 1..Len(queue') : \/ i \in 1..Len(queue) /\ queue'[i] = queue[i]
                                     \/ i = Len(queue) + 1 /\ queue'[i] = e
    BY <1>3, Put
  <1>8. doubtful \subseteq doubtful' /\ doubtful' \subseteq Rules
    BY <1>inv, <1>3, <1>4, <1>5 DEF RulesTypeOK, FitsWire
  <1>kind. kind' = kind /\ UNCHANGED <<kind, cb_mutex, table, root, unique, op, calls>>
    BY DEF tableVars
  <1>9. RulesTypeOK'
    BY <1>inv, <1>1, <1>8 DEF RulesTypeOK
  <1>10. TableTypes' /\ Places'
    BY <1>inv, <1>1, <1>kind, TableTypesKept, PlacesKept
  <1>11. Traffic'
    <2>1. \A i \in 1..Len(wire') : FitsWire(wire'[i], kind, doubtful')
      <3> SUFFICES ASSUME NEW i \in 1..Len(wire)
                   PROVE  FitsWire(wire'[i], kind, doubtful')
        BY <1>6
      <3>1. FitsWire(wire[i], kind, doubtful)
        BY <1>traffic
      <3>2. /\ wire'[i].by = wire[i].by /\ wire'[i].what = wire[i].what
            /\ wire'[i].rule = wire[i].rule /\ wire'[i].late = (wire[i].late \/ i = k)
        BY <1>1
      <3>3. CASE i = k
        <4>1. IsRule(wire[i].what) => wire[i].rule \in doubtful'
          BY <1>4, <1>5, <3>3
        <4> QED
          BY <3>1, <3>2, <4>1 DEF FitsWire
      <3>4. CASE i # k
        <4>1. wire'[i].late => wire[i].late
          BY <3>2, <3>4, Zenon
        <4> QED
          BY <1>8, <3>1, <3>2, <4>1 DEF FitsWire
      <3> QED
        BY <3>3, <3>4
    <2>2. \A i \in 1..Len(queue') : FitsQueue(queue'[i], kind)
      BY <1>traffic, <1>2, <1>7
    <2> QED
      BY <1>kind, <2>1, <2>2 DEF Traffic
  <1>12. \A t \in Threads : OneReply(t, wire', queue', call[t])
    <2> TAKE t \in Threads
    <2>o. OneReply(t, wire, queue, call[t])
      BY <1>traffic
    <2>1. \A i \in 1..Len(wire') : Awaited(wire'[i], t) =>
             /\ i \in 1..Len(wire) /\ i + 0 = i /\ Awaited(wire[i], t) /\ i # k
             /\ wire'[i].what = wire[i].what /\ wire'[i].rule = wire[i].rule
      <3> SUFFICES ASSUME NEW i \in 1..Len(wire), wire'[i].by = t, ~wire'[i].late
                   PROVE  /\ i + 0 = i /\ wire[i].by = t /\ ~wire[i].late /\ i # k
                          /\ wire'[i].what = wire[i].what /\ wire'[i].rule = wire[i].rule
        BY <1>6 DEF Awaited
      <3>1. wire'[i].by = wire[i].by /\ wire'[i].late = (wire[i].late \/ i = k) /\ i + 0 = i
        BY <1>1, <1>traffic
      <3>2. i # k
        BY <3>1, Zenon
      <3>3. ~wire[i].late
        BY <3>1, Zenon
      <3> QED
        BY <1>1, <3>1, <3>2, <3>3
    <2>2. CASE m.by = t
      <3>1. Awaited(m, t)
        BY <1>3, <2>2 DEF Awaited
      <3>2. /\ \A i \in 1..Len(wire) : Awaited(wire[i], t) => i = k
            /\ \A i \in 1..Len(queue) : queue[i].to # t
            /\ WaitsFor(call[t], m)
        BY <2>o, <3>1 DEF OneReply
      <3>3. /\ \A i \in 1..Len(queue') : queue'[i].to = t => i = Len(queue) + 1 /\ queue'[i] = e
            /\ \A i \in 1..Len(wire') : ~Awaited(wire'[i], t)
        BY <1>7, <2>1, <3>2
      <3>4. WaitsFor(call[t], e)
        BY <1>2, <3>2 DEF WaitsFor
      <3> QED
        BY <3>3, <3>4 DEF OneReply
    <2>3. CASE m.by # t
      <3>1. QueueFrom(t, queue, queue', 0)
        BY <1>2, <1>3, <2>3, QueueFromPut
      <3>2. WireFrom(t, wire, wire', 0)
        BY <2>1 DEF WireFrom
      <3>3. 0 \in 0..1 /\ Len(wire') \in Nat
        BY <1>1, <1>traffic
      <3> QED
        BY <1>traffic, <1>7, <2>o, <3>1, <3>2, <3>3, Carried
    <2> QED
      BY <2>2, <2>3
  <1>13. Replies'
    BY <1>1, <1>12 DEF Replies
  <1>14. Agree'
    <2> SUFFICES ASSUME NEW r \in Rules \ doubtful'
                 PROVE  AgreeOn(r, queue', wire', call, match_rules, bus[r])
      BY <1>1 DEF Agree
    <2>1. AgreeOn(r, queue, wire, call, match_rules, bus[r])
      BY <1>8 DEF Agree
    <2>2. SameNews(r, queue, queue', 0)
      BY <1>2, <1>3, SameNewsPut DEF Ok
    <2>3. NoneAsked(r, wire, wire', 0)
      <3>1. \A i \in 1..Len(wire') : /\ i + 0 \in 1..Len(wire) /\ wire'[i].what = wire[i + 0].what
                                     /\ wire'[i].rule = wire[i + 0].rule
        BY <1>1, <1>6
      <3> QED
        BY <3>1 DEF NoneAsked, About
    <2>4. SameGot(r, call, call) /\ 0 \in 0..1 /\ Len(wire') \in Nat
      BY <1>1, <1>traffic DEF SameGot
    <2> QED
      BY <1>7, <1>traffic, <2>1, <2>2, <2>3, <2>4, AgreeKept
  <1> QED
    BY <1>9, <1>10, <1>11, <1>13, <1>14 DEF Calls

LEMMA SignalInv ==
  ASSUME Calls, Agree, NEW rule \in Rules, Signal(rule)
  PROVE  Calls' /\ Agree'
  <1> DEFINE m == [to |-> "filter", what |-> "Signal", rule |-> rule, of |-> 0, ok |-> TRUE]
  <1>1. /\ queue' = Append(queue, m)
        /\ UNCHANGED <<match_rules, match_rule_mutex, call, bus, wire, doubtful>>
        /\ UNCHANGED <<kind, cb_mutex, table, root, unique, op, calls>>
    BY DEF Signal, BusSignals, tableVars
  <1>2. m \in Item /\ m.what = "Signal" /\ m.to = "filter"
    BY SignalType
  <1> HIDE DEF m
  <1>3. queue' \in Seq(Item) /\ Grows(queue, queue', m)
    BY <1>1, <1>2, AppendFacts, TrafficFacts DEF Grows
  <1>4. FitsQueue(m, kind) /\ m.to \notin Threads
    BY <1>2, MatchRulesAssumption DEF FitsQueue, IsRule
  <1>5. RulesTypeOK' /\ TableTypes' /\ Places'
    <2>1. RulesTypeOK'
      BY <1>1, <1>3 DEF Calls, RulesTypeOK
    <2> QED
      BY <1>1, <2>1, TableTypesKept, PlacesKept DEF Calls
  <1>6. Traffic' /\ Replies'
    BY <1>1, <1>3, <1>4, TrafficMoved
  <1>7. Agree'
    <2> SUFFICES ASSUME NEW r \in Rules \ doubtful
                 PROVE  AgreeOn(r, queue', wire, call, match_rules, bus[r])
      BY <1>1 DEF Agree
    <2>1. AgreeOn(r, queue, wire, call, match_rules, bus[r])
      BY DEF Agree
    <2>2. SameNews(r, queue, queue', 0)
      BY <1>2, <1>3, SameNewsPut DEF Ok, About, IsRule
    <2>3. NoneAsked(r, wire, wire, 0) /\ SameGot(r, call, call) /\ 0 \in 0..1
      BY TrafficFacts, NoneAskedKept DEF SameGot
    <2>4. Len(queue) \in Nat /\ Len(queue') \in Nat /\ Len(wire) \in Nat
      BY <1>3, Put, TrafficFacts
    <2> QED
      BY <2>1, <2>2, <2>3, <2>4, AgreeKept
  <1> QED
    BY <1>5, <1>6, <1>7 DEF Calls

-----------------------------------------------------------------------------
(* The steps of the dispatch thread *)

LEMMA TakeFacts ==
  ASSUME Calls, queue # <<>>, queue' = Tail(queue)
  PROVE  /\ queue[1] \in Item /\ Head(queue) = queue[1]
         /\ queue' \in Seq(Item) /\ Shrinks(queue, queue') /\ Len(queue') \in Nat
         /\ 1 \in 1..Len(queue)
         /\ FitsQueue(queue[1], kind)
  <1>1. queue \in Seq(Item)
    BY TrafficFacts
  <1>2. /\ queue[1] \in Item /\ Head(queue) = queue[1]
        /\ queue' \in Seq(Item) /\ Shrinks(queue, queue')
    BY <1>1, TailFacts DEF Shrinks
  <1> QED
    BY <1>2, Taken, TrafficFacts

LEMMA OnSignalInv ==
  ASSUME Calls, Agree, OnSignal
  PROVE  Calls' /\ Agree'
  <1> DEFINE h == queue[1]
  <1>1. /\ h \in Item /\ Head(queue) = h /\ queue' \in Seq(Item) /\ Shrinks(queue, queue')
        /\ Len(queue') \in Nat
    BY TakeFacts DEF OnSignal
  <1>2. /\ h.what = "Signal"
        /\ UNCHANGED <<match_rules, match_rule_mutex, call, bus, wire, doubtful>>
        /\ UNCHANGED <<kind, cb_mutex, table, root, unique, op, calls>>
    BY <1>1 DEF OnSignal, tableVars
  <1>3. RulesTypeOK' /\ TableTypes' /\ Places'
    <2>1. RulesTypeOK'
      BY <1>1, <1>2 DEF Calls, RulesTypeOK
    <2> QED
      BY <1>2, <2>1, TableTypesKept, PlacesKept DEF Calls
  <1>4. Traffic' /\ Replies'
    BY <1>1, <1>2, TrafficMoved
  <1>5. Agree'
    <2> SUFFICES ASSUME NEW r \in Rules \ doubtful
                 PROVE  AgreeOn(r, queue', wire, call, match_rules, bus[r])
      BY <1>2 DEF Agree
    <2>1. AgreeOn(r, queue, wire, call, match_rules, bus[r])
      BY DEF Agree
    <2>2. SameNews(r, queue, queue', 1)
      BY <1>1, <1>2, SameNewsTaken DEF Ok, About, IsRule
    <2>3. NoneAsked(r, wire, wire, 0) /\ SameGot(r, call, call) /\ 0 \in 0..1 /\ 1 \in 0..1
      BY TrafficFacts, NoneAskedKept DEF SameGot
    <2>4. Len(queue) \in Nat /\ Len(wire) \in Nat
      BY TrafficFacts
    <2> QED
      BY <1>1, <2>1, <2>2, <2>3, <2>4, AgreeKept
  <1> QED
    BY <1>3, <1>4, <1>5 DEF Calls

\* The set after news of a rule.
LEMMA UpdatedFacts ==
  ASSUME match_rules \subseteq Rules, NEW what, NEW rule, IsRule(what) => rule \in Rules, NEW ok \in BOOLEAN
  PROVE  /\ Updated(what, rule, ok) \subseteq Rules
         /\ \A r : ~(rule = r /\ IsRule(what) /\ ok) => (r \in Updated(what, rule, ok) <=> r \in match_rules)
         /\ IsRule(what) /\ ok => (rule \in Updated(what, rule, ok) <=> what = "AddMatch")
  BY DEF Updated, IsRule

LEMMA OnAsyncReplyInv ==
  ASSUME Calls, Agree, OnAsyncReply, UNCHANGED tableVars
  PROVE  Calls' /\ Agree' /\ kind = "filter"
  <1>inv. RulesTypeOK /\ TableTypes /\ Places
    BY DEF Calls
  <1> DEFINE h == queue[1]
  <1>1. /\ h \in Item /\ Head(queue) = h /\ queue' \in Seq(Item) /\ Shrinks(queue, queue')
        /\ Len(queue') \in Nat /\ 1 \in 1..Len(queue) /\ FitsQueue(h, kind)
    BY TakeFacts DEF OnAsyncReply
  <1>2. /\ h.to = "async" /\ match_rules' = Updated(h.what, h.rule, h.ok)
        /\ match_rule_mutex = "free"
        /\ UNCHANGED <<match_rule_mutex, call, bus, wire, doubtful>>
    BY <1>1 DEF OnAsyncReply
  <1>3. IsRule(h.what) /\ kind = "filter" /\ h.rule \in Rules /\ h.ok \in BOOLEAN
    BY <1>1, <1>2 DEF FitsQueue, Item
  <1>kind. kind' = kind /\ UNCHANGED <<kind, cb_mutex, table, root, unique, op, calls>>
    BY DEF tableVars
  <1>4. /\ match_rules' \subseteq Rules
        /\ \A r : ~Ok(h, r) => (r \in match_rules' <=> r \in match_rules)
        /\ h.ok => (h.rule \in match_rules' <=> h.what = "AddMatch")
    BY <1>inv, <1>2, <1>3, UpdatedFacts DEF Ok, About, RulesTypeOK
  <1>5. RulesTypeOK' /\ TableTypes' /\ Places'
    <2>1. RulesTypeOK'
      BY <1>inv, <1>1, <1>2, <1>4 DEF RulesTypeOK
    <2> QED
      BY <1>inv, <1>2, <1>kind, <2>1, TableTypesKept, PlacesKept
  <1>6. Traffic' /\ Replies'
    BY <1>1, <1>2, <1>kind, TrafficMoved
  <1>7. Agree'
    <2> SUFFICES ASSUME NEW r \in Rules \ doubtful
                 PROVE  AgreeOn(r, queue', wire, call, match_rules', bus[r])
      BY <1>2 DEF Agree
    <2>1. AgreeOn(r, queue, wire, call, match_rules, bus[r])
      BY DEF Agree
    <2>2. CASE ~Ok(h, r)
      <3>1. SameNews(r, queue, queue', 1)
        BY <1>1, <2>2, SameNewsTaken
      <3>2. NoneAsked(r, wire, wire, 0) /\ SameGot(r, call, call) /\ 0 \in 0..1 /\ 1 \in 0..1
        BY TrafficFacts, NoneAskedKept DEF SameGot
      <3>3. Len(queue) \in Nat /\ Len(wire) \in Nat /\ (r \in match_rules' <=> r \in match_rules)
        BY <1>4, <2>2, TrafficFacts
      <3> QED
        BY <1>1, <2>1, <3>1, <3>2, <3>3, AgreeKept
    <2>3. CASE Ok(h, r)
      <3>1. ~NoNews(r, queue, call)
        BY <1>1, <2>3 DEF NoNews
      <3>2. h.what = ToCome(r, match_rules) /\ bus[r] = 1 - Has(r, match_rules)
        BY <1>1, <2>1, <2>3 DEF AgreeOn, TrueNews
      <3>3. NoNews(r, queue', call)
        <4>1. \A t \in Threads : ~Got(call[t], r)
          BY <1>1, <2>1, <2>3 DEF AgreeOn, OneNews
        <4>2. \A i \in 1..Len(queue') : ~Ok(queue'[i], r)
          <5> SUFFICES ASSUME NEW i \in 1..Len(queue'), Ok(queue'[i], r)
                       PROVE  FALSE
            OBVIOUS
          <5>1. i + 1 \in 1..Len(queue) /\ Ok(queue[i + 1], r) /\ i + 1 # 1
            BY <1>1, Taken
          <5> QED
            BY <1>1, <2>1, <2>3, <5>1 DEF AgreeOn, OneNews
        <4> QED
          BY <4>1, <4>2 DEF NoNews
      <3>4. r \in match_rules' <=> h.what = "AddMatch"
        BY <1>4, <2>3 DEF Ok, About
      <3> QED
        BY <2>1, <3>1, <3>2, <3>3, <3>4, NewsHeard
    <2> QED
      BY <2>2, <2>3
  <1> QED
    BY <1>3, <1>5, <1>6, <1>7 DEF Calls

LEMMA OnSyncReplyFacts ==
  ASSUME Calls, OnSyncReply
  PROVE  \E t \in Threads :
           /\ queue[1] \in Item /\ queue' \in Seq(Item) /\ Shrinks(queue, queue') /\ Len(queue') \in Nat
           /\ queue[1].to = t /\ 1 \in 1..Len(queue)
           /\ WaitsFor(call[t], queue[1])
           /\ call' \in [Threads -> CallRecord]
           /\ call'[t].at = "replied" /\ call'[t].ok = queue[1].ok
           /\ call'[t].what = call[t].what /\ call'[t].rule = call[t].rule
           /\ \A s \in Threads \ {t} : call'[s] = call[s]
           /\ UNCHANGED <<match_rules, match_rule_mutex, bus, wire, doubtful>>
  <1> DEFINE h == queue[1]
             t == h.to
  <1>1. /\ h \in Item /\ Head(queue) = h /\ queue' \in Seq(Item) /\ Shrinks(queue, queue')
        /\ Len(queue') \in Nat /\ 1 \in 1..Len(queue)
    BY TakeFacts DEF OnSyncReply
  <1>2. /\ t \in Threads
        /\ call' = [call EXCEPT ![t].at = "replied", ![t].ok = h.ok]
        /\ UNCHANGED <<match_rules, match_rule_mutex, bus, wire, doubtful>>
    BY <1>1 DEF OnSyncReply
  <1>3. WaitsFor(call[t], h)
    <2>1. OneReply(t, wire, queue, call[t])
      BY <1>2, TrafficFacts
    <2> QED
      BY <1>1, <2>1 DEF OneReply
  <1>4. h.ok \in BOOLEAN /\ call \in [Threads -> CallRecord] /\ call[t] \in CallRecord
    BY <1>1, <1>2, TrafficFacts DEF Item
  <1> HIDE DEF h
  <1> DEFINE e == [call[t] EXCEPT !.at = "replied", !.ok = h.ok]
  <1>5. e \in CallRecord /\ e.at = "replied" /\ e.what = call[t].what /\ e.rule = call[t].rule
    BY <1>4 DEF CallRecord
  <1>6. e.ok = h.ok
    BY <1>4 DEF CallRecord
  <1>7. call' = [call EXCEPT ![t] = e]
    BY <1>2, <1>4
  <1> HIDE DEF e, t
  <1>8. call' \in [Threads -> CallRecord] /\ call'[t] = e /\ \A s \in Threads \ {t} : call'[s] = call[s]
    BY <1>2, <1>4, <1>5, <1>7, CallSet
  <1> QED
    BY <1>1, <1>2, <1>3, <1>5, <1>6, <1>8 DEF h, t

LEMMA OnSyncReplyInv ==
  ASSUME Calls, Agree, Tables, OnSyncReply, UNCHANGED tableVars
  PROVE  Calls' /\ Agree' /\ Tables'
  <1>inv. RulesTypeOK /\ TableTypes /\ Places
    BY DEF Calls
  <1>traffic. /\ Len(wire) \in Nat /\ Len(queue) \in Nat
              /\ \A i \in 1..Len(wire) : FitsWire(wire[i], kind, doubtful)
              /\ \A i \in 1..Len(queue) : FitsQueue(queue[i], kind)
              /\ \A t \in Threads : OneReply(t, wire, queue, call[t])
              /\ \A t \in Threads : Place(t, op[t], call[t], match_rule_mutex, cb_mutex)
    BY TrafficFacts
  <1> DEFINE h == queue[1]
  <1>1. PICK t \in Threads :
           /\ h \in Item /\ queue' \in Seq(Item) /\ Shrinks(queue, queue') /\ Len(queue') \in Nat
           /\ h.to = t /\ 1 \in 1..Len(queue)
           /\ WaitsFor(call[t], h)
           /\ call' \in [Threads -> CallRecord]
           /\ call'[t].at = "replied" /\ call'[t].ok = h.ok
           /\ call'[t].what = call[t].what /\ call'[t].rule = call[t].rule
           /\ \A s \in Threads \ {t} : call'[s] = call[s]
           /\ UNCHANGED <<match_rules, match_rule_mutex, bus, wire, doubtful>>
    BY OnSyncReplyFacts
  <1>kind. kind' = kind /\ UNCHANGED <<kind, cb_mutex, table, root, unique, op, calls>>
    BY DEF tableVars
  <1>q. \A i \in 1..Len(queue') : i + 1 \in 1..Len(queue) /\ queue'[i] = queue[i + 1] /\ i + 1 # 1
    BY <1>1, Taken
  <1>2. RulesTypeOK' /\ TableTypes'
    BY <1>inv, <1>1, <1>kind, TableTypesKept DEF RulesTypeOK, CallRecord
  <1>3. Places'
    <2>1. Place(t, op[t], call[t], match_rule_mutex, cb_mutex) /\ call[t].at = "asked"
      BY <1>1, <1>traffic DEF WaitsFor
    <2>2. Place(t, op'[t], call'[t], match_rule_mutex', cb_mutex')
      BY <1>1, <1>kind, <2>1 DEF Place
    <2> QED
      BY <1>inv, <1>1, <1>kind, <2>2, PlacesMoved
  <1>4. Traffic'
    <2>1. \A i \in 1..Len(queue') : FitsQueue(queue'[i], kind)
      BY <1>traffic, <1>q
    <2> QED
      BY <1>traffic, <1>1, <1>kind, <2>1 DEF Traffic
  <1>5. \A s \in Threads : OneReply(s, wire, queue', call'[s])
    <2> TAKE s \in Threads
    <2>o. OneReply(s, wire, queue, call[s])
      BY <1>traffic
    <2>1. CASE s = t
      <3>1. /\ \A i \in 1..Len(queue) : queue[i].to = s => i = 1
            /\ \A i \in 1..Len(wire) : ~Awaited(wire[i], s)
        BY <1>1, <2>o, <2>1 DEF OneReply
      <3>2. \A i \in 1..Len(queue') : queue'[i].to # s
        BY <1>q, <3>1
      <3> QED
        BY <3>1, <3>2 DEF OneReply
    <2>2. CASE s # t
      <3>1. WireFrom(s, wire, wire, 0) /\ QueueFrom(s, queue, queue', 1) /\ 0 \in 0..1 /\ 1 \in 0..1
        BY <1>1, <1>traffic, WireFromKept, QueueFromTaken
      <3>2. call'[s] = call[s]
        BY <1>1, <2>2
      <3> QED
        BY <1>1, <1>traffic, <2>o, <3>1, <3>2, Carried
    <2> QED
      BY <2>1, <2>2
  <1>6. Replies'
    BY <1>1, <1>5 DEF Replies
  <1>7. Agree'
    <2> SUFFICES ASSUME NEW r \in Rules \ doubtful
                 PROVE  AgreeOn(r, queue', wire, call', match_rules, bus[r])
      BY <1>1 DEF Agree
    <2>1. AgreeOn(r, queue, wire, call, match_rules, bus[r])
      BY DEF Agree
    <2>2. ~Got(call[t], r)
      BY <1>1 DEF Got, WaitsFor
    <2>3. /\ Got(call'[t], r) => Ok(queue[1], r) /\ call'[t].what = queue[1].what
          /\ Ok(queue[1], r) => Got(call'[t], r)
      BY <1>1 DEF Got, Ok, About, WaitsFor
    <2> QED
      BY <1>1, <2>1, <2>2, <2>3, NewsHanded
  <1>8. Tables'
    <2> SUFFICES ASSUME kind # "filter"
                 PROVE  /\ \A s \in Threads : op[s].at = "asks" =>
                             Carries(op[s], call'[s], table, root, match_rules, doubtful)
                        /\ (\A s \in Threads : op[s].at # "asks") =>
                             \A c \in table : Kept(c, root, match_rules, doubtful)
      BY <1>1, <1>kind DEF Tables
    <2>1. \A s \in Threads : op[s].at = "asks" =>
            Carries(op[s], call'[s], table, root, match_rules, doubtful)
      <3> SUFFICES ASSUME NEW s \in Threads, op[s].at = "asks"
                   PROVE  Carries(op[s], call'[s], table, root, match_rules, doubtful)
        OBVIOUS
      <3>1. Carries(op[s], call[s], table, root, match_rules, doubtful)
        BY DEF Tables
      <3>2. CASE s = t
        <4>1. /\ call'[s].what = call[s].what /\ call'[s].rule = call[s].rule
              /\ call[s].at = "asked" /\ call'[s].at = "replied"
          BY <1>1, <3>2 DEF WaitsFor
        <4> QED
          BY <3>1, <4>1 DEF Carries, Adding, Moving, Dropping, IsAdded, Safe
      <3>3. CASE s # t
        BY <1>1, <3>1, <3>3
      <3> QED
        BY <3>2, <3>3
    <2> QED
      BY <2>1 DEF Tables
  <1> QED
    BY <1>2, <1>3, <1>4, <1>6, <1>7, <1>8 DEF Calls

-----------------------------------------------------------------------------
(* The steps of message_filter *)

LEMMA SentFacts ==
  ASSUME Calls, NEW by \in Receivers, NEW what \in Kinds, NEW rule \in Rules \cup {NoRule},
         wire' = Sent(by, what, rule)
  PROVE  \E m : /\ m.by = by /\ m.what = what /\ m.rule = rule /\ ~m.late
                /\ wire' \in Seq(Request) /\ Grows(wire, wire', m)
  <1> DEFINE m == [by |-> by, what |-> what, rule |-> rule, of |-> 0, late |-> FALSE]
  <1>1. m \in Request
    BY RequestType
  <1>2. m.by = by /\ m.what = what /\ m.rule = rule /\ ~m.late
    OBVIOUS
  <1>3. wire' = Append(wire, m)
    BY DEF Sent, SentFor
  <1> HIDE DEF m
  <1>4. wire' \in Seq(Request) /\ Grows(wire, wire', m)
    BY <1>1, <1>3, AppendFacts, TrafficFacts DEF Grows
  <1> QED
    BY <1>2, <1>4

\* Steps that change neither table nor rules, nor where an operation stands.
LEMMA TablesKept ==
  ASSUME Tables, UNCHANGED <<kind, table, root, match_rules>>, doubtful \subseteq doubtful',
         \A t \in Threads :
           /\ op'[t].at = "asks" <=> op[t].at = "asks"
           /\ op[t].at = "asks" => op'[t] = op[t] /\ call'[t] = call[t]
  PROVE  Tables'
  <1> SUFFICES ASSUME kind # "filter"
               PROVE  /\ \A t \in Threads : op'[t].at = "asks" =>
                           Carries(op'[t], call'[t], table, root, match_rules, doubtful')
                      /\ (\A t \in Threads : op'[t].at # "asks") =>
                           \A s \in table : Kept(s, root, match_rules, doubtful')
    BY DEF Tables
  <1>1. \A t \in Threads : op'[t].at = "asks" =>
          Carries(op'[t], call'[t], table, root, match_rules, doubtful')
    <2> SUFFICES ASSUME NEW t \in Threads, op[t].at = "asks"
                 PROVE  Carries(op[t], call[t], table, root, match_rules, doubtful')
      OBVIOUS
    <2>1. Carries(op[t], call[t], table, root, match_rules, doubtful)
      BY DEF Tables
    <2> QED
      BY <2>1 DEF Carries, Moving, Dropping, Safe, Kept
  <1>2. (\A t \in Threads : op'[t].at # "asks") => \A s \in table : Kept(s, root, match_rules, doubtful')
    BY DEF Tables, Kept
  <1> QED
    BY <1>1, <1>2

\* A request for rule goes out to one that is not under way, or makes it doubtful.
LEMMA AskedAgree ==
  ASSUME Calls, Agree, UNCHANGED <<match_rules, bus, queue>>, doubtful \subseteq doubtful',
         NEW m, Grows(wire, wire', m), IsRule(m.what), ~m.late,
         Needed(m.what, m.rule), doubtful' = doubtful \cup Doubled(m.what, m.rule),
         match_rule_mutex = "free",
         \A r : SameGot(r, call, call')
  PROVE  Agree'
  <1>traffic. /\ Len(wire) \in Nat /\ Len(queue) \in Nat /\ Len(wire') \in Nat
              /\ \A i \in 1..Len(wire) : FitsWire(wire[i], kind, doubtful)
              /\ \A t \in Threads : Place(t, op[t], call[t], match_rule_mutex, cb_mutex)
              /\ wire \in Seq(Request) /\ queue \in Seq(Item)
    BY TrafficFacts, Put
  <1> SUFFICES ASSUME NEW r \in Rules \ doubtful'
               PROVE  AgreeOn(r, queue, wire', call', match_rules, bus[r])
    BY DEF Agree
  <1>1. AgreeOn(r, queue, wire, call, match_rules, bus[r])
    BY DEF Agree
  <1>2. CASE ~About(m, r)
    <2>1. NoneAsked(r, wire, wire', 0) /\ SameNews(r, queue, queue, 0) /\ SameGot(r, call, call') /\ 0 \in 0..1
      BY <1>2, <1>traffic, NoneAskedPut, SameNewsKept
    <2> QED
      BY <1>1, <1>traffic, <2>1, AgreeKept
  <1>3. CASE About(m, r)
    <2>1. \A t \in Threads : ~Got(call[t], r)
      BY <1>traffic, MatchRulesAssumption DEF Place, Got, Ok, About
    <2>2. m.what = "RemoveMatch" => r \in match_rules
      BY <1>3 DEF Needed, About
    <2>3. m.what = "AddMatch" =>
            /\ r \notin match_rules
            /\ \A k \in 1..Len(wire) : ~ToAdd(wire[k], r)
            /\ \A k \in 1..Len(queue) : ~ToAdd(queue[k], r)
      <3> SUFFICES ASSUME m.what = "AddMatch"
                   PROVE  /\ r \notin match_rules
                          /\ \A k \in 1..Len(wire) : ~ToAdd(wire[k], r)
                          /\ \A k \in 1..Len(queue) : ~ToAdd(queue[k], r)
        OBVIOUS
      <3>1. m.rule = r /\ r \notin match_rules
        BY <1>3 DEF Needed, About
      <3>2. ~UnderWay("AddMatch", r)
        BY <3>1 DEF Doubled
      <3>3. DOMAIN wire = 1..Len(wire) /\ DOMAIN queue = 1..Len(queue)
        BY <1>traffic
      <3>4. \A k \in 1..Len(wire) : ToAdd(wire[k], r) => wire[k].late
        BY <3>2, <3>3 DEF UnderWay, ToAdd
      <3>5. \A k \in 1..Len(wire) : ~ToAdd(wire[k], r)
        BY <1>traffic, <3>4 DEF FitsWire, ToAdd, IsRule
      <3>6. \A k \in 1..Len(queue) : ~ToAdd(queue[k], r)
        BY <3>2, <3>3 DEF UnderWay, ToAdd
      <3> QED
        BY <3>1, <3>5, <3>6
    <2>4. SameGot(r, call, call')
      OBVIOUS
    <2> QED
      BY <1>1, <1>3, <2>1, <2>2, <2>3, <2>4, RuleAsked
  <1> QED
    BY <1>2, <1>3

LEMMA CallAsyncInv ==
  ASSUME IInv, NEW what \in {"AddMatch", "RemoveMatch"}, NEW rule \in FilterRules, CallAsync(what, rule)
  PROVE  IInv'
  <1>inv. Calls /\ Agree /\ Tables /\ RulesTypeOK /\ TableTypes /\ Places
    BY DEF IInv, Calls
  <1>1. /\ kind = "filter" /\ calls < MaxCalls[kind] /\ calls' = calls + 1
        /\ match_rule_mutex = "free" /\ Needed(what, rule)
        /\ wire' = Sent("async", what, rule)
        /\ doubtful' = doubtful \cup Doubled(what, rule)
        /\ UNCHANGED <<match_rules, match_rule_mutex, call, bus, queue>>
        /\ UNCHANGED <<kind, cb_mutex, table, root, unique, op>>
    BY DEF CallAsync, AskAsync
  <1>2. rule \in Rules /\ what \in Kinds /\ "async" \in Receivers /\ IsRule(what)
    BY RegistrationsAssumption DEF Kinds, Receivers, IsRule
  <1>3. PICK m : /\ m.by = "async" /\ m.what = what /\ m.rule = rule /\ ~m.late
                 /\ wire' \in Seq(Request) /\ Grows(wire, wire', m)
    BY <1>inv, <1>1, <1>2, SentFacts
  <1>4. doubtful \subseteq doubtful' /\ doubtful' \subseteq Rules
    BY <1>inv, <1>1, <1>2 DEF RulesTypeOK, Doubled
  <1>5. RulesTypeOK'
    BY <1>inv, <1>1, <1>3, <1>4 DEF RulesTypeOK
  <1>6. TableTypes'
    <2>1. calls' \in 0..MaxCalls[kind]
      BY <1>inv, <1>1, RegistrationsAssumption DEF TableTypes
    <2>2. Slots' = Slots
      BY <1>1 DEF Slots
    <2> QED
      BY <1>inv, <1>1, <2>1, <2>2 DEF TableTypes
  <1>7. Places'
    BY <1>inv, <1>1, PlacesKept
  <1>8. Traffic' /\ Replies'
    <2>1. FitsWire(m, kind, doubtful') /\ m.by \notin Threads
      BY <1>1, <1>2, <1>3, MatchRulesAssumption DEF FitsWire
    <2> QED
      BY <1>inv, <1>1, <1>3, <1>4, <2>1, TrafficMoved
  <1>9. Agree'
    <2>1. \A r : SameGot(r, call, call')
      BY <1>1 DEF SameGot
    <2> QED
      BY <1>inv, <1>1, <1>2, <1>3, <1>4, <2>1, AskedAgree
  <1>10. Tables'
    BY <1>1 DEF Tables
  <1> QED
    BY <1>5, <1>6, <1>7, <1>8, <1>9, <1>10 DEF IInv, Calls

LEMMA AskInv ==
  ASSUME IInv, NEW t \in Threads, Ask(t), UNCHANGED tableVars
  PROVE  IInv'
  <1>inv. Calls /\ Agree /\ Tables /\ RulesTypeOK /\ TableTypes /\ Places
    BY DEF IInv, Calls
  <1>traffic. /\ call \in [Threads -> CallRecord] /\ call[t] \in CallRecord
              /\ Place(t, op[t], call[t], match_rule_mutex, cb_mutex)
    BY <1>inv, TrafficFacts
  <1> DEFINE c == call[t]
  <1>1. /\ c.at = "ready" /\ c.what # "GetNameOwner" /\ match_rule_mutex = "free"
        /\ UNCHANGED <<match_rules, bus, queue>>
    BY DEF Ask
  <1>kind. kind' = kind /\ UNCHANGED <<kind, cb_mutex, table, root, unique, op, calls>>
    BY DEF tableVars
  <1>2. /\ op[t].at = "asks" /\ IsRule(c.what) /\ c.rule \in Rules /\ c.what \in Kinds
    <2>1. c.what \in Kinds /\ IsRule(c.what)
      BY <1>1, <1>traffic DEF CallRecord, Kinds, IsRule
    <2>2. op[t].at \in {"idle", "lookup", "enter", "asks"}
      BY <1>inv DEF TableTypes, OpRecord
    <2> QED
      BY <1>1, <1>traffic, <2>1, <2>2 DEF Place, IsRule
  <1>free. \A s \in Threads : match_rule_mutex # s
    BY <1>1, MatchRulesAssumption
  <1>3. CASE /\ \E ok \in BOOLEAN : /\ call' = [call EXCEPT ![t].at = "done", ![t].ok = ok]
                                    /\ ok => ~Needed(c.what, c.rule)
             /\ UNCHANGED <<match_rule_mutex, wire, doubtful>>
    <2>1. PICK ok \in BOOLEAN : /\ call' = [call EXCEPT ![t].at = "done", ![t].ok = ok]
                                /\ ok => ~Needed(c.what, c.rule)
      BY <1>3
    <2> DEFINE e == [call[t] EXCEPT !.at = "done", !.ok = ok]
    <2>2. e \in CallRecord /\ e.at = "done" /\ e.what = c.what /\ e.rule = c.rule
      BY <1>traffic DEF CallRecord
    <2>3. e.ok = ok
      BY <1>traffic DEF CallRecord
    <2>4. call' = [call EXCEPT ![t] = e]
      BY <1>traffic, <2>1
    <2> HIDE DEF e
    <2>5. call' \in [Threads -> CallRecord] /\ call'[t] = e /\ \A s \in Threads \ {t} : call'[s] = call[s]
      BY <1>traffic, <2>2, <2>4, CallSet
    <2>6. RulesTypeOK' /\ TableTypes'
      BY <1>inv, <1>1, <1>3, <1>kind, <2>5, TableTypesKept DEF RulesTypeOK, CallRecord
    <2>7. Places'
      <3>1. Place(t, op'[t], call'[t], match_rule_mutex', cb_mutex')
        BY <1>traffic, <1>1, <1>2, <1>3, <1>free, <1>kind, <2>2, <2>5 DEF Place
      <3> QED
        BY <1>inv, <1>3, <1>kind, <2>5, <3>1, PlacesMoved
    <2>8. Traffic' /\ Replies'
      <3>1. \A s \in Threads : call[s].at = "asked" => call'[s] = call[s]
        BY <1>1, <2>5
      <3> QED
        BY <1>inv, <1>1, <1>3, <1>kind, <3>1, TrafficKept
    <2>9. Agree'
      <3> SUFFICES ASSUME NEW r \in Rules \ doubtful
                   PROVE  AgreeOn(r, queue, wire, call', match_rules, bus[r])
        BY <1>1, <1>3 DEF Agree
      <3>1. AgreeOn(r, queue, wire, call, match_rules, bus[r])
        BY <1>inv DEF Agree
      <3>2. SameGot(r, call, call')
        BY <1>1, <2>2, <2>5 DEF SameGot, Got
      <3>3. NoneAsked(r, wire, wire, 0) /\ SameNews(r, queue, queue, 0) /\ 0 \in 0..1
            /\ Len(wire) \in Nat /\ Len(queue) \in Nat
        BY <1>inv, TrafficFacts, NoneAskedKept, SameNewsKept
      <3> QED
        BY <3>1, <3>2, <3>3, AgreeKept
    <2>10. Tables'
      <3> SUFFICES ASSUME kind # "filter"
                   PROVE  /\ \A s \in Threads : op[s].at = "asks" =>
                               Carries(op[s], call'[s], table, root, match_rules, doubtful)
                          /\ (\A s \in Threads : op[s].at # "asks") =>
                               \A x \in table : Kept(x, root, match_rules, doubtful)
        BY <1>1, <1>3, <1>kind DEF Tables
      <3>1. Carries(op[t], e, table, root, match_rules, doubtful)
        <4>1. Carries(op[t], c, table, root, match_rules, doubtful)
          BY <1>inv, <1>2 DEF Tables
        <4>2. e.ok /\ e.what = "AddMatch" => e.rule \in match_rules
          BY <2>1, <2>2, <2>3 DEF Needed
        <4> QED
          BY <1>1, <2>2, <4>1, <4>2 DEF Carries, Adding, Moving, Dropping, IsAdded, Safe
      <3>2. \A s \in Threads : op[s].at = "asks" => Carries(op[s], call'[s], table, root, match_rules, doubtful)
        BY <1>inv, <2>5, <3>1 DEF Tables
      <3> QED
        BY <1>inv, <3>2 DEF Tables
    <2> QED
      BY <2>6, <2>7, <2>8, <2>9, <2>10 DEF IInv, Calls
  <1>4. CASE /\ Needed(c.what, c.rule)
             /\ match_rule_mutex' = t
             /\ wire' = Sent(t, c.what, c.rule)
             /\ call' = [call EXCEPT ![t].at = "asked"]
             /\ doubtful' = doubtful \cup Doubled(c.what, c.rule)
    <2> DEFINE e == [call[t] EXCEPT !.at = "asked"]
    <2>1. e \in CallRecord /\ e.at = "asked" /\ e.what = c.what /\ e.rule = c.rule
      BY <1>traffic DEF CallRecord
    <2>2. call' = [call EXCEPT ![t] = e]
      BY <1>traffic, <1>4
    <2> HIDE DEF e
    <2>3. call' \in [Threads -> CallRecord] /\ call'[t] = e /\ \A s \in Threads \ {t} : call'[s] = call[s]
      BY <1>traffic, <2>1, <2>2, CallSet
    <2>4. PICK m : /\ m.by = t /\ m.what = c.what /\ m.rule = c.rule /\ ~m.late
                   /\ wire' \in Seq(Request) /\ Grows(wire, wire', m)
      <3>1. t \in Receivers /\ c.rule \in Rules \cup {NoRule}
        BY <1>2 DEF Receivers
      <3> QED
        BY <1>inv, <1>2, <1>4, <3>1, SentFacts
    <2>5. doubtful \subseteq doubtful' /\ doubtful' \subseteq Rules
      BY <1>inv, <1>2, <1>4 DEF RulesTypeOK, Doubled
    <2>6. RulesTypeOK' /\ TableTypes'
      <3>1. RulesTypeOK'
        BY <1>inv, <1>1, <1>4, <2>3, <2>4, <2>5 DEF RulesTypeOK, CallRecord
      <3> QED
        BY <1>inv, <1>kind, <3>1, TableTypesKept
    <2>7. Places'
      <3>1. Place(t, op'[t], call'[t], match_rule_mutex', cb_mutex')
        BY <1>traffic, <1>2, <1>4, <1>kind, <2>1, <2>3 DEF Place
      <3>2. \A s \in Threads \ {t} : match_rule_mutex' = s <=> match_rule_mutex = s
        BY <1>4, <1>free
      <3> QED
        BY <1>inv, <1>kind, <2>3, <3>1, <3>2, PlacesMoved
    <2>8. Traffic' /\ Replies'
      <3>1. FitsWire(m, kind, doubtful)
        BY <1>2, <2>4, MatchRulesAssumption DEF FitsWire
      <3>2. call[t].at # "asked" /\ WaitsFor(call'[t], m)
        BY <1>1, <2>1, <2>3, <2>4 DEF WaitsFor
      <3> QED
        BY <1>inv, <1>1, <1>kind, <2>3, <2>4, <2>5, <3>1, <3>2, TrafficAsked
    <2>9. Agree'
      <3>1. \A r : SameGot(r, call, call')
        BY <1>1, <2>1, <2>3 DEF SameGot, Got
      <3>2. IsRule(m.what) /\ Needed(m.what, m.rule) /\ doubtful' = doubtful \cup Doubled(m.what, m.rule)
        BY <1>2, <1>4, <2>4
      <3> QED
        BY <1>inv, <1>1, <2>4, <2>5, <3>1, <3>2, AskedAgree
    <2>10. Tables'
      <3> SUFFICES ASSUME kind # "filter"
                   PROVE  /\ \A s \in Threads : op[s].at = "asks" =>
                               Carries(op[s], call'[s], table, root, match_rules, doubtful')
                          /\ (\A s \in Threads : op[s].at # "asks") =>
                               \A x \in table : Kept(x, root, match_rules, doubtful')
        BY <1>1, <1>kind DEF Tables
      <3>1. \A s \in Threads : op[s].at = "asks" => Carries(op[s], call'[s], table, root, match_rules, doubtful')
        <4> SUFFICES ASSUME NEW s \in Threads, op[s].at = "asks"
                     PROVE  Carries(op[s], call'[s], table, root, match_rules, doubtful')
          OBVIOUS
        <4>1. Carries(op[s], call[s], table, root, match_rules, doubtful)
          BY <1>inv DEF Tables
        <4>2. Carries(op[s], call'[s], table, root, match_rules, doubtful)
          BY <1>1, <2>1, <2>3, <4>1 DEF Carries, Adding, Moving, Dropping, IsAdded, Safe
        <4> QED
          BY <2>5, <4>2 DEF Carries, Moving, Dropping, Safe, Kept
      <3> QED
        BY <1>2, <3>1
    <2> QED
      BY <2>6, <2>7, <2>8, <2>9, <2>10 DEF IInv, Calls
  <1> QED
    BY <1>3, <1>4 DEF Ask

LEMMA FinishInv ==
  ASSUME IInv, NEW t \in Threads, Finish(t), UNCHANGED tableVars
  PROVE  IInv'
  <1>inv. Calls /\ Agree /\ Tables /\ RulesTypeOK /\ TableTypes /\ Places
    BY DEF IInv, Calls
  <1>traffic. /\ call \in [Threads -> CallRecord] /\ call[t] \in CallRecord
              /\ \A s \in Threads : Place(s, op[s], call[s], match_rule_mutex, cb_mutex)
              /\ Len(wire) \in Nat /\ Len(queue) \in Nat
    BY <1>inv, TrafficFacts
  <1> DEFINE c == call[t]
  <1>1. /\ c.at = "replied" /\ c.what # "GetNameOwner"
        /\ match_rules' = Updated(c.what, c.rule, c.ok)
        /\ match_rule_mutex' = "free"
        /\ call' = [call EXCEPT ![t].at = "done"]
        /\ UNCHANGED <<bus, wire, queue, doubtful>>
    BY DEF Finish
  <1>kind. kind' = kind /\ UNCHANGED <<kind, cb_mutex, table, root, unique, op, calls>>
    BY DEF tableVars
  <1>2. IsRule(c.what) /\ c.ok \in BOOLEAN
    BY <1>1, <1>traffic DEF CallRecord, Kinds, IsRule
  <1>3. op[t].at = "asks" /\ c.rule \in Rules /\ match_rule_mutex = t
    <2>1. op[t].at \in {"idle", "lookup", "enter", "asks"}
      BY <1>inv DEF TableTypes, OpRecord
    <2> QED
      BY <1>1, <1>2, <1>traffic, <2>1 DEF Place, IsRule
  <1>4. /\ match_rules' \subseteq Rules
        /\ \A r : ~Ok(c, r) => (r \in match_rules' <=> r \in match_rules)
        /\ c.ok => (c.rule \in match_rules' <=> c.what = "AddMatch")
    BY <1>inv, <1>1, <1>2, <1>3, UpdatedFacts DEF Ok, About, RulesTypeOK
  <1> DEFINE e == [call[t] EXCEPT !.at = "done"]
  <1>5. e \in CallRecord /\ e.at = "done" /\ e.what = c.what /\ e.rule = c.rule
    BY <1>traffic DEF CallRecord
  <1>ok. e.ok = c.ok
    BY <1>traffic DEF CallRecord
  <1>6. call' = [call EXCEPT ![t] = e]
    BY <1>traffic, <1>1
  <1> HIDE DEF e
  <1>7. call' \in [Threads -> CallRecord] /\ call'[t] = e /\ \A s \in Threads \ {t} : call'[s] = call[s]
    BY <1>traffic, <1>5, <1>6, CallSet
  <1>8. RulesTypeOK' /\ TableTypes'
    <2>1. RulesTypeOK'
      BY <1>inv, <1>1, <1>4, <1>7 DEF RulesTypeOK, CallRecord
    <2> QED
      BY <1>inv, <1>kind, <2>1, TableTypesKept
  <1>9. Places'
    <2>1. \A s \in Threads : match_rule_mutex' # s
      BY <1>1, MatchRulesAssumption
    <2>2. Place(t, op'[t], call'[t], match_rule_mutex', cb_mutex')
      BY <1>traffic, <1>2, <1>3, <1>kind, <1>5, <1>7, <2>1 DEF Place
    <2>3. \A s \in Threads \ {t} : match_rule_mutex' = s <=> match_rule_mutex = s
      BY <1>3, <2>1
    <2> QED
      BY <1>inv, <1>kind, <1>7, <2>2, <2>3, PlacesMoved
  <1>10. Traffic' /\ Replies'
    <2>1. \A s \in Threads : call[s].at = "asked" => call'[s] = call[s]
      BY <1>1, <1>7
    <2> QED
      BY <1>inv, <1>1, <1>kind, <2>1, TrafficKept
  <1>11. Agree'
    <2> SUFFICES ASSUME NEW r \in Rules \ doubtful
                 PROVE  AgreeOn(r, queue, wire, call', match_rules', bus[r])
      BY <1>1 DEF Agree
    <2>1. AgreeOn(r, queue, wire, call, match_rules, bus[r])
      BY <1>inv DEF Agree
    <2>2. CASE ~Ok(c, r)
      <3>1. SameGot(r, call, call')
        BY <1>5, <1>7, <2>2 DEF SameGot, Got
      <3>2. NoneAsked(r, wire, wire, 0) /\ SameNews(r, queue, queue, 0) /\ 0 \in 0..1
        BY <1>traffic, NoneAskedKept, SameNewsKept
      <3>3. r \in match_rules' <=> r \in match_rules
        BY <1>4, <2>2
      <3> QED
        BY <1>traffic, <2>1, <3>1, <3>2, <3>3, AgreeKept
    <2>3. CASE Ok(c, r)
      <3>1. Got(c, r)
        BY <1>1, <2>3 DEF Got
      <3>2. ~NoNews(r, queue, call)
        BY <3>1 DEF NoNews
      <3>3. c.what = ToCome(r, match_rules) /\ bus[r] = 1 - Has(r, match_rules)
        BY <2>1, <3>1 DEF AgreeOn, TrueNews
      <3>4. NoNews(r, queue, call')
        <4>1. \A i \in 1..Len(queue) : ~Ok(queue[i], r)
          BY <2>1, <3>1 DEF AgreeOn, OneNews
        <4>2. \A s \in Threads : ~Got(call'[s], r)
          BY <1>5, <1>7, <2>1, <3>1 DEF AgreeOn, OneNews, Got
        <4> QED
          BY <4>1, <4>2 DEF NoNews
      <3>5. r \in match_rules' <=> c.what = "AddMatch"
        BY <1>4, <2>3 DEF Ok, About
      <3> QED
        BY <2>1, <3>2, <3>3, <3>4, <3>5, NewsHeard
    <2> QED
      BY <2>2, <2>3
  <1>12. Tables'
    <2> SUFFICES ASSUME kind # "filter"
                 PROVE  /\ \A s \in Threads : op[s].at = "asks" =>
                             Carries(op[s], call'[s], table, root, match_rules', doubtful)
                        /\ (\A s \in Threads : op[s].at # "asks") =>
                             \A x \in table : Kept(x, root, match_rules', doubtful)
      BY <1>1, <1>kind DEF Tables
    <2>1. Carries(op[t], c, table, root, match_rules, doubtful)
      BY <1>inv, <1>3 DEF Tables
    <2>2. e.ok /\ e.what = "AddMatch" => e.rule \in match_rules'
      BY <1>4, <1>5, <1>ok
    <2>3. \A r : r \in match_rules /\ ~(c.what = "RemoveMatch" /\ c.rule = r) => r \in match_rules'
      BY <1>2, <1>4 DEF Ok, About, IsRule
    <2>4. Carries(op[t], e, table, root, match_rules', doubtful)
      <3>1. \A s : Safe(s, c, root, match_rules, doubtful) => Safe(s, e, root, match_rules', doubtful)
        BY <1>1, <1>5, <2>3 DEF Safe
      <3>2. c.what = "AddMatch" =>
              \A s : Kept(s, root, match_rules, doubtful) => Kept(s, root, match_rules', doubtful)
        BY <2>3 DEF Kept
      <3>3. c.what = "AddMatch" => IsAdded(e, match_rules')
        BY <1>5, <2>2 DEF IsAdded
      <3>4. \A s \in table \ {op[t].slot} : Safe(s, e, root, match_rules', doubtful)
        BY <2>1, <3>1 DEF Carries
      <3>5. CASE Adding(op[t], c, table, root, match_rules)
        BY <1>5, <3>3, <3>4, <3>5 DEF Carries, Adding, IsAdded
      <3>6. CASE Moving(op[t], c, table, root, match_rules, doubtful)
        BY <1>5, <3>2, <3>3, <3>4, <3>6 DEF Carries, Moving, IsAdded
      <3>7. CASE Dropping(op[t], c, table, root, match_rules, doubtful)
        BY <1>5, <3>1, <3>4, <3>7 DEF Carries, Dropping
      <3> QED
        BY <2>1, <3>5, <3>6, <3>7 DEF Carries
    <2>5. \A s \in Threads : op[s].at = "asks" => s = t
      BY <1>3, <1>traffic DEF Place
    <2> QED
      BY <1>3, <1>7, <2>4, <2>5
  <1> QED
    BY <1>8, <1>9, <1>10, <1>11, <1>12 DEF IInv, Calls

-----------------------------------------------------------------------------
(* The steps of an operation *)

LEMMA NoOpType == NoOp \in OpRecord /\ NoCall \in CallRecord
  <1>1. <<>> \in Seq(Kinds \X Rules)
    OBVIOUS
  <1> QED
    BY <1>1 DEF NoOp, NoCall, OpRecord, CallRecord, Roots, Kinds

\* Steps that send no request for a rule and neither send nor hear news.
LEMMA QuietAgree ==
  ASSUME Calls, Agree, UNCHANGED <<match_rules, bus, queue>>, doubtful \subseteq doubtful',
         Len(wire') \in Nat,
         \A r : NoneAsked(r, wire, wire', 0) /\ SameGot(r, call, call')
  PROVE  Agree'
  <1> SUFFICES ASSUME NEW r \in Rules \ doubtful'
               PROVE  AgreeOn(r, queue, wire', call', match_rules, bus[r])
    BY DEF Agree
  <1>1. AgreeOn(r, queue, wire, call, match_rules, bus[r])
    BY DEF Agree
  <1>2. /\ NoneAsked(r, wire, wire', 0) /\ SameNews(r, queue, queue, 0) /\ SameGot(r, call, call')
        /\ 0 \in 0..1 /\ Len(wire) \in Nat /\ Len(queue) \in Nat
    BY TrafficFacts, SameNewsKept
  <1> QED
    BY <1>1, <1>2, AgreeKept

LEMMA LookupInv ==
  ASSUME IInv, NEW t \in Threads, Lookup(t)
  PROVE  IInv'
  <1>inv. Calls /\ Agree /\ Tables /\ RulesTypeOK /\ TableTypes /\ Places
    BY DEF IInv, Calls
  <1>traffic. /\ call \in [Threads -> CallRecord]
              /\ Place(t, op[t], call[t], match_rule_mutex, cb_mutex)
    BY <1>inv, TrafficFacts
  <1> DEFINE e == [what |-> "GetNameOwner", rule |-> NoRule, at |-> "asked", ok |-> FALSE]
  <1>1. /\ op[t].at = "lookup" /\ call[t].at = "none"
        /\ wire' = Sent(t, "GetNameOwner", NoRule)
        /\ call' = [call EXCEPT ![t] = e]
        /\ UNCHANGED <<match_rules, match_rule_mutex, bus, queue, doubtful>>
        /\ UNCHANGED <<kind, table, root, unique, op, calls>>
    BY DEF Lookup
  <1>mutex. cb_mutex' = cb_mutex \/ (cb_mutex \in {"free", t} /\ cb_mutex' = t)
    BY DEF Lookup, Free
  <1>2. e \in CallRecord /\ e.what = "GetNameOwner" /\ e.rule = NoRule /\ e.at = "asked"
    BY DEF CallRecord, Kinds
  <1> HIDE DEF e
  <1>3. call' \in [Threads -> CallRecord] /\ call'[t] = e /\ \A s \in Threads \ {t} : call'[s] = call[s]
    BY <1>traffic, <1>1, <1>2, CallSet
  <1>4. PICK m : /\ m.by = t /\ m.what = "GetNameOwner" /\ m.rule = NoRule /\ ~m.late
                 /\ wire' \in Seq(Request) /\ Grows(wire, wire', m)
    <2>1. t \in Receivers /\ "GetNameOwner" \in Kinds /\ NoRule \in Rules \cup {NoRule}
      BY DEF Receivers, Kinds
    <2> QED
      BY <1>inv, <1>1, <2>1, SentFacts
  <1>5. RulesTypeOK' /\ TableTypes'
    <2>1. RulesTypeOK'
      BY <1>inv, <1>1, <1>3, <1>4 DEF RulesTypeOK, CallRecord
    <2>2. cb_mutex' \in Threads \cup {"free"}
      BY <1>inv, <1>mutex DEF TableTypes
    <2>3. Slots' = Slots
      BY <1>1 DEF Slots
    <2> QED
      BY <1>inv, <1>1, <2>1, <2>2, <2>3 DEF TableTypes
  <1>6. Places'
    <2>1. \A s \in Threads \ {t} : cb_mutex' = s <=> cb_mutex = s
      BY <1>mutex, MatchRulesAssumption
    <2>2. Place(t, op[t], call'[t], match_rule_mutex, cb_mutex')
      BY <1>traffic, <1>1, <1>2, <1>3 DEF Place, IsRule
    <2> QED
      BY <1>inv, <1>1, <1>3, <2>1, <2>2, PlacesMoved
  <1>7. Traffic' /\ Replies'
    <2>1. FitsWire(m, kind, doubtful)
      BY <1>4, MatchRulesAssumption DEF FitsWire, IsRule
    <2>2. WaitsFor(call'[t], m) /\ call[t].at # "asked"
      BY <1>1, <1>2, <1>3, <1>4 DEF WaitsFor
    <2> QED
      BY <1>inv, <1>1, <1>3, <1>4, <2>1, <2>2, TrafficAsked
  <1>8. Agree'
    <2>1. \A r : NoneAsked(r, wire, wire', 0)
      BY <1>4, NoneAskedPut DEF About, IsRule
    <2>2. \A r : SameGot(r, call, call')
      BY <1>1, <1>2, <1>3 DEF SameGot, Got
    <2>3. Len(wire') \in Nat
      BY <1>4
    <2> QED
      BY <1>inv, <1>1, <2>1, <2>2, <2>3, QuietAgree
  <1>9. Tables'
    BY <1>inv, <1>1, <1>3, TablesKept
  <1> QED
    BY <1>5, <1>6, <1>7, <1>8, <1>9 DEF IInv, Calls

LEMMA LookedUpInv ==
  ASSUME IInv, NEW t \in Threads, LookedUp(t)
  PROVE  IInv'
  <1>inv. Calls /\ Agree /\ Tables /\ RulesTypeOK /\ TableTypes /\ Places
    BY DEF IInv, Calls
  <1>traffic. /\ call \in [Threads -> CallRecord] /\ call[t] \in CallRecord /\ op[t] \in OpRecord
              /\ Place(t, op[t], call[t], match_rule_mutex, cb_mutex)
              /\ Len(wire) \in Nat
    BY <1>inv, TrafficFacts DEF TableTypes
  <1> DEFINE e == IF call[t].ok THEN [op[t] EXCEPT !.at = "enter"] ELSE NoOp
  <1>1. /\ op[t].at = "lookup" /\ call[t].at = "replied"
        /\ unique' = (unique \/ call[t].ok)
        /\ op' = [op EXCEPT ![t] = e]
        /\ cb_mutex' = IF cb_mutex = t /\ ~call[t].ok THEN "free" ELSE cb_mutex
        /\ call' = [call EXCEPT ![t] = NoCall]
        /\ UNCHANGED <<match_rules, match_rule_mutex, bus, wire, queue, doubtful>>
        /\ UNCHANGED <<kind, table, root, calls>>
    BY DEF LookedUp
  <1>2. e \in OpRecord /\ e.at # "asks" /\ e.at # "lookup"
    BY <1>traffic, NoOpType DEF OpRecord, NoOp
  <1>3. \/ e.at = "enter" /\ e.slot = op[t].slot /\ e.todo = op[t].todo
        \/ e.at = "idle" /\ e.todo = <<>> /\ ~call[t].ok
    BY <1>traffic DEF OpRecord, NoOp
  <1> HIDE DEF e
  <1>4. /\ call' \in [Threads -> CallRecord] /\ call'[t] = NoCall
        /\ \A s \in Threads \ {t} : call'[s] = call[s]
    BY <1>traffic, <1>1, NoOpType, CallSet
  <1>5. op' \in [Threads -> OpRecord] /\ op'[t] = e /\ \A s \in Threads \ {t} : op'[s] = op[s]
    BY <1>inv, <1>1, <1>2, OpSet DEF TableTypes
  <1>what. call[t].what = "GetNameOwner" /\ op[t].slot \in Slots /\ kind # "filter"
    BY <1>traffic, <1>1 DEF Place
  <1>6. RulesTypeOK' /\ TableTypes'
    <2>1. RulesTypeOK'
      BY <1>inv, <1>1, <1>4 DEF RulesTypeOK, CallRecord
    <2>2. unique' \in BOOLEAN /\ cb_mutex' \in Threads \cup {"free"}
      BY <1>inv, <1>1, <1>traffic DEF TableTypes, CallRecord
    <2>3. Slots' = Slots
      BY <1>1 DEF Slots
    <2> QED
      BY <1>inv, <1>1, <1>5, <2>1, <2>2, <2>3 DEF TableTypes
  <1>7. Places'
    <2>1. \A s \in Threads \ {t} : cb_mutex' = s <=> cb_mutex = s
      BY <1>1, MatchRulesAssumption
    <2>2. ~call[t].ok => cb_mutex' # t
      BY <1>1, MatchRulesAssumption
    <2>3. Place(t, e, NoCall, match_rule_mutex, cb_mutex')
      BY <1>traffic, <1>1, <1>2, <1>3, <1>what, <2>2 DEF Place, NoCall, IsRule
    <2> QED
      BY <1>inv, <1>1, <1>4, <1>5, <2>1, <2>3, PlacesMoved
  <1>8. Traffic' /\ Replies'
    <2>1. \A s \in Threads : call[s].at = "asked" => call'[s] = call[s]
      BY <1>1, <1>4
    <2> QED
      BY <1>inv, <1>1, <2>1, TrafficKept
  <1>9. Agree'
    <2>1. \A r : NoneAsked(r, wire, wire, 0)
      BY <1>traffic, NoneAskedKept
    <2>2. \A r : SameGot(r, call, call')
      BY <1>1, <1>4, <1>what DEF SameGot, Got, Ok, About, IsRule, NoCall
    <2> QED
      BY <1>inv, <1>traffic, <1>1, <2>1, <2>2, QuietAgree
  <1>10. Tables'
    BY <1>inv, <1>1, <1>2, <1>4, <1>5, TablesKept
  <1> QED
    BY <1>6, <1>7, <1>8, <1>9, <1>10 DEF IInv, Calls

LEMMA CallInv ==
  ASSUME IInv, NEW t \in Threads, NEW slot \in Slots, NEW on \in BOOLEAN, NEW to \in Roots,
         NEW named \in {"enter", "lookup"}, Call(t, slot, on, to, named)
  PROVE  IInv'
  <1>inv. Calls /\ Agree /\ Tables /\ RulesTypeOK /\ TableTypes /\ Places
    BY DEF IInv, Calls
  <1>traffic. /\ Place(t, op[t], call[t], match_rule_mutex, cb_mutex)
              /\ Len(wire) \in Nat
    BY <1>inv, TrafficFacts
  <1> DEFINE e == [NoOp EXCEPT !.slot = slot, !.on = on, !.to = to, !.at = named]
  <1>1. /\ op[t].at = "idle" /\ calls < MaxCalls[kind] /\ calls' = calls + 1
        /\ op' = [op EXCEPT ![t] = e]
        /\ UNCHANGED <<match_rules, match_rule_mutex, call, bus, wire, queue, doubtful>>
        /\ UNCHANGED <<kind, cb_mutex, table, root, unique>>
    BY DEF Call, ruleVars
  <1>2. e \in OpRecord /\ e.at \in {"enter", "lookup"} /\ e.slot = slot
    BY NoOpType, SlotsKnown DEF OpRecord, NoOp
  <1> HIDE DEF e
  <1>3. op' \in [Threads -> OpRecord] /\ op'[t] = e /\ \A s \in Threads \ {t} : op'[s] = op[s]
    BY <1>inv, <1>1, <1>2, OpSet DEF TableTypes
  <1>4. kind # "filter"
    BY DEF Slots
  <1>5. RulesTypeOK' /\ TableTypes'
    <2>1. RulesTypeOK'
      BY <1>inv, <1>1 DEF RulesTypeOK
    <2>2. calls' \in 0..MaxCalls[kind]
      BY <1>inv, <1>1, RegistrationsAssumption DEF TableTypes
    <2>3. Slots' = Slots
      BY <1>1 DEF Slots
    <2> QED
      BY <1>inv, <1>1, <1>3, <2>1, <2>2, <2>3 DEF TableTypes
  <1>6. Places'
    <2>1. Place(t, e, call[t], match_rule_mutex, cb_mutex)
      BY <1>traffic, <1>1, <1>2, <1>4 DEF Place
    <2> QED
      BY <1>inv, <1>1, <1>3, <2>1, PlacesMoved
  <1>7. Traffic' /\ Replies'
    BY <1>inv, <1>1, TrafficKept
  <1>8. Agree'
    <2>1. \A r : NoneAsked(r, wire, wire, 0) /\ SameGot(r, call, call)
      BY <1>traffic, NoneAskedKept DEF SameGot
    <2> QED
      BY <1>inv, <1>traffic, <1>1, <2>1, QuietAgree
  <1>9. Tables'
    BY <1>inv, <1>1, <1>2, <1>3, TablesKept
  <1> QED
    BY <1>5, <1>6, <1>7, <1>8, <1>9 DEF IInv, Calls

\* A thread begins to add or to remove a rule.
LEMMA BegunFacts ==
  ASSUME call \in [Threads -> CallRecord], NEW t \in Threads, NEW what \in Kinds, NEW rule \in Rules,
         call' = Begun(t, what, rule)
  PROVE  /\ call' \in [Threads -> CallRecord]
         /\ call'[t] \in CallRecord
         /\ call'[t].at = "ready" /\ call'[t].what = what /\ call'[t].rule = rule
         /\ \A s \in Threads \ {t} : call'[s] = call[s]
  <1> DEFINE e == [what |-> what, rule |-> rule, at |-> "ready", ok |-> FALSE]
  <1>1. e \in CallRecord /\ e.at = "ready" /\ e.what = what /\ e.rule = rule
    BY DEF CallRecord
  <1>2. call' = [call EXCEPT ![t] = e]
    BY DEF Begun
  <1> HIDE DEF e
  <1> QED
    BY <1>1, <1>2, CallSet

LEMMA CallFilterInv ==
  ASSUME IInv, NEW t \in Threads, NEW what \in {"AddMatch", "RemoveMatch"}, NEW rule \in FilterRules,
         CallFilter(t, what, rule)
  PROVE  IInv'
  <1>inv. Calls /\ Agree /\ Tables /\ RulesTypeOK /\ TableTypes /\ Places
    BY DEF IInv, Calls
  <1>traffic. /\ Place(t, op[t], call[t], match_rule_mutex, cb_mutex)
              /\ call \in [Threads -> CallRecord] /\ op[t] \in OpRecord /\ Len(wire) \in Nat
    BY <1>inv, TrafficFacts DEF TableTypes
  <1> DEFINE e == [op[t] EXCEPT !.at = "asks"]
  <1>1. /\ kind = "filter" /\ op[t].at = "idle" /\ calls < MaxCalls[kind] /\ calls' = calls + 1
        /\ op' = [op EXCEPT ![t].at = "asks"]
        /\ call' = Begun(t, what, rule)
        /\ UNCHANGED <<match_rules, match_rule_mutex, bus, wire, queue, doubtful>>
        /\ UNCHANGED <<kind, cb_mutex, table, root, unique>>
    BY DEF CallFilter
  <1>2. e \in OpRecord /\ e.at = "asks" /\ e.slot = op[t].slot /\ e.todo = op[t].todo
    BY <1>traffic DEF OpRecord
  <1>3. op' = [op EXCEPT ![t] = e]
    BY <1>inv, <1>1 DEF TableTypes
  <1> HIDE DEF e
  <1>4. op' \in [Threads -> OpRecord] /\ op'[t] = e /\ \A s \in Threads \ {t} : op'[s] = op[s]
    BY <1>inv, <1>2, <1>3, OpSet DEF TableTypes
  <1>5. what \in Kinds /\ rule \in Rules /\ IsRule(what)
    BY RegistrationsAssumption DEF Kinds, IsRule
  <1>6. /\ call' \in [Threads -> CallRecord]
        /\ call'[t].at = "ready" /\ call'[t].what = what /\ call'[t].rule = rule
        /\ \A s \in Threads \ {t} : call'[s] = call[s]
    BY <1>traffic, <1>1, <1>5, BegunFacts
  <1>none. call[t].at = "none" /\ op[t].todo = <<>> /\ match_rule_mutex # t /\ cb_mutex # t
    BY <1>traffic, <1>1 DEF Place
  <1>7. RulesTypeOK' /\ TableTypes'
    <2>1. RulesTypeOK'
      BY <1>inv, <1>1, <1>6 DEF RulesTypeOK, CallRecord
    <2>2. calls' \in 0..MaxCalls[kind]
      BY <1>inv, <1>1, RegistrationsAssumption DEF TableTypes
    <2>3. Slots' = Slots
      BY <1>1 DEF Slots
    <2> QED
      BY <1>inv, <1>1, <1>4, <2>1, <2>2, <2>3 DEF TableTypes
  <1>8. Places'
    <2>1. Place(t, e, call'[t], match_rule_mutex, cb_mutex)
      BY <1>none, <1>1, <1>2, <1>5, <1>6 DEF Place
    <2> QED
      BY <1>inv, <1>1, <1>4, <1>6, <2>1, PlacesMoved
  <1>9. Traffic' /\ Replies'
    <2>1. \A s \in Threads : call[s].at = "asked" => call'[s] = call[s]
      BY <1>none, <1>6
    <2> QED
      BY <1>inv, <1>1, <2>1, TrafficKept
  <1>10. Agree'
    <2>1. \A r : NoneAsked(r, wire, wire, 0)
      BY <1>traffic, NoneAskedKept
    <2>2. \A r : SameGot(r, call, call')
      BY <1>none, <1>6 DEF SameGot, Got
    <2> QED
      BY <1>inv, <1>traffic, <1>1, <2>1, <2>2, QuietAgree
  <1>11. Tables'
    BY <1>1 DEF Tables
  <1> QED
    BY <1>7, <1>8, <1>9, <1>10, <1>11 DEF IInv, Calls

-----------------------------------------------------------------------------
(* What a plan may ask for, when the mutex is taken: a callback is added,    *)
(* one is removed, or "added" moves to another root.                         *)

RootOf(slot, on, to, at) == IF slot = "added" /\ on THEN to ELSE at

PlanAdds(p, slot, on, to, tbl, at) ==
  /\ p.todo = << <<"AddMatch", RuleOf(slot, RootOf(slot, on, to, at))>> >>
  /\ p.during \in {tbl, tbl \cup {slot}}
  /\ p.done = tbl \cup {slot} /\ p.failed = tbl \ {slot}

PlanDrops(p, slot, on, tbl, at) ==
  /\ slot = "added" => ~on
  /\ p.todo = << <<"RemoveMatch", RuleOf(slot, at)>> >>
  /\ p.during \in {tbl, tbl \ {slot}}
  /\ p.done = tbl \ {slot} /\ p.failed = tbl \ {slot}

PlanMoves(p, slot, on, to, tbl, at) ==
  /\ slot = "added" /\ slot \in tbl /\ on /\ to # at
  /\ p.todo = << <<"AddMatch", to>>, <<"RemoveMatch", at>> >>
  /\ p.during = tbl /\ p.done = tbl /\ p.failed = tbl

PlanFits(p, slot, on, to, tbl, at) ==
  \/ PlanAdds(p, slot, on, to, tbl, at)
  \/ PlanDrops(p, slot, on, tbl, at)
  \/ PlanMoves(p, slot, on, to, tbl, at)

LEMMA RuleOfType ==
  ASSUME NEW slot \in Slots, NEW at \in Roots
  PROVE  RuleOf(slot, at) \in Rules
  BY RegistrationsAssumption DEF Slots, RuleOf, Roots

LEMMA PlanFields ==
  ASSUME NEW todo, NEW during, NEW done, NEW failed
  PROVE  /\ Plan(todo, during, done, failed).todo = todo
         /\ Plan(todo, during, done, failed).during = during
         /\ Plan(todo, during, done, failed).done = done
         /\ Plan(todo, during, done, failed).failed = failed
  BY DEF Plan

\* What the functions plan for a slot of their class.
LEMMA PlanFacts ==
  ASSUME NEW o, o.slot \in Slots, kind \in KindsUsed, PlanOf(o).todo # <<>>
  PROVE  PlanFits(PlanOf(o), o.slot, o.on, o.to, table, root)
  <1>kinds. /\ kind \in {"properties", "manager", "proxy"}
            /\ kind = "properties" => o.slot \in {"changed", "elsewhere"}
            /\ kind = "manager" => o.slot \in {"added_top", "removed"}
            /\ kind = "proxy" => o.slot \in {"signal", "changed", "added"}
    BY RegistrationsAssumption DEF Slots
  <1>root. o.slot # "added" => RootOf(o.slot, o.on, o.to, root) = root
    BY DEF RootOf
  <1>same. o.slot \notin table => table \ {o.slot} = table
    OBVIOUS
  <1>1. CASE kind = "properties"
    <2>1. PlanOf(o) = properties_changed(o.slot, o.on)
      BY <1>1 DEF PlanOf
    <2> QED
      BY <1>1, <1>kinds, <1>root, <1>same, <2>1
        DEF properties_changed, AsItIs, Plan, Add, Drop, With, Without, PlanFits, PlanAdds, PlanDrops
  <1>2. CASE kind = "manager"
    <2>1. PlanOf(o) = interfaces(o.slot, o.on)
      BY <1>2 DEF PlanOf
    <2> QED
      BY <1>2, <1>kinds, <1>root, <1>same, <2>1
        DEF interfaces, AsItIs, Plan, Add, Drop, With, Without, PlanFits, PlanAdds, PlanDrops
  <1>3. CASE kind = "proxy" /\ o.slot = "signal"
    <2>1. PlanOf(o) = signal(o.slot, o.on)
      BY <1>3 DEF PlanOf
    <2> QED
      BY <1>3, <1>root, <1>same, <2>1
        DEF signal, AsItIs, Plan, Add, Drop, With, Without, PlanFits, PlanAdds, PlanDrops
  <1>4. CASE kind = "proxy" /\ o.slot = "changed"
    <2>1. PlanOf(o) = proxy_properties(o.slot, o.on)
      BY <1>4 DEF PlanOf
    <2> QED
      BY <1>4, <1>root, <1>same, <2>1
        DEF proxy_properties, AsItIs, Plan, Add, Drop, With, Without, PlanFits, PlanAdds, PlanDrops
  <1>5. CASE kind = "proxy" /\ o.slot = "added"
    <2>1. PlanOf(o) = proxy_interfaces(o.slot, o.on, o.to)
      BY <1>5 DEF PlanOf
    <2>2. \A at : RuleOf(o.slot, at) = at
      BY <1>5 DEF RuleOf
    <2>3. CASE o.on /\ o.slot \notin table
      <3>1. PlanOf(o) = Plan(<< <<"AddMatch", o.to>> >>, table, With(o.slot), table)
        BY <2>1, <2>2, <2>3 DEF proxy_interfaces
      <3>2. RootOf(o.slot, o.on, o.to, root) = o.to
        BY <1>5, <2>3 DEF RootOf
      <3>3. /\ PlanOf(o).todo = << <<"AddMatch", o.to>> >> /\ PlanOf(o).during = table
            /\ PlanOf(o).done = table \cup {o.slot} /\ PlanOf(o).failed = table
        BY <3>1, PlanFields DEF With
      <3>4. RuleOf(o.slot, RootOf(o.slot, o.on, o.to, root)) = o.to
        BY <2>2, <3>2
      <3>5. PlanAdds(PlanOf(o), o.slot, o.on, o.to, table, root)
        BY <1>same, <2>3, <3>3, <3>4 DEF PlanAdds
      <3> QED
        BY <3>5 DEF PlanFits
    <2>4. CASE o.on /\ o.slot \in table /\ o.to # root
      <3>1. PlanOf(o) = Plan(<< <<"AddMatch", o.to>>, <<"RemoveMatch", root>> >>, table, table, table)
        BY <2>1, <2>2, <2>4 DEF proxy_interfaces
      <3>2. /\ PlanOf(o).todo = << <<"AddMatch", o.to>>, <<"RemoveMatch", root>> >>
            /\ PlanOf(o).during = table /\ PlanOf(o).done = table /\ PlanOf(o).failed = table
        BY <3>1, PlanFields
      <3>3. PlanMoves(PlanOf(o), o.slot, o.on, o.to, table, root)
        BY <1>5, <2>4, <3>2 DEF PlanMoves
      <3> QED
        BY <3>3 DEF PlanFits
    <2>5. CASE ~o.on /\ o.slot \in table
      <3>1. PlanOf(o) = Plan(Drop(o.slot), table, Without(o.slot), Without(o.slot))
        BY <2>1, <2>5 DEF proxy_interfaces, Drop
      <3> QED
        BY <2>5, <3>1 DEF Plan, Drop, Without, PlanFits, PlanDrops
    <2>6. CASE /\ ~(o.on /\ o.slot \notin table) /\ ~(o.on /\ o.slot \in table /\ o.to # root)
               /\ ~(~o.on /\ o.slot \in table)
      BY <2>1, <2>6 DEF proxy_interfaces, AsItIs, Plan
    <2> QED
      BY <2>3, <2>4, <2>5, <2>6
  <1> QED
    BY <1>kinds, <1>1, <1>2, <1>3, <1>4, <1>5

\* A plan with nothing to ask for leaves the table.
LEMMA EmptyPlan ==
  ASSUME NEW o, o.slot \in Slots, kind \in KindsUsed, PlanOf(o).todo = <<>>
  PROVE  PlanOf(o).during = table
  <1>kinds. /\ kind \in {"properties", "manager", "proxy"}
            /\ kind = "proxy" => o.slot \in {"signal", "changed", "added"}
    BY RegistrationsAssumption DEF Slots
  <1>2. kind = "properties" => PlanOf(o).during = table
    BY DEF PlanOf, properties_changed, AsItIs, Plan, Add, Drop
  <1>3. kind = "manager" => PlanOf(o).during = table
    BY DEF PlanOf, interfaces, AsItIs, Plan, Add, Drop
  <1>4. kind = "proxy" /\ o.slot = "signal" => PlanOf(o).during = table
    BY DEF PlanOf, signal, AsItIs, Plan, Add, Drop
  <1>5. kind = "proxy" /\ o.slot = "changed" => PlanOf(o).during = table
    BY DEF PlanOf, proxy_properties, AsItIs, Plan, Add, Drop
  <1>6. kind = "proxy" /\ o.slot = "added" => PlanOf(o).during = table
    BY DEF PlanOf, proxy_interfaces, AsItIs, Plan, Add, Drop
  <1> QED
    BY <1>kinds, <1>2, <1>3, <1>4, <1>5, <1>6

-----------------------------------------------------------------------------
(* The steps that take the mutex of the table, and the one that gives it back *)

LEMMA TailOfPlan ==
  ASSUME NEW S, NEW a \in S, NEW b \in S
  PROVE  Tail(<<a>>) = <<>> /\ Tail(<<a, b>>) = <<b>>
  OBVIOUS

\* The first request, and what is left.
LEMMA PlanTypes ==
  ASSUME NEW p, NEW slot \in Slots, NEW on \in BOOLEAN, NEW to \in Roots,
         table \subseteq Slots, root \in Roots,
         PlanFits(p, slot, on, to, table, root)
  PROVE  /\ p.todo[1][1] \in {"AddMatch", "RemoveMatch"} /\ p.todo[1][2] \in Rules
         /\ Tail(p.todo) \in Seq(Kinds \X Rules)
         /\ p.during \subseteq Slots /\ p.done \subseteq AllSlots /\ p.failed \subseteq AllSlots
         /\ PlanAdds(p, slot, on, to, table, root) =>
              /\ p.todo[1] = <<"AddMatch", RuleOf(slot, RootOf(slot, on, to, root))>> /\ Tail(p.todo) = <<>>
         /\ PlanDrops(p, slot, on, table, root) =>
              /\ p.todo[1] = <<"RemoveMatch", RuleOf(slot, root)>> /\ Tail(p.todo) = <<>>
         /\ PlanMoves(p, slot, on, to, table, root) =>
              /\ p.todo[1] = <<"AddMatch", to>> /\ Tail(p.todo) = << <<"RemoveMatch", root>> >>
  <1>1. RootOf(slot, on, to, root) \in Roots
    BY DEF RootOf
  <1>2. RuleOf(slot, RootOf(slot, on, to, root)) \in Rules /\ RuleOf(slot, root) \in Rules
    BY <1>1, RuleOfType
  <1>3. to \in Rules /\ root \in Rules /\ "AddMatch" \in Kinds /\ "RemoveMatch" \in Kinds
    BY RegistrationsAssumption DEF Kinds
  <1>sets. /\ p.during \subseteq Slots /\ p.done \subseteq AllSlots /\ p.failed \subseteq AllSlots
    BY SlotsKnown DEF PlanFits, PlanAdds, PlanDrops, PlanMoves
  <1>4. CASE PlanAdds(p, slot, on, to, table, root)
    <2> DEFINE a == <<"AddMatch", RuleOf(slot, RootOf(slot, on, to, root))>>
    <2>1. a \in Kinds \X Rules /\ p.todo = <<a>> /\ a[1] = "AddMatch"
          /\ a[2] = RuleOf(slot, RootOf(slot, on, to, root))
      BY <1>2, <1>3, <1>4 DEF PlanAdds
    <2> HIDE DEF a
    <2>2. p.todo[1] = a /\ Tail(p.todo) = <<>> /\ <<>> \in Seq(Kinds \X Rules)
      BY <2>1, TailOfPlan
    <2>3. ~PlanDrops(p, slot, on, table, root)
      BY <2>1, <2>2 DEF PlanDrops
    <2>4. ~PlanMoves(p, slot, on, to, table, root)
      <3>1. PlanMoves(p, slot, on, to, table, root) => Len(p.todo) = 2
        BY DEF PlanMoves
      <3>2. Len(p.todo) = 1
        BY <2>1
      <3> QED
        BY <3>1, <3>2
    <2> QED
      BY <1>2, <1>sets, <2>1, <2>2, <2>3, <2>4 DEF a
  <1>5. CASE PlanDrops(p, slot, on, table, root)
    <2> DEFINE a == <<"RemoveMatch", RuleOf(slot, root)>>
    <2>1. a \in Kinds \X Rules /\ p.todo = <<a>> /\ a[1] = "RemoveMatch" /\ a[2] = RuleOf(slot, root)
      BY <1>2, <1>3, <1>5 DEF PlanDrops
    <2> HIDE DEF a
    <2>2. p.todo[1] = a /\ Tail(p.todo) = <<>> /\ <<>> \in Seq(Kinds \X Rules)
      BY <2>1, TailOfPlan
    <2>3. ~PlanAdds(p, slot, on, to, table, root) /\ ~PlanMoves(p, slot, on, to, table, root)
      BY <2>1, <2>2 DEF PlanAdds, PlanMoves
    <2> QED
      BY <1>2, <1>sets, <2>1, <2>2, <2>3 DEF a
  <1>6. CASE PlanMoves(p, slot, on, to, table, root)
    <2> DEFINE a == <<"AddMatch", to>>
               b == <<"RemoveMatch", root>>
    <2>1. a \in Kinds \X Rules /\ b \in Kinds \X Rules /\ p.todo = <<a, b>> /\ a[1] = "AddMatch" /\ a[2] = to
      BY <1>3, <1>6 DEF PlanMoves
    <2> HIDE DEF a, b
    <2>2. p.todo[1] = a /\ Tail(p.todo) = <<b>> /\ <<b>> \in Seq(Kinds \X Rules) /\ Len(p.todo) = 2
      BY <2>1, TailOfPlan
    <2>3. ~PlanDrops(p, slot, on, table, root)
      BY <2>1, <2>2 DEF PlanDrops
    <2>4. ~PlanAdds(p, slot, on, to, table, root)
      <3>1. PlanAdds(p, slot, on, to, table, root) => Len(p.todo) = 1
        BY DEF PlanAdds
      <3> QED
        BY <2>2, <3>1
    <2> QED
      BY <1>3, <1>sets, <2>1, <2>2, <2>3, <2>4 DEF a, b
  <1> QED
    BY <1>4, <1>5, <1>6 DEF PlanFits

\* The rules that a plan removes and another callback needs.
LEMMA RobbedFacts ==
  ASSUME NEW slot, NEW p, NEW s \in table \ {slot}
  PROVE  /\ \A on : PlanDrops(p, slot, on, table, root) /\ RuleOf(s, root) = RuleOf(slot, root) =>
              RuleOf(s, root) \in Robbed(slot, p)
         /\ \A on, to : PlanMoves(p, slot, on, to, table, root) /\ RuleOf(s, root) = root =>
              RuleOf(s, root) \in Robbed(slot, p)
  <1>1. ASSUME NEW on, PlanDrops(p, slot, on, table, root), RuleOf(s, root) = RuleOf(slot, root)
        PROVE  RuleOf(s, root) \in Robbed(slot, p)
    <2>1. p.todo = << <<"RemoveMatch", RuleOf(slot, root)>> >>
      BY <1>1 DEF PlanDrops
    <2>2. 1 \in DOMAIN p.todo /\ p.todo[1][1] = "RemoveMatch" /\ p.todo[1][2] = RuleOf(s, root)
      BY <1>1, <2>1
    <2> QED
      BY <2>2 DEF Robbed
  <1>2. ASSUME NEW on, NEW to, PlanMoves(p, slot, on, to, table, root), RuleOf(s, root) = root
        PROVE  RuleOf(s, root) \in Robbed(slot, p)
    <2>1. p.todo = << <<"AddMatch", to>>, <<"RemoveMatch", root>> >>
      BY <1>2 DEF PlanMoves
    <2>2. 2 \in DOMAIN p.todo /\ p.todo[2][1] = "RemoveMatch" /\ p.todo[2][2] = RuleOf(s, root)
      BY <1>2, <2>1
    <2> QED
      BY <2>2 DEF Robbed
  <1> QED
    BY <1>1, <1>2

LEMMA CarryInv ==
  ASSUME IInv, kind # "filter", NEW t \in Threads, NEW slot \in Slots, NEW p,
         op[t].at \in {"idle", "enter"}, cb_mutex \in {"free", t},
         PlanFits(p, slot, op[t].on, op[t].to, table, root),
         Carry(t, slot, p), table' = p.during, calls' \in 0..MaxCalls[kind],
         UNCHANGED <<match_rules, match_rule_mutex, bus, wire, queue, kind, root, unique>>
  PROVE  IInv'
  <1>inv. Calls /\ Agree /\ Tables /\ RulesTypeOK /\ TableTypes /\ Places
    BY DEF IInv, Calls
  <1>traffic. /\ \A s \in Threads : Place(s, op[s], call[s], match_rule_mutex, cb_mutex)
              /\ call \in [Threads -> CallRecord] /\ Len(wire) \in Nat
              /\ op[t] \in OpRecord /\ root \in Roots /\ table \subseteq Slots
    BY <1>inv, TrafficFacts DEF TableTypes
  <1> DEFINE e == [op[t] EXCEPT !.at = "asks", !.slot = slot, !.todo = Tail(p.todo),
                                !.done = p.done, !.failed = p.failed]
             what == p.todo[1][1]
             rule == p.todo[1][2]
  <1>on. op[t].on \in BOOLEAN /\ op[t].to \in Roots
    BY <1>traffic DEF OpRecord
  <1>types. /\ what \in {"AddMatch", "RemoveMatch"} /\ rule \in Rules
            /\ Tail(p.todo) \in Seq(Kinds \X Rules)
            /\ p.during \subseteq Slots /\ p.done \subseteq AllSlots /\ p.failed \subseteq AllSlots
    BY <1>traffic, <1>on, PlanTypes
  <1>1. /\ op' = [op EXCEPT ![t] = e]
        /\ call' = Begun(t, what, rule)
        /\ cb_mutex' = t
        /\ doubtful' = doubtful \cup Robbed(slot, p)
    BY <1>inv DEF Carry, TableTypes
  <1>2. e \in OpRecord
    BY <1>traffic, <1>types, SlotsKnown DEF OpRecord
  <1>3. /\ e.at = "asks" /\ e.slot = slot /\ e.on = op[t].on /\ e.to = op[t].to
        /\ e.todo = Tail(p.todo) /\ e.done = p.done /\ e.failed = p.failed
    BY <1>traffic DEF OpRecord
  <1> HIDE DEF e, what, rule
  <1>4. op' \in [Threads -> OpRecord] /\ op'[t] = e /\ \A s \in Threads \ {t} : op'[s] = op[s]
    BY <1>inv, <1>1, <1>2, OpSet DEF TableTypes
  <1>what. what \in Kinds /\ IsRule(what)
    BY <1>types DEF Kinds, IsRule
  <1>5. /\ call' \in [Threads -> CallRecord]
        /\ call'[t].at = "ready" /\ call'[t].what = what /\ call'[t].rule = rule
        /\ \A s \in Threads \ {t} : call'[s] = call[s]
    BY <1>traffic, <1>1, <1>what, <1>types, BegunFacts
  <1>none. call[t].at = "none" /\ match_rule_mutex # t /\ op[t].at # "asks"
    BY <1>traffic DEF Place
  <1>others. \A s \in Threads \ {t} : op'[s].at # "asks" /\ op[s].at # "asks"
    BY <1>traffic, <1>4, MatchRulesAssumption DEF Place
  <1>kept. \A s \in table : Kept(s, root, match_rules, doubtful)
    BY <1>inv, <1>none, <1>others DEF Tables
  <1>6. doubtful \subseteq doubtful' /\ doubtful' \subseteq Rules
    <2>1. Robbed(slot, p) \subseteq {RuleOf(s, root) : s \in table \ {slot}}
      BY DEF Robbed
    <2>2. Robbed(slot, p) \subseteq Rules
      BY <1>traffic, <2>1, RuleOfType
    <2> QED
      BY <1>inv, <1>1, <2>2 DEF RulesTypeOK
  <1>7. RulesTypeOK' /\ TableTypes'
    <2>1. RulesTypeOK'
      BY <1>inv, <1>5, <1>6 DEF RulesTypeOK, CallRecord
    <2>2. Slots' = Slots
      BY DEF Slots
    <2> QED
      BY <1>inv, <1>1, <1>4, <1>types, <2>1, <2>2 DEF TableTypes
  <1>8. Places'
    <2>1. Place(t, e, call'[t], match_rule_mutex, t)
      BY <1>none, <1>3, <1>5, <1>what, <1>types DEF Place
    <2>2. \A s \in Threads \ {t} : cb_mutex' = s <=> cb_mutex = s
      BY <1>1, MatchRulesAssumption
    <2> QED
      BY <1>inv, <1>1, <1>4, <1>5, <2>1, <2>2, PlacesMoved
  <1>9. Traffic' /\ Replies'
    <2>1. \A s \in Threads : call[s].at = "asked" => call'[s] = call[s]
      BY <1>none, <1>5
    <2> QED
      BY <1>inv, <1>6, <2>1, TrafficKept
  <1>10. Agree'
    <2>1. \A r : NoneAsked(r, wire, wire, 0)
      BY <1>traffic, NoneAskedKept
    <2>2. \A r : SameGot(r, call, call')
      BY <1>none, <1>5 DEF SameGot, Got
    <2> QED
      BY <1>inv, <1>traffic, <1>6, <2>1, <2>2, QuietAgree
  <1>11. Carries(e, call'[t], p.during, root, match_rules, doubtful')
    <2>1. CASE PlanAdds(p, slot, op[t].on, op[t].to, table, root)
      <3>1. /\ p.todo[1] = <<"AddMatch", RuleOf(slot, RootOf(slot, op[t].on, op[t].to, root))>>
            /\ Tail(p.todo) = <<>>
        BY <1>traffic, <1>on, <2>1, PlanTypes
      <3>2. what = "AddMatch" /\ rule = RuleOf(e.slot, RootAfter(e, root))
        BY <1>3, <3>1 DEF what, rule, RootAfter, RootOf
      <3>3. \A s \in p.during \ {slot} : s \in table
        BY <2>1 DEF PlanAdds
      <3>4. \A s \in p.during \ {e.slot} : Safe(s, call'[t], root, match_rules, doubtful')
        BY <1>3, <1>5, <1>6, <1>kept, <3>2, <3>3 DEF Safe, Kept
      <3>5. /\ e.done = p.during \cup {e.slot} /\ e.failed = p.during \ {e.slot}
        BY <1>3, <2>1 DEF PlanAdds
      <3> QED
        BY <1>3, <1>5, <3>1, <3>2, <3>4, <3>5 DEF Carries, Adding, IsAdded
    <2>2. CASE PlanDrops(p, slot, op[t].on, table, root)
      <3>1. p.todo[1] = <<"RemoveMatch", RuleOf(slot, root)>> /\ Tail(p.todo) = <<>>
        BY <1>traffic, <1>on, <2>2, PlanTypes
      <3>2. what = "RemoveMatch" /\ rule = RuleOf(slot, root)
        BY <3>1 DEF what, rule
      <3>3. RootAfter(e, root) = root
        BY <1>3, <2>2 DEF RootAfter, PlanDrops
      <3>4. \A s \in p.during \ {slot} : s \in table
        BY <2>2 DEF PlanDrops
      <3>5. \A s \in p.during \ {e.slot} : Safe(s, call'[t], root, match_rules, doubtful')
        <4> SUFFICES ASSUME NEW s \in p.during \ {slot}
                     PROVE  Safe(s, call'[t], root, match_rules, doubtful')
          BY <1>3
        <4>1. RuleOf(s, root) = RuleOf(slot, root) => RuleOf(s, root) \in doubtful'
          BY <1>1, <2>2, <3>4, RobbedFacts
        <4> QED
          BY <1>5, <1>6, <1>kept, <3>2, <3>4, <4>1 DEF Safe, Kept
      <3>6. e.done = e.failed /\ e.done = p.during \ {e.slot}
        BY <1>3, <2>2 DEF PlanDrops
      <3> QED
        BY <1>3, <1>5, <3>1, <3>2, <3>3, <3>5, <3>6 DEF Carries, Dropping
    <2>3. CASE PlanMoves(p, slot, op[t].on, op[t].to, table, root)
      <3>1. p.todo[1] = <<"AddMatch", op[t].to>> /\ Tail(p.todo) = << <<"RemoveMatch", root>> >>
        BY <1>traffic, <1>on, <2>3, PlanTypes
      <3>2. what = "AddMatch" /\ rule = op[t].to
        BY <3>1 DEF what, rule
      <3>3. /\ slot = "added" /\ slot \in table /\ op[t].on /\ op[t].to # root
            /\ p.during = table /\ p.done = table /\ p.failed = table
        BY <2>3 DEF PlanMoves
      <3>4. \A s \in table \ {slot} : Safe(s, call'[t], root, match_rules, doubtful')
        BY <1>5, <1>6, <1>kept, <3>2 DEF Safe, Kept
      <3>5. \A s \in table \ {slot} : RuleOf(s, root) \in doubtful' \/ RuleOf(s, root) # root
        BY <1>1, <2>3, RobbedFacts
      <3>6. Kept(slot, root, match_rules, doubtful')
        BY <1>6, <1>kept, <3>3 DEF Kept
      <3> QED
        BY <1>3, <1>5, <3>1, <3>2, <3>3, <3>4, <3>5, <3>6 DEF Carries, Moving, IsAdded
    <2> QED
      BY <2>1, <2>2, <2>3 DEF PlanFits
  <1>12. Tables'
    <2>1. \A s \in Threads : op'[s].at = "asks" => s = t
      BY <1>others
    <2>2. op'[t].at = "asks"
      BY <1>3, <1>4
    <2> QED
      BY <1>4, <1>11, <2>1, <2>2 DEF Tables
  <1> QED
    BY <1>7, <1>8, <1>9, <1>10, <1>12 DEF IInv, Calls

LEMMA EnterInv ==
  ASSUME IInv, NEW t \in Threads, Enter(t)
  PROVE  IInv'
  <1>inv. Calls /\ Agree /\ Tables /\ RulesTypeOK /\ TableTypes /\ Places
    BY DEF IInv, Calls
  <1>traffic. /\ \A s \in Threads : Place(s, op[s], call[s], match_rule_mutex, cb_mutex)
              /\ Len(wire) \in Nat /\ op[t] \in OpRecord
    BY <1>inv, TrafficFacts DEF TableTypes
  <1> DEFINE p == PlanOf(op[t])
  <1>1. /\ op[t].at = "enter" /\ cb_mutex \in {"free", t}
        /\ table' = p.during
        /\ \/ p.todo # <<>> /\ Carry(t, op[t].slot, p)
           \/ /\ p.todo = <<>> /\ op' = [op EXCEPT ![t] = NoOp] /\ cb_mutex' = "free"
              /\ UNCHANGED <<call, doubtful>>
        /\ UNCHANGED <<match_rules, match_rule_mutex, bus, wire, queue>>
        /\ UNCHANGED <<kind, root, unique, calls>>
    BY DEF Enter, Free
  <1>2. op[t].slot \in Slots /\ kind # "filter" /\ kind \in KindsUsed /\ call[t].at = "none"
    BY <1>inv, <1>traffic, <1>1 DEF Place, TableTypes
  <1>3. p.todo # <<>> => PlanFits(p, op[t].slot, op[t].on, op[t].to, table, root)
    BY <1>2, PlanFacts
  <1>4. p.todo = <<>> => p.during = table
    BY <1>2, EmptyPlan
  <1> HIDE DEF p
  <1>5. CASE p.todo # <<>> /\ Carry(t, op[t].slot, p)
    <2>1. calls' \in 0..MaxCalls[kind]
      BY <1>inv, <1>1 DEF TableTypes
    <2> QED
      BY <1>1, <1>2, <1>3, <1>5, <2>1, CarryInv
  <1>6. CASE /\ p.todo = <<>> /\ op' = [op EXCEPT ![t] = NoOp] /\ cb_mutex' = "free"
             /\ UNCHANGED <<call, doubtful>>
    <2>1. op' \in [Threads -> OpRecord] /\ op'[t] = NoOp /\ \A s \in Threads \ {t} : op'[s] = op[s]
      BY <1>inv, <1>6, NoOpType, OpSet DEF TableTypes
    <2>2. RulesTypeOK' /\ TableTypes'
      <3>1. Slots' = Slots
        BY <1>1 DEF Slots
      <3> QED
        BY <1>inv, <1>1, <1>4, <1>6, <2>1, <3>1 DEF RulesTypeOK, TableTypes
    <2>3. Places'
      <3>1. \A s \in Threads : cb_mutex' # s
        BY <1>6, MatchRulesAssumption
      <3>2. \A s \in Threads \ {t} : cb_mutex' = s <=> cb_mutex = s
        BY <1>1, <3>1, MatchRulesAssumption
      <3>3. Place(t, NoOp, call[t], match_rule_mutex, cb_mutex')
        BY <1>traffic, <1>1, <1>2, <3>1 DEF Place, NoOp
      <3> QED
        BY <1>inv, <1>1, <1>6, <2>1, <3>2, <3>3, PlacesMoved
    <2>4. Traffic' /\ Replies'
      BY <1>inv, <1>1, <1>6, TrafficKept
    <2>5. Agree'
      <3>1. \A r : NoneAsked(r, wire, wire, 0) /\ SameGot(r, call, call)
        BY <1>traffic, NoneAskedKept DEF SameGot
      <3> QED
        BY <1>inv, <1>traffic, <1>1, <1>6, <3>1, QuietAgree
    <2>6. Tables'
      <3>1. op[t].at # "asks" /\ op'[t].at # "asks"
        BY <1>1, <2>1 DEF NoOp
      <3>2. \A s \in Threads : /\ op'[s].at = "asks" <=> op[s].at = "asks"
                               /\ op[s].at = "asks" => op'[s] = op[s] /\ call'[s] = call[s]
        BY <1>6, <2>1, <3>1
      <3> QED
        BY <1>inv, <1>1, <1>4, <1>6, <3>2, TablesKept
    <2> QED
      BY <2>2, <2>3, <2>4, <2>5, <2>6 DEF IInv, Calls
  <1> QED
    BY <1>1, <1>5, <1>6

LEMMA ClearSignalsInv ==
  ASSUME IInv, NEW t \in Threads, ClearSignals(t)
  PROVE  IInv'
  <1>inv. TableTypes
    BY DEF IInv, Calls
  <1> DEFINE p == Plan(Drop("signal"), table, Without("signal"), Without("signal"))
  <1>1. /\ kind = "proxy" /\ op[t].at = "idle" /\ calls < MaxCalls[kind] /\ cb_mutex = "free"
        /\ calls' = calls + 1
        /\ Carry(t, "signal", p)
        /\ UNCHANGED <<match_rules, match_rule_mutex, bus, wire, queue, kind, root, unique>>
        /\ table' = table
    BY DEF ClearSignals
  <1>2. /\ p.todo = << <<"RemoveMatch", RuleOf("signal", root)>> >> /\ p.during = table
        /\ p.done = table \ {"signal"} /\ p.failed = table \ {"signal"}
    BY PlanFields DEF Drop, Without
  <1> HIDE DEF p
  <1>3. PlanFits(p, "signal", op[t].on, op[t].to, table, root)
    BY <1>2 DEF PlanFits, PlanDrops
  <1>4. "signal" \in Slots /\ kind # "filter"
    BY <1>1 DEF Slots
  <1>5. calls' \in 0..MaxCalls[kind]
    BY <1>inv, <1>1, RegistrationsAssumption DEF TableTypes
  <1> QED
    BY <1>1, <1>2, <1>3, <1>4, <1>5, CarryInv

\* The last request has been answered: the table, the root and the rules of
\* the callbacks that stay.
LEMMA LastRequest ==
  ASSUME NEW o, NEW c, NEW tbl, NEW at, NEW known, NEW unsure,
         c.at = "done", c.ok \in BOOLEAN, Carries(o, c, tbl, at, known, unsure),
         ~(c.ok /\ o.todo # <<>>),
         NEW s \in (IF c.ok THEN o.done ELSE o.failed)
  PROVE  Kept(s, IF c.ok /\ o.slot = "added" /\ o.on THEN o.to ELSE at, known, unsure)
  <1> DEFINE at2 == IF c.ok /\ o.slot = "added" /\ o.on THEN o.to ELSE at
  <1>1. \A x \in tbl \ {o.slot} : Kept(x, at, known, unsure)
    BY DEF Carries, Safe, Kept
  <1>2. \A x \in tbl \ {o.slot} : RuleOf(x, at2) = RuleOf(x, at)
    BY DEF RuleOf
  <1>3. CASE Adding(o, c, tbl, at, known)
    <2>1. s \in tbl \ {o.slot} \/ (c.ok /\ s = o.slot)
      BY <1>3 DEF Adding
    <2>2. c.ok => RuleOf(o.slot, at2) \in known
      BY <1>3 DEF Adding, IsAdded, RootAfter
    <2> QED
      BY <1>1, <1>2, <2>1, <2>2 DEF Kept
  <1>4. CASE Moving(o, c, tbl, at, known, unsure)
    <2>1. ~c.ok /\ at2 = at /\ s \in tbl
      BY <1>4 DEF Moving
    <2> QED
      BY <1>1, <1>4, <2>1 DEF Moving
  <1>5. CASE Dropping(o, c, tbl, at, known, unsure)
    <2>1. at2 = at
      BY <1>5 DEF Dropping, RootAfter
    <2>2. s \in tbl /\ (s = o.slot => Safe(o.slot, c, at, known, unsure))
      BY <1>5 DEF Dropping
    <2>3. s = o.slot => Kept(s, at, known, unsure)
      BY <2>2 DEF Safe, Kept
    <2> QED
      BY <1>1, <2>1, <2>2, <2>3
  <1> QED
    BY <1>3, <1>4, <1>5 DEF Carries

\* "added" has got its new rule; the old one is removed.
LEMMA NextRequest ==
  ASSUME NEW o, NEW c, NEW o2, NEW c2, NEW tbl, NEW at, NEW known, NEW unsure,
         c.at = "done", c.ok, Carries(o, c, tbl, at, known, unsure), o.todo # <<>>,
         o2.slot = o.slot, o2.on = o.on, o2.to = o.to,
         o2.todo = Tail(o.todo), o2.done = o.done, o2.failed = o.done,
         c2.what = o.todo[1][1], c2.rule = o.todo[1][2]
  PROVE  /\ o.slot = "added" /\ o.on /\ c2.what = "RemoveMatch" /\ c2.rule = at
         /\ Carries(o2, c2, tbl, o.to, known, unsure)
  <1>1. Moving(o, c, tbl, at, known, unsure)
    BY DEF Carries, Adding, Dropping
  <1>2. /\ o.slot = "added" /\ o.slot \in tbl /\ o.on /\ o.to # at /\ o.to \in known
        /\ o.todo = << <<"RemoveMatch", at>> >> /\ o.done = tbl
        /\ \A s \in tbl \ {o.slot} : RuleOf(s, at) \in unsure \/ RuleOf(s, at) # at
    BY <1>1 DEF Moving, IsAdded
  <1>3. o2.todo = <<>> /\ c2.what = "RemoveMatch" /\ c2.rule = at
    BY <1>2
  <1>4. \A s \in tbl \ {o2.slot} : Safe(s, c2, o.to, known, unsure)
    <2> SUFFICES ASSUME NEW s \in tbl \ {o.slot}
                 PROVE  Safe(s, c2, o.to, known, unsure)
      OBVIOUS
    <2>1. RuleOf(s, o.to) = RuleOf(s, at)
      BY <1>2 DEF RuleOf
    <2>2. Safe(s, c, at, known, unsure)
      BY DEF Carries
    <2> QED
      BY <1>2, <1>3, <2>1, <2>2 DEF Safe
  <1>5. Safe(o2.slot, c2, o.to, known, unsure)
    <2>1. RuleOf(o2.slot, o.to) = o.to
      BY <1>2 DEF RuleOf
    <2> QED
      BY <1>2, <1>3, <2>1 DEF Safe
  <1>6. Dropping(o2, c2, tbl, o.to, known, unsure)
    BY <1>2, <1>3, <1>5 DEF Dropping, RootAfter
  <1> QED
    BY <1>2, <1>3, <1>4, <1>6 DEF Carries

LEMMA RequestDoneInv ==
  ASSUME IInv, NEW t \in Threads, RequestDone(t)
  PROVE  IInv'
  <1>inv. Calls /\ Agree /\ Tables /\ RulesTypeOK /\ TableTypes /\ Places
    BY DEF IInv, Calls
  <1>traffic. /\ \A s \in Threads : Place(s, op[s], call[s], match_rule_mutex, cb_mutex)
              /\ call \in [Threads -> CallRecord] /\ call[t] \in CallRecord
              /\ Len(wire) \in Nat /\ op[t] \in OpRecord /\ root \in Roots /\ table \subseteq Slots
    BY <1>inv, TrafficFacts DEF TableTypes
  <1> DEFINE o == op[t]
             c == call[t]
             o2 == [op[t] EXCEPT !.todo = Tail(@), !.failed = o.done]
  <1>1. /\ o.at = "asks" /\ c.at = "done"
        /\ UNCHANGED <<match_rules, match_rule_mutex, bus, wire, queue, doubtful>>
        /\ UNCHANGED <<kind, unique, calls>>
    BY DEF RequestDone
  <1>ok. c.ok \in BOOLEAN /\ o.to \in Roots /\ o.done \subseteq AllSlots /\ o.failed \subseteq AllSlots
    BY <1>traffic DEF CallRecord, OpRecord
  <1>place. /\ kind # "filter" => cb_mutex = t /\ o.slot \in Slots
            /\ kind = "filter" => cb_mutex # t /\ o.todo = <<>>
            /\ match_rule_mutex # t
    BY <1>traffic, <1>1 DEF Place
  <1>carries. kind # "filter" => Carries(o, c, table, root, match_rules, doubtful)
    BY <1>inv, <1>1 DEF Tables
  <1>slots. Slots' = Slots
    BY <1>1 DEF Slots
  <1>others. kind # "filter" => \A s \in Threads \ {t} : op[s].at # "asks"
    BY <1>traffic, <1>place DEF Place
  <1>2. CASE /\ c.ok /\ o.todo # <<>>
             /\ call' = Begun(t, o.todo[1][1], o.todo[1][2])
             /\ op' = [op EXCEPT ![t].todo = Tail(@), ![t].failed = o.done]
             /\ root' = o.to
             /\ UNCHANGED <<table, cb_mutex>>
    <2>0. kind # "filter"
      BY <1>2, <1>place
    <2>1. o2 \in OpRecord
      <3>1. o.todo \in Seq(Kinds \X Rules)
        BY <1>traffic DEF OpRecord
      <3>2. Tail(o.todo) \in Seq(Kinds \X Rules)
        BY <1>2, <3>1, TailFacts
      <3> QED
        BY <1>traffic, <1>ok, <3>2 DEF OpRecord
    <2>2. /\ o2.at = o.at /\ o2.slot = o.slot /\ o2.on = o.on /\ o2.to = o.to
          /\ o2.todo = Tail(o.todo) /\ o2.done = o.done /\ o2.failed = o.done
      BY <1>traffic DEF OpRecord
    <2>3. op' = [op EXCEPT ![t] = o2]
      BY <1>inv, <1>2 DEF TableTypes
    <2> HIDE DEF o2
    <2>4. op' \in [Threads -> OpRecord] /\ op'[t] = o2 /\ \A s \in Threads \ {t} : op'[s] = op[s]
      BY <1>inv, <2>1, <2>3, OpSet DEF TableTypes
    <2>5. /\ o.slot = "added" /\ o.on /\ o.todo[1][1] = "RemoveMatch" /\ o.todo[1][2] = root
      <3>1. Moving(o, c, table, root, match_rules, doubtful)
        BY <1>2, <1>carries, <2>0 DEF Carries, Adding, Dropping
      <3> QED
        BY <3>1 DEF Moving
    <2>6. o.todo[1][1] \in Kinds /\ o.todo[1][2] \in Rules /\ IsRule(o.todo[1][1])
      BY <1>traffic, <2>5, RegistrationsAssumption DEF Kinds, IsRule
    <2>7. /\ call' \in [Threads -> CallRecord]
          /\ call'[t].at = "ready" /\ call'[t].what = o.todo[1][1] /\ call'[t].rule = o.todo[1][2]
          /\ \A s \in Threads \ {t} : call'[s] = call[s]
      BY <1>traffic, <1>2, <2>6, BegunFacts
    <2>8. RulesTypeOK' /\ TableTypes'
      BY <1>inv, <1>1, <1>2, <1>ok, <1>slots, <2>4, <2>7 DEF RulesTypeOK, TableTypes, CallRecord
    <2>9. Places'
      <3>1. Place(t, o2, call'[t], match_rule_mutex, cb_mutex)
        BY <1>1, <1>place, <2>0, <2>2, <2>6, <2>7 DEF Place
      <3> QED
        BY ZenonT(40), <1>inv, <1>1, <1>2, <2>4, <2>7, <3>1, PlacesMoved
    <2>10. Traffic' /\ Replies'
      <3>1. \A s \in Threads : call[s].at = "asked" => call'[s] = call[s]
        BY <1>1, <2>7
      <3> QED
        BY <1>inv, <1>1, <3>1, TrafficKept
    <2>11. Agree'
      <3>1. \A r : NoneAsked(r, wire, wire, 0)
        BY <1>traffic, NoneAskedKept
      <3>2. \A r : SameGot(r, call, call')
        BY <1>1, <2>7 DEF SameGot, Got
      <3> QED
        BY <1>inv, <1>traffic, <1>1, <3>1, <3>2, QuietAgree
    <2>12. Carries(o2, call'[t], table, root', match_rules, doubtful)
      BY <1>1, <1>2, <1>carries, <2>0, <2>2, <2>7, NextRequest
    <2>13. Tables'
      BY <1>1, <1>2, <1>others, <2>0, <2>2, <2>4, <2>12 DEF Tables
    <2> QED
      BY <2>8, <2>9, <2>10, <2>11, <2>13 DEF IInv, Calls
  <1>3. CASE /\ ~(c.ok /\ o.todo # <<>>)
             /\ call' = [call EXCEPT ![t] = NoCall]
             /\ op' = [op EXCEPT ![t] = NoOp]
             /\ table' = IF kind = "filter" THEN table ELSE IF c.ok THEN o.done ELSE o.failed
             /\ root' = IF c.ok /\ o.slot = "added" /\ o.on THEN o.to ELSE root
             /\ cb_mutex' = IF cb_mutex = t THEN "free" ELSE cb_mutex
    <2>1. op' \in [Threads -> OpRecord] /\ op'[t] = NoOp /\ \A s \in Threads \ {t} : op'[s] = op[s]
      BY <1>inv, <1>3, NoOpType, OpSet DEF TableTypes
    <2>2. /\ call' \in [Threads -> CallRecord] /\ call'[t] = NoCall
          /\ \A s \in Threads \ {t} : call'[s] = call[s]
      BY <1>traffic, <1>3, NoOpType, CallSet
    <2>3. table' \subseteq Slots
      <3>1. CASE kind = "filter"
        BY <1>3, <1>traffic, <3>1
      <3>2. CASE kind # "filter"
        <4>1. o.done \subseteq Slots /\ o.failed \subseteq Slots
          BY <1>traffic, <1>place, <1>carries, <3>2 DEF Carries, Adding, Moving, Dropping
        <4> QED
          BY <1>3, <3>2, <4>1
      <3> QED
        BY <3>1, <3>2
    <2>4. RulesTypeOK' /\ TableTypes'
      <3>1. RulesTypeOK'
        BY <1>inv, <1>1, <2>2 DEF RulesTypeOK, CallRecord
      <3>2. root' \in Roots /\ cb_mutex' \in Threads \cup {"free"}
        BY <1>inv, <1>3, <1>ok DEF TableTypes
      <3> QED
        BY <1>inv, <1>1, <1>slots, <2>1, <2>3, <3>1, <3>2 DEF TableTypes
    <2>5. Places'
      <3>1. cb_mutex' # t
        BY <1>3, MatchRulesAssumption
      <3>2. \A s \in Threads \ {t} : cb_mutex' = s <=> cb_mutex = s
        BY <1>3, MatchRulesAssumption
      <3>3. Place(t, NoOp, NoCall, match_rule_mutex, cb_mutex')
        BY <1>place, <3>1 DEF Place, NoOp, NoCall
      <3> QED
        BY <1>inv, <1>1, <2>1, <2>2, <3>2, <3>3, PlacesMoved
    <2>6. Traffic' /\ Replies'
      <3>1. \A s \in Threads : call[s].at = "asked" => call'[s] = call[s]
        BY <1>1, <2>2
      <3> QED
        BY <1>inv, <1>1, <3>1, TrafficKept
    <2>7. Agree'
      <3>1. \A r : NoneAsked(r, wire, wire, 0)
        BY <1>traffic, NoneAskedKept
      <3>2. \A r : SameGot(r, call, call')
        BY <1>1, <2>2 DEF SameGot, Got, NoCall
      <3> QED
        BY <1>inv, <1>traffic, <1>1, <3>1, <3>2, QuietAgree
    <2>8. Tables'
      <3> SUFFICES ASSUME kind # "filter"
                   PROVE  /\ \A s \in Threads : op'[s].at # "asks"
                          /\ \A s \in table' : Kept(s, root', match_rules, doubtful)
        BY <1>1 DEF Tables
      <3>1. \A s \in Threads : op'[s].at # "asks"
        BY <1>others, <2>1 DEF NoOp
      <3>2. \A s \in table' : Kept(s, root', match_rules, doubtful)
        BY <1>1, <1>3, <1>ok, <1>carries, LastRequest
      <3> QED
        BY <3>1, <3>2
    <2> QED
      BY <2>4, <2>5, <2>6, <2>7, <2>8 DEF IInv, Calls
  <1> QED
    BY <1>2, <1>3 DEF RequestDone

-----------------------------------------------------------------------------
(* The invariant and what follows from it. *)

LEMMA InitInv == Init => IInv
  <1> SUFFICES ASSUME Init
               PROVE  IInv
    OBVIOUS
  <1>1. /\ match_rules = {} /\ match_rule_mutex = "free"
        /\ call = [t \in Threads |-> NoCall] /\ bus = [r \in Rules |-> 0]
        /\ wire = <<>> /\ queue = <<>> /\ doubtful = {}
        /\ kind \in KindsUsed /\ cb_mutex = "free" /\ table = {} /\ root = "added_top"
        /\ unique \in BOOLEAN /\ op = [t \in Threads |-> NoOp] /\ calls = 0
    BY DEF Init, RulesInit
  <1>2. \A t \in Threads : call[t] = NoCall /\ op[t] = NoOp
    BY <1>1
  <1>3. call \in [Threads -> CallRecord] /\ op \in [Threads -> OpRecord]
    BY <1>1, NoOpType
  <1>4. RulesTypeOK
    <2>1. wire \in Seq(Request) /\ queue \in Seq(Item)
      BY <1>1
    <2> QED
      BY <1>1, <1>3, <2>1 DEF RulesTypeOK, CallRecord
  <1>5. TableTypes
    BY <1>1, <1>3, RegistrationsAssumption DEF TableTypes, Roots
  <1>6. Places
    <2>1. \A t \in Threads : match_rule_mutex # t /\ cb_mutex # t
      BY <1>1, MatchRulesAssumption
    <2> QED
      BY <1>2, <2>1 DEF Places, Place, NoCall, NoOp
  <1>7. Traffic /\ Replies
    BY <1>1 DEF Traffic, Replies, OneReply
  <1>8. Agree
    <2> SUFFICES ASSUME NEW r \in Rules
                 PROVE  AgreeOn(r, queue, wire, call, match_rules, bus[r])
      BY DEF Agree
    <2>1. \A t \in Threads : ~Got(call[t], r)
      BY <1>2 DEF Got, NoCall
    <2>2. Len(queue) = 0 /\ Len(wire) = 0 /\ bus[r] = 0 /\ r \notin match_rules
      BY <1>1
    <2> QED
      BY <2>1, <2>2 DEF AgreeOn, OneNews, TrueNews, NoNews, Adds, NoRemoves, Has
  <1>9. Tables
    BY <1>1, <1>2 DEF Tables, NoOp
  <1> QED
    BY <1>4, <1>5, <1>6, <1>7, <1>8, <1>9 DEF IInv, Calls

LEMMA DispatchInv == IInv /\ Dispatch => IInv'
  <1> SUFFICES ASSUME IInv, Dispatch
               PROVE  IInv'
    OBVIOUS
  <1>1. CASE OnSignal
    <2>1. Calls' /\ Agree'
      BY <1>1, OnSignalInv DEF IInv
    <2>2. Tables'
      BY <1>1, TablesKept DEF IInv, OnSignal, tableVars
    <2> QED
      BY <2>1, <2>2 DEF IInv
  <1>2. CASE OnSyncReply /\ UNCHANGED tableVars
    BY <1>2, OnSyncReplyInv DEF IInv
  <1>3. CASE OnAsyncReply /\ UNCHANGED tableVars
    <2>1. Calls' /\ Agree' /\ kind = "filter" /\ kind' = kind
      BY <1>3, OnAsyncReplyInv DEF IInv, tableVars
    <2> QED
      BY <2>1 DEF IInv, Tables
  <1> QED
    BY <1>1, <1>2, <1>3 DEF Dispatch

LEMMA StepInv ==
  ASSUME IInv, NEW t \in Threads, Step(t)
  PROVE  IInv'
  BY LookupInv, LookedUpInv, EnterInv, RequestDoneInv, AskInv, FinishInv DEF Step

\* The bus and the dispatch thread leave table and operations alone.
LEMMA OutsideInv ==
  ASSUME IInv, Bus \/ (TimesOut /\ Arrives /\ UNCHANGED tableVars) \/ (\E r \in Rules : Signal(r))
  PROVE  IInv'
  <1>1. Calls' /\ Agree'
    <2>1. CASE Bus
      BY <2>1, BusHandlesCalls, BusHandlesAgree DEF Bus, IInv
    <2>2. CASE TimesOut /\ UNCHANGED tableVars
      BY <2>2, TimesOutInv DEF IInv
    <2>3. CASE \E r \in Rules : Signal(r)
      BY <2>3, SignalInv DEF IInv
    <2> QED
      BY <2>1, <2>2, <2>3
  <1>2. UNCHANGED <<match_rules, call>> /\ UNCHANGED tableVars /\ doubtful \subseteq doubtful'
    BY DEF Bus, BusHandles, TimesOut, Signal, BusSignals
  <1>3. Tables'
    BY <1>2, TablesKept DEF IInv, tableVars
  <1> QED
    BY <1>1, <1>3 DEF IInv

LEMMA NextInv == IInv /\ [Next]_vars => IInv'
  <1> SUFFICES ASSUME IInv, [Next]_vars
               PROVE  IInv'
    OBVIOUS
  <1>1. ASSUME NEW t \in Threads, Step(t) \/ ClearSignals(t)
        PROVE  IInv'
    BY <1>1, StepInv, ClearSignalsInv
  <1>2. ASSUME NEW t \in Threads, NEW slot \in Slots, NEW on \in BOOLEAN, NEW to \in Roots,
               NEW named \in {"enter", "lookup"}, Call(t, slot, on, to, named)
        PROVE  IInv'
    BY <1>2, CallInv
  <1>3. ASSUME NEW t \in Threads, NEW what \in {"AddMatch", "RemoveMatch"}, NEW rule \in FilterRules,
               CallFilter(t, what, rule)
        PROVE  IInv'
    BY <1>3, CallFilterInv
  <1>4. ASSUME NEW what \in {"AddMatch", "RemoveMatch"}, NEW rule \in FilterRules, CallAsync(what, rule)
        PROVE  IInv'
    BY <1>4, CallAsyncInv
  <1>5. CASE Dispatch
    BY <1>5, DispatchInv
  <1>6. CASE Bus \/ (TimesOut /\ Arrives /\ UNCHANGED tableVars) \/ (\E r \in Rules : Signal(r))
    BY <1>6, OutsideInv
  <1>7. CASE UNCHANGED vars
    <2>1. UNCHANGED <<match_rules, match_rule_mutex, call, bus, wire, queue, doubtful>>
          /\ UNCHANGED <<kind, cb_mutex, table, root, unique, op, calls>>
      BY <1>7 DEF vars, ruleVars
    <2>2. RulesTypeOK' /\ TableTypes' /\ Places'
      BY <2>1, TableTypesKept, PlacesKept DEF IInv, Calls, RulesTypeOK
    <2>3. Traffic' /\ Replies'
      BY <2>1, TrafficKept DEF IInv
    <2>4. Agree'
      BY <2>1 DEF IInv, Agree
    <2>5. Tables'
      BY <2>1, TablesKept DEF IInv
    <2> QED
      BY <2>2, <2>3, <2>4, <2>5 DEF IInv, Calls
  <1> QED
    BY <1>1, <1>2, <1>3, <1>4, <1>5, <1>6, <1>7 DEF Next

LEMMA Invariant == Spec => []IInv
  BY InitInv, NextInv, PTL DEF Spec

\* Who oversleeps is a thread or the dispatch thread.
LEMMA NextSleepers == overslept \subseteq Sleepers /\ [Next]_vars => (overslept \subseteq Sleepers)'
  <1> SUFFICES ASSUME overslept \subseteq Sleepers, [Next]_vars
               PROVE  overslept' \subseteq Sleepers
    BY DEF Sleepers
  <1>1. CASE Dispatch
    <2>1. CASE OnSyncReply /\ MayOversleep(Head(queue).to)
      BY <2>1 DEF OnSyncReply, MayOversleep, Sleepers
    <2> QED
      BY <1>1, <2>1 DEF Dispatch, OnSignal
  <1>2. CASE Arrives
    BY <1>2 DEF Arrives, MayOversleep, Sleepers
  <1>3. CASE UNCHANGED overslept
    BY <1>3
  <1>4. ASSUME NEW t \in Threads, Step(t) \/ ClearSignals(t)
        PROVE  UNCHANGED overslept
    BY <1>4 DEF Step, ClearSignals, Lookup, LookedUp, Enter, RequestDone
  <1>5. CASE Bus \/ (TimesOut /\ Arrives /\ UNCHANGED tableVars) \/ (\E r \in Rules : Signal(r))
    BY <1>2, <1>5 DEF Bus, Signal
  <1> QED
    BY <1>1, <1>3, <1>4, <1>5 DEF Next, Call, CallFilter, CallAsync, vars

\* The variables have their types, a thread that has the mutex of the table is
\* in an operation, and the mutex of the filter belongs to the thread that has
\* asked for a rule and not yet seen to the answer.
THEOREM TypeCorrect == Spec => []TypeOK
  <1>1. IInv /\ overslept \subseteq Sleepers => TypeOK
    <2> SUFFICES ASSUME IInv, overslept \subseteq Sleepers
                 PROVE  TypeOK
      OBVIOUS
    <2>1. RulesTypeOK /\ TableTypes /\ call \in [Threads -> CallRecord]
          /\ \A t \in Threads : Place(t, op[t], call[t], match_rule_mutex, cb_mutex)
      BY TrafficFacts DEF IInv, Calls
    <2>2. \A t \in Threads :
            /\ op[t].at \in {"idle", "lookup", "enter", "asks"}
            /\ op[t].todo \in Seq(Kinds \X Rules)
            /\ op[t].done \cup op[t].failed \subseteq AllSlots
      BY <2>1 DEF TableTypes, OpRecord
    <2>3. \A t \in Threads : IsRule(call[t].what) <=> call[t].what # "GetNameOwner"
      BY <2>1 DEF CallRecord, Kinds, IsRule
    <2>4. \A t \in Threads :
            /\ cb_mutex = t => op[t].at # "idle"
            /\ match_rule_mutex = t <=> call[t].what # "GetNameOwner" /\ call[t].at \in {"asked", "replied"}
      BY <2>1, <2>3 DEF Place
    <2> QED
      BY <2>1, <2>2, <2>4 DEF TypeOK, TableTypes
  <1>2. Init => overslept \subseteq Sleepers
    BY DEF Init
  <1>3. overslept \subseteq Sleepers /\ [Next]_vars => (overslept \subseteq Sleepers)'
    BY NextSleepers
  <1> QED
    BY <1>1, <1>2, <1>3, Invariant, PTL DEF Spec

\* Once no request is under way, the bus has the rules that the filter
\* believes it has, and has each once; but for the doubtful ones.
THEOREM RulesAgreeHolds == Spec => []RulesAgree
  <1>1. IInv => RulesAgree
    <2> SUFFICES ASSUME IInv, Settled, NEW r \in Rules \ doubtful
                 PROVE  bus[r] = IF r \in match_rules THEN 1 ELSE 0
      BY DEF RulesAgree
    <2>1. AgreeOn(r, queue, wire, call, match_rules, bus[r])
      BY DEF IInv, Agree
    <2>2. DOMAIN queue = 1..Len(queue)
      BY DEF IInv, Calls, RulesTypeOK
    <2>3. NoNews(r, queue, call)
      BY <2>2 DEF Settled, NoNews, Ok, About, IsRule, Got
    <2> QED
      BY <2>1, <2>3 DEF AgreeOn, TrueNews, Has
  <1> QED
    BY <1>1, Invariant, PTL

\* While no operation has the mutex of the table, each callback of a class has
\* its match rule, in whatever order requests are answered, refused or late.
THEOREM CallbackHasRuleHolds == Spec => []CallbackHasRule
  <1>1. IInv => CallbackHasRule
    <2> SUFFICES ASSUME IInv, kind # "filter", cb_mutex = "free", NEW slot \in table
                 PROVE  RuleOf(slot, root) \in match_rules \cup doubtful
      BY DEF CallbackHasRule
    <2>1. \A t \in Threads : cb_mutex # t
      BY MatchRulesAssumption
    <2>2. \A t \in Threads : op[t].at # "asks"
      BY <2>1, TrafficFacts DEF IInv, Place
    <2> QED
      BY <2>2 DEF IInv, Tables, Kept
  <1> QED
    BY <1>1, Invariant, PTL

-----------------------------------------------------------------------------
(* A thread that waits for a reply gets one. *)

Comes(t, w, q) ==
  \/ \E i \in 1..Len(w) : Awaited(w[i], t)
  \/ \E i \in 1..Len(q) : q[i].to = t

NoneForgotten == \A t \in Threads : call[t].at = "asked" => Comes(t, wire, queue)

\* What is under way for t stays: on the wire, and in the queue.
KeepsRequest(t, w, w2) ==
  (\E i \in 1..Len(w) : Awaited(w[i], t)) => \E i \in 1..Len(w2) : Awaited(w2[i], t)

KeepsReply(t, q, q2) ==
  (\E i \in 1..Len(q) : q[i].to = t) => \E i \in 1..Len(q2) : q2[i].to = t

LEMMA GrownKeeps ==
  ASSUME NEW t, NEW s, NEW s2, NEW m, Grows(s, s2, m)
  PROVE  KeepsRequest(t, s, s2) /\ KeepsReply(t, s, s2)
  <1>1. \A i \in 1..Len(s) : i \in 1..Len(s2) /\ s2[i] = s[i]
    BY DEF Grows
  <1> QED
    BY <1>1 DEF KeepsRequest, KeepsReply

\* The last item of what has grown.
LEMMA GrownEnds ==
  ASSUME NEW s, NEW s2, NEW m, Grows(s, s2, m)
  PROVE  \E i \in 1..Len(s2) : s2[i] = m
  BY DEF Grows

LEMMA TakenKeepsReply ==
  ASSUME NEW t, NEW q, NEW q2, Shrinks(q, q2), q[1].to # t
  PROVE  KeepsReply(t, q, q2)
  <1>1. \A i \in 1..Len(q) : i = 1 \/ (i - 1 \in 1..Len(q2) /\ q2[i - 1] = q[i])
    BY Taken
  <1> QED
    BY <1>1 DEF KeepsReply

\* A step of no thread that sends nothing.
LEMMA BusForgetsNone ==
  ASSUME Calls, NoneForgotten, BusHandles
  PROVE  NoneForgotten'
  <1>1. PICK ok \in BOOLEAN :
          /\ wire[1] \in Request /\ Shrinks(wire, wire') /\ UNCHANGED call
          /\ \/ queue' = queue /\ wire[1].late
             \/ Grows(queue, queue', Reply(wire[1], ok)) /\ ~wire[1].late
          /\ FitsWire(wire[1], kind, doubtful)
    BY BusHandlesFacts
  <1>2. ASSUME NEW t \in Threads, call[t].at = "asked"
        PROVE  Comes(t, wire', queue')
    <2>1. KeepsReply(t, queue, queue')
      <3>1. CASE queue' = queue
        BY <3>1 DEF KeepsReply
      <3>2. CASE Grows(queue, queue', Reply(wire[1], ok))
        BY <3>2, GrownKeeps
      <3> QED
        BY <1>1, <3>1, <3>2
    <2>2. CASE \E i \in 1..Len(queue) : queue[i].to = t
      BY <2>1, <2>2 DEF KeepsReply, Comes
    <2>3. ASSUME NEW i \in 1..Len(wire), Awaited(wire[i], t)
          PROVE  Comes(t, wire', queue')
      <3>1. CASE i = 1
        <4>1. Grows(queue, queue', Reply(wire[1], ok)) /\ wire[1].by = t
          BY <1>1, <2>3, <3>1 DEF Awaited
        <4>2. Reply(wire[1], ok).to = t
          BY <1>1, <4>1, ReplyFits
        <4> QED
          BY <4>1, <4>2, GrownEnds DEF Comes
      <3>2. CASE i # 1
        <4>1. i - 1 \in 1..Len(wire') /\ wire'[i - 1] = wire[i]
          BY <1>1, <2>3, <3>2, Taken
        <4> QED
          BY <2>3, <4>1 DEF Comes
      <3> QED
        BY <3>1, <3>2
    <2> QED
      BY <1>2, <2>2, <2>3 DEF NoneForgotten, Comes
  <1> QED
    BY <1>1, <1>2 DEF NoneForgotten

LEMMA TimesOutForgetsNone ==
  ASSUME Calls, NoneForgotten, TimesOut
  PROVE  NoneForgotten'
  <1>1. PICK k \in 1..Len(wire) :
          /\ wire[k] \in Request /\ FitsWire(wire[k], kind, doubtful)
          /\ Len(wire') = Len(wire)
          /\ \A i \in 1..Len(wire) : /\ wire'[i].by = wire[i].by
                                     /\ wire'[i].late = (wire[i].late \/ i = k)
          /\ Grows(queue, queue', Reply(wire[k], FALSE)) /\ UNCHANGED call
    BY TimesOutFacts
  <1>2. ASSUME NEW t \in Threads, call[t].at = "asked"
        PROVE  Comes(t, wire', queue')
    <2>a. Grows(queue, queue', Reply(wire[k], FALSE))
      BY <1>1
    <2>b. KeepsReply(t, queue, queue')
      BY <2>a, GrownKeeps
    <2>c. \E i \in 1..Len(queue') : queue'[i] = Reply(wire[k], FALSE)
      <3>1. Len(queue) + 1 \in 1..Len(queue') /\ queue'[Len(queue) + 1] = Reply(wire[k], FALSE)
        BY <2>a DEF Grows
      <3> QED
        BY <3>1
    <2>1. CASE \E i \in 1..Len(queue) : queue[i].to = t
      BY <2>b, <2>1 DEF KeepsReply, Comes
    <2>2. ASSUME NEW i \in 1..Len(wire), Awaited(wire[i], t)
          PROVE  Comes(t, wire', queue')
      <3>1. CASE i = k
        <4>1. Reply(wire[k], FALSE).to = t
          BY <1>1, <2>2, <3>1, ReplyFits DEF Awaited
        <4> QED
          BY <2>c, <4>1 DEF Comes
      <3>2. CASE i # k
        BY <1>1, <2>2, <3>2 DEF Comes, Awaited
      <3> QED
        BY <3>1, <3>2
    <2> QED
      BY <1>2, <2>1, <2>2 DEF NoneForgotten, Comes
  <1> QED
    BY <1>1, <1>2 DEF NoneForgotten

\* A reply goes to the thread that waits for it, and to no other.
LEMMA ReplyForgetsNone ==
  ASSUME Calls, NoneForgotten, OnSyncReply
  PROVE  NoneForgotten'
  <1>1. PICK t \in Threads :
          /\ Shrinks(queue, queue') /\ queue[1].to = t
          /\ call'[t].at = "replied" /\ UNCHANGED wire
          /\ \A s \in Threads \ {t} : call'[s] = call[s]
    BY OnSyncReplyFacts
  <1>2. ASSUME NEW s \in Threads, call'[s].at = "asked"
        PROVE  Comes(s, wire', queue')
    <2>1. s # t /\ call[s].at = "asked"
      BY <1>1, <1>2
    <2>2. KeepsReply(s, queue, queue')
      BY <1>1, <2>1, TakenKeepsReply
    <2> QED
      BY <1>1, <2>1, <2>2 DEF NoneForgotten, Comes, KeepsReply
  <1> QED
    BY <1>2 DEF NoneForgotten

\* The head of the queue is for no thread.
LEMMA OthersForgetNone ==
  ASSUME Calls, NoneForgotten, OnSignal \/ OnAsyncReply
  PROVE  NoneForgotten'
  <1>1. queue # <<>> /\ queue' = Tail(queue) /\ UNCHANGED <<wire, call>>
    BY DEF OnSignal, OnAsyncReply
  <1>2. Shrinks(queue, queue') /\ Head(queue) = queue[1] /\ FitsQueue(queue[1], kind)
    BY <1>1, TakeFacts
  <1>3. queue[1].to \notin Threads
    BY <1>2, MatchRulesAssumption DEF OnSignal, OnAsyncReply, FitsQueue
  <1>4. \A t \in Threads : KeepsReply(t, queue, queue')
    BY <1>2, <1>3, TakenKeepsReply
  <1> QED
    BY <1>1, <1>4 DEF NoneForgotten, Comes, KeepsReply

\* A request that is sent, by whomever, takes nobody's place.
LEMMA SendingForgetsNone ==
  ASSUME Calls, NoneForgotten, NEW by \in Receivers, NEW what \in Kinds, NEW rule \in Rules \cup {NoRule},
         wire' = Sent(by, what, rule), UNCHANGED queue,
         \A t \in Threads : call'[t].at = "asked" => call[t].at = "asked" \/ t = by
  PROVE  NoneForgotten'
  <1>1. PICK m : m.by = by /\ ~m.late /\ Grows(wire, wire', m)
    BY SentFacts
  <1>2. ASSUME NEW t \in Threads, call'[t].at = "asked"
        PROVE  Comes(t, wire', queue')
    <2>1. CASE t = by
      BY <1>1, <2>1, GrownEnds DEF Comes, Awaited
    <2>2. CASE call[t].at = "asked"
      BY <1>1, <2>2, GrownKeeps DEF NoneForgotten, Comes, KeepsRequest
    <2> QED
      BY <1>2, <2>1, <2>2
  <1> QED
    BY <1>2 DEF NoneForgotten

\* A step that sends nothing and begins no wait.
LEMMA QuietForgetsNone ==
  ASSUME NoneForgotten, UNCHANGED <<wire, queue>>,
         \A t \in Threads : call'[t].at = "asked" => call[t].at = "asked"
  PROVE  NoneForgotten'
  BY DEF NoneForgotten

LEMMA StepForgetsNone ==
  ASSUME IInv, NoneForgotten, NEW t \in Threads, Step(t) \/ ClearSignals(t)
  PROVE  NoneForgotten'
  <1>types. /\ Calls /\ call \in [Threads -> CallRecord]
            /\ Place(t, op[t], call[t], match_rule_mutex, cb_mutex)
    BY TrafficFacts DEF IInv
  <1>1. CASE Lookup(t)
    <2>1. /\ wire' = Sent(t, "GetNameOwner", NoRule) /\ UNCHANGED queue
          /\ \A s \in Threads : call'[s].at = "asked" => call[s].at = "asked" \/ s = t
      BY <1>1, <1>types DEF Lookup
    <2>2. t \in Receivers /\ "GetNameOwner" \in Kinds /\ NoRule \in Rules \cup {NoRule}
      BY DEF Receivers, Kinds
    <2> QED
      BY <1>types, <2>1, <2>2, SendingForgetsNone
  <1>2. CASE Ask(t) /\ UNCHANGED tableVars
    <2>1. CASE wire' = Sent(t, call[t].what, call[t].rule)
      <3>1. UNCHANGED queue /\ \A s \in Threads : call'[s].at = "asked" => call[s].at = "asked" \/ s = t
        BY <1>2, <1>types DEF Ask
      <3>2. t \in Receivers /\ call[t].what \in Kinds /\ call[t].rule \in Rules \cup {NoRule}
        BY <1>types DEF Receivers, CallRecord
      <3> QED
        BY <1>types, <2>1, <3>1, <3>2, SendingForgetsNone
    <2>2. CASE wire' # Sent(t, call[t].what, call[t].rule)
      <3>1. /\ UNCHANGED <<wire, queue>>
            /\ \/ call' = [call EXCEPT ![t].at = "done", ![t].ok = TRUE]
               \/ call' = [call EXCEPT ![t].at = "done", ![t].ok = FALSE]
        BY <1>2, <2>2 DEF Ask
      <3>2. \A s \in Threads : call'[s].at = "asked" => call[s].at = "asked"
        BY <1>types, <3>1 DEF CallRecord
      <3> QED
        BY <3>1, <3>2, QuietForgetsNone
    <2> QED
      BY <2>1, <2>2
  <1>3. CASE Finish(t) /\ UNCHANGED tableVars
    <2>1. /\ UNCHANGED <<wire, queue>>
          /\ \A s \in Threads : call'[s].at = "asked" => call[s].at = "asked"
      BY <1>3, <1>types DEF Finish
    <2> QED
      BY <2>1, QuietForgetsNone
  <1>4. CASE LookedUp(t)
    <2>1. /\ UNCHANGED <<wire, queue>>
          /\ \A s \in Threads : call'[s].at = "asked" => call[s].at = "asked"
      BY <1>4, <1>types DEF LookedUp, NoCall
    <2> QED
      BY <2>1, QuietForgetsNone
  <1>5. CASE Enter(t) \/ RequestDone(t) \/ ClearSignals(t)
    <2>1. /\ UNCHANGED <<wire, queue>>
          /\ \/ UNCHANGED call \/ call' = [call EXCEPT ![t] = NoCall]
             \/ \E what, rule : call' = Begun(t, what, rule)
      BY <1>5 DEF Enter, RequestDone, ClearSignals, Carry
    <2>2. \A s \in Threads : call'[s].at = "asked" => call[s].at = "asked"
      BY <1>types, <2>1 DEF Begun, NoCall
    <2> QED
      BY <2>1, <2>2, QuietForgetsNone
  <1> QED
    BY <1>1, <1>2, <1>3, <1>4, <1>5 DEF Step

LEMMA NextForgetsNone == IInv /\ NoneForgotten /\ [Next]_vars => NoneForgotten'
  <1> SUFFICES ASSUME IInv, NoneForgotten, [Next]_vars
               PROVE  NoneForgotten'
    OBVIOUS
  <1>calls. Calls /\ call \in [Threads -> CallRecord]
    BY TrafficFacts DEF IInv
  <1>1. ASSUME NEW t \in Threads, Step(t) \/ ClearSignals(t)
        PROVE  NoneForgotten'
    BY <1>1, StepForgetsNone
  <1>2. ASSUME NEW t \in Threads, NEW slot \in Slots, NEW on \in BOOLEAN, NEW to \in Roots,
               NEW named \in {"enter", "lookup"}, Call(t, slot, on, to, named)
        PROVE  NoneForgotten'
    BY <1>2, QuietForgetsNone DEF Call, ruleVars
  <1>3. ASSUME NEW t \in Threads, NEW what \in {"AddMatch", "RemoveMatch"}, NEW rule \in FilterRules,
               CallFilter(t, what, rule)
        PROVE  NoneForgotten'
    <2>1. UNCHANGED <<wire, queue>> /\ call' = Begun(t, what, rule)
      BY <1>3 DEF CallFilter
    <2>2. \A s \in Threads : call'[s].at = "asked" => call[s].at = "asked"
      BY <1>calls, <2>1 DEF Begun
    <2> QED
      BY <2>1, <2>2, QuietForgetsNone
  <1>4. ASSUME NEW what \in {"AddMatch", "RemoveMatch"}, NEW rule \in FilterRules, CallAsync(what, rule)
        PROVE  NoneForgotten'
    <2>1. wire' = Sent("async", what, rule) /\ UNCHANGED <<queue, call>>
      BY <1>4 DEF CallAsync, AskAsync
    <2>2. "async" \in Receivers /\ what \in Kinds /\ rule \in Rules \cup {NoRule}
      BY RegistrationsAssumption DEF Receivers, Kinds
    <2> QED
      BY <1>calls, <2>1, <2>2, SendingForgetsNone
  <1>5. CASE Dispatch
    BY <1>5, <1>calls, ReplyForgetsNone, OthersForgetNone DEF Dispatch
  <1>6. CASE Bus \/ (TimesOut /\ Arrives /\ UNCHANGED tableVars)
    BY <1>6, <1>calls, BusForgetsNone, TimesOutForgetsNone DEF Bus
  <1>7. ASSUME NEW r \in Rules, Signal(r)
        PROVE  NoneForgotten'
    <2> DEFINE m == [to |-> "filter", what |-> "Signal", rule |-> r, of |-> 0, ok |-> TRUE]
    <2>1. queue' = Append(queue, m) /\ UNCHANGED <<wire, call>>
      BY <1>7 DEF Signal, BusSignals
    <2>2. m \in Item
      BY SignalType
    <2> HIDE DEF m
    <2>3. Grows(queue, queue', m)
      BY <1>calls, <2>1, <2>2, AppendFacts, TrafficFacts DEF Grows
    <2> QED
      BY <2>1, <2>3, GrownKeeps DEF NoneForgotten, Comes, KeepsReply
  <1>8. CASE UNCHANGED vars
    BY <1>8 DEF vars, ruleVars, NoneForgotten
  <1> QED
    BY <1>1, <1>2, <1>3, <1>4, <1>5, <1>6, <1>7, <1>8 DEF Next

LEMMA NoneForgottenHolds == Spec => []NoneForgotten
  <1>1. Init => NoneForgotten
    BY DEF Init, RulesInit, NoneForgotten, NoCall
  <1> QED
    BY <1>1, NextForgetsNone, Invariant, PTL DEF Spec

\* A set of positions no two of which can be members.
LEMMA AtMostOne ==
  ASSUME NEW S, \A i, j \in S : i = j
  PROVE  Cardinality(S) = IF S = {} THEN 0 ELSE 1
  <1>1. CASE S = {}
    BY <1>1, FS_EmptySet
  <1>2. CASE S # {}
    <2>1. PICK i : S = {i}
      BY <1>2
    <2> QED
      BY <1>2, <2>1, FS_Singleton
  <1> QED
    BY <1>1, <1>2

\* A thread that waits for the bus has one request or one reply under way, to
\* what it asked; so no error, no late answer and no timeout of add_match and
\* remove_match leaves it waiting for nothing or answers it twice.
THEOREM ReplyIsComingHolds == Spec => []ReplyIsComing
  <1>1. IInv /\ NoneForgotten => ReplyIsComing
    <2> SUFFICES ASSUME IInv, NoneForgotten, NEW t \in Threads
                 PROVE  LET asked == {k \in DOMAIN wire : wire[k].by = t /\ ~wire[k].late}
                            answers == {k \in DOMAIN queue : queue[k].to = t}
                        IN  /\ Cardinality(asked) + Cardinality(answers) =
                                 IF call[t].at = "asked" THEN 1 ELSE 0
                            /\ \A k \in asked : wire[k].what = call[t].what /\ wire[k].rule = call[t].rule
                            /\ \A k \in answers : queue[k].what = call[t].what /\ queue[k].rule = call[t].rule
      BY DEF ReplyIsComing, ReplyIsComingTo, AskedBy, AnswersTo
    <2> DEFINE asked == {k \in DOMAIN wire : wire[k].by = t /\ ~wire[k].late}
               answers == {k \in DOMAIN queue : queue[k].to = t}
    <2>1. /\ DOMAIN wire = 1..Len(wire) /\ DOMAIN queue = 1..Len(queue)
          /\ OneReply(t, wire, queue, call[t])
      <3>1. wire \in Seq(Request) /\ queue \in Seq(Item)
        BY TrafficFacts DEF IInv
      <3> QED
        BY <3>1, TrafficFacts DEF IInv
    <2>2. call[t].at = "asked" => asked # {} \/ answers # {}
      BY <2>1 DEF NoneForgotten, Comes, Awaited
    <2>3. /\ \A i, j \in asked : i = j
          /\ \A i, j \in answers : i = j
          /\ asked = {} \/ answers = {}
          /\ \A k \in asked : WaitsFor(call[t], wire[k])
          /\ \A k \in answers : WaitsFor(call[t], queue[k])
      BY <2>1 DEF OneReply, Awaited
    <2> HIDE DEF asked, answers
    <2>4. /\ Cardinality(asked) = IF asked = {} THEN 0 ELSE 1
          /\ Cardinality(answers) = IF answers = {} THEN 0 ELSE 1
      BY <2>3, AtMostOne
    <2>5. call[t].at # "asked" => asked = {} /\ answers = {}
      BY <2>3 DEF WaitsFor
    <2>6. Cardinality(asked) + Cardinality(answers) = IF call[t].at = "asked" THEN 1 ELSE 0
      BY <2>2, <2>3, <2>4, <2>5
    <2>7. /\ \A k \in asked : wire[k].what = call[t].what /\ wire[k].rule = call[t].rule
          /\ \A k \in answers : queue[k].what = call[t].what /\ queue[k].rule = call[t].rule
      BY <2>3 DEF WaitsFor
    <2> QED
      BY <2>6, <2>7 DEF asked, answers
  <1> QED
    BY <1>1, NoneForgottenHolds, Invariant, PTL

-----------------------------------------------------------------------------
(* The dispatch thread that is stuck stays so. *)

\* A thread that waits for a reply does nothing, and loses no mutex to another.
LEMMA WaitingIsLeftAlone ==
  ASSUME Calls, NEW m \in Threads, call[m].at = "asked", NEW t \in Threads,
         \/ Step(t) \/ ClearSignals(t)
         \/ \E slot \in Slots, on \in BOOLEAN, to \in Roots, named \in {"enter", "lookup"} :
                 Call(t, slot, on, to, named)
         \/ \E what \in {"AddMatch", "RemoveMatch"}, rule \in FilterRules : CallFilter(t, what, rule)
  PROVE  /\ queue' = queue /\ call'[m] = call[m]
         /\ cb_mutex = m => cb_mutex' = m
         /\ match_rule_mutex = m => match_rule_mutex' = m
  <1>place. Place(t, op[t], call[t], match_rule_mutex, cb_mutex)
    BY TrafficFacts
  <1>free. m # "free"
    BY MatchRulesAssumption
  <1>type. call \in [Threads -> CallRecord]
    BY TrafficFacts
  <1>1. CASE Lookup(t)
    BY <1>1, <1>free, <1>type DEF Lookup, Free
  <1>2. CASE LookedUp(t)
    BY <1>2, <1>type DEF LookedUp
  <1>3. CASE Enter(t)
    <2>1. call[t].at = "none" /\ cb_mutex \in {"free", t}
      BY <1>3, <1>place DEF Enter, Free, Place
    <2>2. m # t
      BY <2>1
    <2>3. call'[m] = call[m]
      <3>1. UNCHANGED call \/ \E what, rule : call' = Begun(t, what, rule)
        BY <1>3 DEF Enter, Carry
      <3> QED
        BY <1>type, <2>2, <3>1 DEF Begun
    <2> QED
      BY <1>3, <1>free, <2>1, <2>2, <2>3 DEF Enter
  <1>4. CASE RequestDone(t)
    <2>1. m # t
      BY <1>4 DEF RequestDone
    <2>2. call'[m] = call[m]
      <3>1. call' = [call EXCEPT ![t] = NoCall] \/ \E what, rule : call' = Begun(t, what, rule)
        BY <1>4 DEF RequestDone
      <3> QED
        BY <1>type, <2>1, <3>1 DEF Begun
    <2>3. cb_mutex = m => cb_mutex' = m
      BY <1>4, <2>1 DEF RequestDone
    <2> QED
      BY <1>4, <2>2, <2>3 DEF RequestDone
  <1>5. CASE Ask(t) /\ UNCHANGED tableVars
    BY <1>5, <1>free, <1>type DEF Ask, tableVars
  <1>6. CASE Finish(t) /\ UNCHANGED tableVars
    <2>1. call[t].at = "replied" /\ call[t].what # "GetNameOwner" /\ call[t] \in CallRecord
      BY <1>6, <1>type DEF Finish
    <2>2. match_rule_mutex = t
      BY <1>place, <2>1 DEF Place, IsRule, CallRecord, Kinds
    <2> QED
      BY <1>6, <1>type, <2>1, <2>2 DEF Finish, tableVars
  <1>7. CASE ClearSignals(t)
    <2>1. call[t].at = "none" /\ cb_mutex = "free"
      BY <1>7, <1>place DEF ClearSignals, Place
    <2>2. call'[m] = call[m]
      <3>1. \E what, rule : call' = Begun(t, what, rule)
        BY <1>7 DEF ClearSignals, Carry
      <3> QED
        BY <1>type, <2>1, <3>1 DEF Begun
    <2> QED
      BY <1>7, <1>free, <2>1, <2>2 DEF ClearSignals
  <1>8. CASE \E slot \in Slots, on \in BOOLEAN, to \in Roots, named \in {"enter", "lookup"} :
                 Call(t, slot, on, to, named)
    BY <1>8 DEF Call, ruleVars
  <1>9. CASE \E what \in {"AddMatch", "RemoveMatch"}, rule \in FilterRules : CallFilter(t, what, rule)
    <2>1. call[t].at = "none"
      BY <1>9, <1>place DEF CallFilter, Place
    <2>2. \E what, rule : call' = Begun(t, what, rule)
      BY <1>9 DEF CallFilter
    <2>3. call'[m] = call[m]
      BY <1>type, <2>1, <2>2 DEF Begun
    <2> QED
      BY <1>9, <2>3 DEF CallFilter
  <1> QED
    BY <1>1, <1>2, <1>3, <1>4, <1>5, <1>6, <1>7, <1>8, <1>9 DEF Step

\* What is sent to the filter goes behind the first item of the queue.
LEMMA HeadStays ==
  ASSUME Calls, queue # <<>>, Bus \/ (TimesOut /\ Arrives /\ UNCHANGED tableVars) \/ (\E r \in Rules : Signal(r))
  PROVE  /\ queue' # <<>> /\ Head(queue') = Head(queue)
         /\ UNCHANGED <<call, cb_mutex, match_rule_mutex>>
  <1>1. queue \in Seq(Item)
    BY TrafficFacts
  <1>2. UNCHANGED queue \/ \E e \in Item : queue' = Append(queue, e)
    <2>1. CASE Bus
      BY SMTT(20), <2>1, BusHandlesFacts, ReplyType DEF Bus, BusHandles, Answered
    <2>2. CASE TimesOut
      <3>1. PICK k \in DOMAIN wire : queue' = Append(queue, Reply(wire[k], FALSE))
        BY <2>2 DEF TimesOut
      <3>2. wire[k] \in Request
        BY <3>1, TrafficFacts
      <3> QED
        BY <3>1, <3>2, ReplyType
    <2>3. CASE \E r \in Rules : Signal(r)
      BY <2>3, SignalType DEF Signal, BusSignals
    <2> QED
      BY <2>1, <2>2, <2>3
  <1>3. queue' # <<>> /\ Head(queue') = Head(queue)
    BY <1>1, <1>2
  <1> QED
    BY <1>3 DEF Bus, BusHandles, TimesOut, Signal, BusSignals, tableVars

LEMMA StuckStays ==
  ASSUME Calls, Stuck, [Next]_vars
  PROVE  Stuck'
  <1> DEFINE h == Head(queue)
  <1>1. PICK m \in Threads : /\ call[m].at = "asked"
                             /\ \/ h.what = "Signal" /\ cb_mutex = m
                                \/ h.to = "async" /\ match_rule_mutex = m
    BY DEF Stuck, StuckOn
  <1>2. queue # <<>> /\ m # "free"
    BY MatchRulesAssumption DEF Stuck
  <1>3. /\ h.to = "filter" <=> h.what = "Signal"
        /\ h.to \in Threads \cup {"async", "filter"}
    <2>1. queue \in Seq(Item)
      BY TrafficFacts
    <2>2. h = queue[1] /\ 1 \in 1..Len(queue)
      BY <1>2, <2>1, TailFacts
    <2> QED
      BY <2>2, TrafficFacts DEF FitsQueue
  <1>4. ASSUME queue' # <<>>, Head(queue') = h, call'[m].at = "asked",
               cb_mutex = m => cb_mutex' = m, match_rule_mutex = m => match_rule_mutex' = m
        PROVE  Stuck'
    BY <1>1, <1>4 DEF Stuck, StuckOn
  <1>5. CASE Dispatch
    <2>1. ~OnSignal
      BY <1>1, <1>2, <1>3 DEF OnSignal
    <2>2. ~OnSyncReply
      BY <1>1, <1>3, MatchRulesAssumption DEF OnSyncReply
    <2>3. ~OnAsyncReply
      BY <1>1, <1>2, <1>3 DEF OnAsyncReply
    <2> QED
      BY <1>5, <2>1, <2>2, <2>3 DEF Dispatch
  <1>6. CASE Bus \/ (TimesOut /\ Arrives /\ UNCHANGED tableVars) \/ (\E r \in Rules : Signal(r))
    BY <1>1, <1>2, <1>4, <1>6, HeadStays
  <1>7. CASE \E what \in {"AddMatch", "RemoveMatch"}, rule \in FilterRules : CallAsync(what, rule)
    <2>1. UNCHANGED <<queue, call, cb_mutex, match_rule_mutex>>
      BY <1>7 DEF CallAsync, AskAsync
    <2> QED
      BY <1>1, <1>2, <1>4, <2>1
  <1>8. CASE UNCHANGED vars
    BY <1>1, <1>2, <1>4, <1>8 DEF vars, ruleVars
  <1>9. ASSUME NEW t \in Threads,
               \/ Step(t) \/ ClearSignals(t)
               \/ \E slot \in Slots, on \in BOOLEAN, to \in Roots, named \in {"enter", "lookup"} :
                 Call(t, slot, on, to, named)
               \/ \E what \in {"AddMatch", "RemoveMatch"}, rule \in FilterRules : CallFilter(t, what, rule)
        PROVE  Stuck'
    BY <1>1, <1>2, <1>4, <1>9, WaitingIsLeftAlone
  <1> QED
    BY <1>5, <1>6, <1>7, <1>8, <1>9 DEF Next

\* Once the dispatch thread waits for a mutex whose owner waits for a reply, no
\* reply, refusal or timeout ends it: what comes is queued behind the item it
\* cannot dispatch (on_signal of the classes, message_filter.cpp:106-202).
THEOREM StuckForGood == Spec => [][Stuck => Stuck']_vars
  <1>1. IInv /\ [Next]_vars => [Stuck => Stuck']_vars
    <2> SUFFICES ASSUME IInv, [Next]_vars, Stuck
                 PROVE  Stuck'
      OBVIOUS
    <2> QED
      BY StuckStays DEF IInv
  <1> QED
    BY <1>1, Invariant, PTL DEF Spec
=============================================================================
