--------------------------- MODULE Timers_proofs ---------------------------
(***************************************************************************)
(* Theorems about Timers.  SetForFirst needs the list to be sorted, the    *)
(* entry of a timeout to be the only one for it is needed to remove it,    *)
(* and that a reported event still stands, unless the list was changed, is *)
(* what makes EarlyOnlyIfChanged follow: Inv is the conjunction.  Then the *)
(* theorems of TimeSpec, about the times that Timers counts.               *)
(***************************************************************************)
EXTENDS Timers, TimeSpec, FiniteSetTheorems, SequenceTheorems, TLAPS

\* What InsertAt returns.
LEMMA InsertFacts ==
  ASSUME NEW S, NEW s \in Seq(S), NEW e \in S, NEW k \in 1..Len(s) + 1
  PROVE  LET t == InsertAt(s, k, e)
         IN  /\ t \in Seq(S)
             /\ Len(t) = Len(s) + 1
             /\ \A i \in 1..Len(t) : t[i] = IF i < k THEN s[i] ELSE IF i = k THEN e ELSE s[i - 1]
  <1> DEFINE a == SubSeq(s, 1, k - 1)
             b == SubSeq(s, k, Len(s))
  <1>1. /\ a \in Seq(S) /\ Len(a) = k - 1
        /\ \A i \in 1..k - 1 : a[i] = s[i]
    OBVIOUS
  <1>2. /\ b \in Seq(S) /\ Len(b) = Len(s) + 1 - k
        /\ \A i \in 1..Len(s) + 1 - k : b[i] = s[k + i - 1]
    OBVIOUS
  <1>3. InsertAt(s, k, e) = a \o <<e>> \o b
    BY DEF InsertAt
  <1> HIDE DEF a, b
  <1> DEFINE c == a \o <<e>>
  <1>4. /\ c \in Seq(S) /\ Len(c) = k
        /\ \A i \in 1..k - 1 : c[i] = s[i]
        /\ c[k] = e
    BY <1>1
  <1>5. InsertAt(s, k, e) = c \o b
    BY <1>3
  <1> HIDE DEF c
  <1>6. /\ c \o b \in Seq(S)
        /\ Len(c \o b) = Len(s) + 1
        /\ \A i \in 1..k : (c \o b)[i] = c[i]
        /\ \A i \in k + 1..Len(s) + 1 : (c \o b)[i] = b[i - k]
    BY <1>2, <1>4
  <1>7. \A i \in k + 1..Len(s) + 1 : (c \o b)[i] = s[i - 1]
    BY <1>2, <1>6
  <1> QED
    BY <1>4, <1>5, <1>6, <1>7

\* What RemoveAt returns.
LEMMA RemoveFacts ==
  ASSUME NEW S, NEW s \in Seq(S), NEW k \in 1..Len(s)
  PROVE  LET t == RemoveAt(s, k)
         IN  /\ t \in Seq(S)
             /\ Len(t) = Len(s) - 1
             /\ \A i \in 1..Len(t) : t[i] = IF i < k THEN s[i] ELSE s[i + 1]
  <1> DEFINE a == SubSeq(s, 1, k - 1)
             b == SubSeq(s, k + 1, Len(s))
  <1>1. /\ a \in Seq(S) /\ Len(a) = k - 1
        /\ \A i \in 1..k - 1 : a[i] = s[i]
    OBVIOUS
  <1>2. /\ b \in Seq(S) /\ Len(b) = Len(s) - k
        /\ \A i \in 1..Len(s) - k : b[i] = s[k + i]
    OBVIOUS
  <1>3. RemoveAt(s, k) = a \o b
    BY DEF RemoveAt
  <1> HIDE DEF a, b
  <1> DEFINE c == a \o b
  <1>4. /\ c \in Seq(S)
        /\ Len(c) = Len(a) + Len(b)
        /\ \A i \in 1..Len(a) + Len(b) : c[i] = IF i <= Len(a) THEN a[i] ELSE b[i - Len(a)]
    BY <1>1, <1>2, ConcatProperties
  <1>5. RemoveAt(s, k) = c
    BY <1>3
  <1> HIDE DEF c
  <1>6. Len(c) = Len(s) - 1
    BY <1>1, <1>2, <1>4
  <1>7. ASSUME NEW i \in 1..Len(c)
        PROVE  c[i] = IF i < k THEN s[i] ELSE s[i + 1]
    <2>1. CASE i < k
      BY <1>1, <1>2, <1>4, <1>6, <2>1
    <2>2. CASE i >= k
      <3>1. c[i] = b[i - (k - 1)]
        BY <1>1, <1>2, <1>4, <1>6, <2>2
      <3>2. i - (k - 1) \in 1..Len(s) - k /\ k + (i - (k - 1)) = i + 1
        BY <1>6, <2>2
      <3> QED
        BY <1>2, <2>2, <3>1, <3>2
    <2> QED
      BY <1>6, <2>1, <2>2
  <1> QED
    BY <1>4, <1>5, <1>6, <1>7

-----------------------------------------------------------------------------
(* Lists of entries. *)

InOrder(s) == \A i, j \in DOMAIN s : i < j => s[i].abs_time <= s[j].abs_time

\* No timeout has two entries, and those that have one are H.
OneEach(s, H) ==
  /\ {s[i].handle : i \in DOMAIN s} = H
  /\ \A i, j \in DOMAIN s : s[i].handle = s[j].handle => i = j

\* An entry put where the times before are at most its own, and those after at
\* least, leaves a sorted list sorted.
LEMMA InsertSorted ==
  ASSUME NEW s \in Seq(Entries), NEW e \in Entries, NEW k \in 1..Len(s) + 1,
         InOrder(s),
         \A i \in 1..k - 1 : s[i].abs_time <= e.abs_time,
         k <= Len(s) => e.abs_time <= s[k].abs_time
  PROVE  /\ InsertAt(s, k, e) \in Seq(Entries)
         /\ InOrder(InsertAt(s, k, e))
  <1> DEFINE t == InsertAt(s, k, e)
  <1>1. /\ t \in Seq(Entries)
        /\ Len(t) = Len(s) + 1
        /\ \A i \in 1..Len(t) : t[i] = IF i < k THEN s[i] ELSE IF i = k THEN e ELSE s[i - 1]
    BY InsertFacts
  <1>2. \A i \in 1..Len(s) : s[i] \in Entries
    OBVIOUS
  <1>3. /\ e.abs_time \in Nat
        /\ \A i \in 1..Len(s) : s[i].abs_time \in Nat
    BY <1>2 DEF Entries
  <1>4. \A m, n \in 1..Len(s) : m < n => s[m].abs_time <= s[n].abs_time
    BY DEF InOrder
  <1>5. \A i \in 1..Len(s) : i >= k => e.abs_time <= s[i].abs_time
    BY <1>3, <1>4
  <1>6. \A i \in 1..Len(t) :
          \/ i = k /\ t[i] = e
          \/ i < k /\ i \in 1..Len(s) /\ t[i] = s[i]
          \/ i > k /\ i - 1 \in 1..Len(s) /\ t[i] = s[i - 1]
    BY <1>1
  <1> HIDE DEF t
  <1>7. ASSUME NEW i \in 1..Len(t), NEW j \in 1..Len(t), i < j
        PROVE  t[i].abs_time <= t[j].abs_time
    <2>1. CASE j < k
      <3>1. t[i] = s[i] /\ t[j] = s[j] /\ i \in 1..Len(s) /\ j \in 1..Len(s)
        BY <1>6, <1>7, <2>1
      <3> QED
        BY <1>4, <1>7, <3>1
    <2>2. CASE j = k
      BY <1>6, <1>7, <2>2
    <2>3. CASE j > k /\ i < k
      <3>1. /\ t[i] = s[i] /\ t[j] = s[j - 1]
            /\ i \in 1..Len(s) /\ j - 1 \in 1..Len(s)
            /\ i < j - 1 \/ i = j - 1
        BY <1>6, <1>7, <2>3
      <3>2. s[i].abs_time <= s[j - 1].abs_time
        BY <1>3, <1>4, <3>1
      <3> QED
        BY <3>1, <3>2
    <2>4. CASE i = k
      <3>1. t[i] = e /\ t[j] = s[j - 1] /\ j - 1 \in 1..Len(s) /\ j - 1 >= k
        BY <1>6, <1>7, <2>4
      <3> QED
        BY <1>5, <3>1
    <2>5. CASE i > k
      BY SMTT(20), <1>4, <1>6, <1>7, <2>5
    <2> QED
      BY <1>1, <1>7, <2>1, <2>2, <2>3, <2>4, <2>5
  <1> QED
    BY <1>1, <1>7 DEF InOrder, t

\* An entry of a timeout that has none leaves one for each.
LEMMA InsertOneEach ==
  ASSUME NEW s \in Seq(Entries), NEW e \in Entries, NEW k \in 1..Len(s) + 1,
         NEW H, OneEach(s, H), e.handle \notin H
  PROVE  OneEach(InsertAt(s, k, e), H \cup {e.handle})
  <1> DEFINE t == InsertAt(s, k, e)
  <1>1. /\ t \in Seq(Entries)
        /\ Len(t) = Len(s) + 1
        /\ \A i \in 1..Len(t) : t[i] = IF i < k THEN s[i] ELSE IF i = k THEN e ELSE s[i - 1]
    BY InsertFacts
  <1> HIDE DEF t
  <1>2. DOMAIN s = 1..Len(s) /\ DOMAIN t = 1..Len(t)
    BY <1>1
  <1>3. \A i \in 1..Len(s) : s[i].handle \in H
    BY <1>2 DEF OneEach
  <1> DEFINE from(i) == IF i < k THEN i ELSE i - 1
  <1>4. /\ \A i \in 1..Len(t) : i # k => from(i) \in 1..Len(s) /\ t[i] = s[from(i)]
        /\ \A i, j \in 1..Len(t) : i # k /\ j # k /\ from(i) = from(j) => i = j
        /\ t[k] = e
    BY <1>1
  <1> HIDE DEF from
  <1>5. \A i, j \in DOMAIN t : t[i].handle = t[j].handle => i = j
    <2>1. \A m, n \in 1..Len(s) : s[m].handle = s[n].handle => m = n
      BY <1>2 DEF OneEach
    <2>2. \A i \in 1..Len(t) : i # k => t[i].handle # t[k].handle
      BY <1>3, <1>4
    <2>3. \A i, j \in 1..Len(t) : i # k /\ j # k /\ t[i].handle = t[j].handle => i = j
      BY SMTT(20), <1>4, <2>1
    <2> QED
      BY <1>2, <2>2, <2>3
  <1>6. \A i \in DOMAIN t : t[i].handle \in H \cup {e.handle}
    BY <1>2, <1>3, <1>4
  <1>7. \A h \in H \cup {e.handle} : \E i \in DOMAIN t : t[i].handle = h
    <2>1. k \in DOMAIN t /\ t[k] = e
      BY <1>1, <1>2
    <2>2. ASSUME NEW h \in H
          PROVE  \E i \in DOMAIN t : t[i].handle = h
      <3>1. PICK i \in 1..Len(s) : s[i].handle = h
        BY <1>2 DEF OneEach
      <3>2. CASE i < k
        <4>1. i \in DOMAIN t /\ t[i] = s[i]
          BY <1>1, <1>2, <3>1, <3>2
        <4> QED
          BY <3>1, <4>1
      <3>3. CASE i >= k
        <4>1. i + 1 \in DOMAIN t /\ t[i + 1] = s[i]
          BY <1>1, <1>2, <3>1, <3>3
        <4> QED
          BY <3>1, <4>1
      <3> QED
        BY <3>1, <3>2, <3>3
    <2> QED
      BY <2>1, <2>2
  <1> QED
    BY <1>2, <1>5, <1>6, <1>7 DEF OneEach, t

\* Removing an entry leaves a sorted list sorted, and one entry for each of the
\* other timeouts.
LEMMA RemoveKeeps ==
  ASSUME NEW s \in Seq(Entries), NEW k \in 1..Len(s), NEW H,
         InOrder(s), OneEach(s, H)
  PROVE  /\ RemoveAt(s, k) \in Seq(Entries)
         /\ InOrder(RemoveAt(s, k))
         /\ OneEach(RemoveAt(s, k), H \ {s[k].handle})
  <1> DEFINE t == RemoveAt(s, k)
  <1>1. /\ t \in Seq(Entries)
        /\ Len(t) = Len(s) - 1
        /\ \A i \in 1..Len(t) : t[i] = IF i < k THEN s[i] ELSE s[i + 1]
    BY RemoveFacts
  <1> HIDE DEF t
  <1>2. DOMAIN s = 1..Len(s) /\ DOMAIN t = 1..Len(t)
    BY <1>1
  <1>3. \A i \in 1..Len(t) :
          \/ i < k /\ i \in 1..Len(s) /\ t[i] = s[i]
          \/ i >= k /\ i + 1 \in 1..Len(s) /\ t[i] = s[i + 1]
    BY <1>1
  <1>4. InOrder(t)
    <2>1. ASSUME NEW i \in 1..Len(t), NEW j \in 1..Len(t), i < j
          PROVE  t[i].abs_time <= t[j].abs_time
      <3>1. \A m, n \in 1..Len(s) : m < n => s[m].abs_time <= s[n].abs_time
        BY <1>2 DEF InOrder
      <3>2. CASE j < k
        BY <1>3, <2>1, <3>1, <3>2
      <3>3. CASE i < k /\ j >= k
        BY <1>3, <2>1, <3>1, <3>3
      <3>4. CASE i >= k
        BY <1>3, <2>1, <3>1, <3>4
      <3> QED
        BY <1>1, <2>1, <3>2, <3>3, <3>4
    <2> QED
      BY <1>2, <2>1 DEF InOrder
  <1> DEFINE from(i) == IF i < k THEN i ELSE i + 1
  <1>5. \A i \in 1..Len(t) : from(i) \in 1..Len(s) /\ from(i) # k /\ t[i] = s[from(i)]
    BY <1>1
  <1>6. \A i, j \in 1..Len(t) : from(i) = from(j) => i = j
    OBVIOUS
  <1> HIDE DEF from
  <1>7. \A m, n \in 1..Len(s) : s[m].handle = s[n].handle => m = n
    BY <1>2 DEF OneEach
  <1>8. \A i, j \in DOMAIN t : t[i].handle = t[j].handle => i = j
    BY <1>2, <1>5, <1>6, <1>7
  <1>9. \A i \in DOMAIN t : t[i].handle \in H \ {s[k].handle}
    <2>1. \A m \in 1..Len(s) : s[m].handle \in H
      BY <1>2 DEF OneEach
    <2> QED
      BY <1>2, <1>5, <1>7, <2>1
  <1>10. ASSUME NEW h \in H, h # s[k].handle
        PROVE  \E i \in DOMAIN t : t[i].handle = h
    <2>1. PICK i \in 1..Len(s) : s[i].handle = h
      BY <1>2 DEF OneEach
    <2>2. CASE i < k
      <3>1. i \in DOMAIN t /\ t[i] = s[i]
        BY <1>1, <1>2, <2>1, <2>2
      <3> QED
        BY <2>1, <3>1
    <2>3. CASE i > k
      <3>1. i - 1 \in DOMAIN t /\ t[i - 1] = s[i]
        BY <1>1, <1>2, <2>1, <2>3
      <3> QED
        BY <2>1, <3>1
    <2> QED
      BY <1>10, <2>1, <2>2, <2>3
  <1> QED
    BY <1>1, <1>4, <1>8, <1>9, <1>10 DEF OneEach, t

\* A list with one entry for each of H is as long as H is large.
LEMMA OneEachCounts ==
  ASSUME NEW s \in Seq(Entries), NEW H, OneEach(s, H)
  PROVE  Len(s) = Cardinality(H)
  <1> DEFINE f == [i \in 1..Len(s) |-> s[i].handle]
  <1>1. f \in Bijection(1..Len(s), H)
    BY DEF OneEach, Bijection, Injection, Surjection, IsInjective
  <1>2. ExistsBijection(1..Len(s), H)
    BY <1>1 DEF ExistsBijection
  <1>3. Len(s) \in Nat
    OBVIOUS
  <1> HIDE DEF f
  <1>4. IsFiniteSet(1..Len(s)) /\ Cardinality(1..Len(s)) = Len(s)
    BY SMTT(20), <1>3, FS_Interval
  <1> QED
    BY <1>2, <1>4, FS_Bijection

\* The list without its first entry.
LEMMA TailRemoves ==
  ASSUME NEW S, NEW s \in Seq(S), s # <<>>
  PROVE  Tail(s) = RemoveAt(s, 1)
  <1>1. 1 \in 1..Len(s)
    BY EmptySeq
  <1>2. /\ RemoveAt(s, 1) \in Seq(S)
        /\ Len(RemoveAt(s, 1)) = Len(s) - 1
        /\ \A i \in 1..Len(s) - 1 : RemoveAt(s, 1)[i] = s[i + 1]
    BY <1>1, RemoveFacts
  <1>3. /\ Tail(s) \in Seq(S)
        /\ Len(Tail(s)) = Len(s) - 1
        /\ \A i \in 1..Len(s) - 1 : Tail(s)[i] = s[i + 1]
    BY HeadTailProperties
  <1> QED
    BY <1>2, <1>3, SeqEqual

-----------------------------------------------------------------------------
(* The invariant. *)

\* An event that epoll_wait reported still stands, unless the list was changed.
ReportStands == io_pc = "event" /\ ~changed => readable

Inv ==
  /\ TypeOK
  /\ InOrder(timers)
  /\ OneEach(timers, enabled)
  /\ SetForFirst
  /\ ReportStands

\* Nothing is listed at first.
LEMMA InitInv == Init => Inv
  <1> SUFFICES ASSUME Init
               PROVE  Inv
    OBVIOUS
  <1>1. timers = <<>> /\ <<>> \in Seq(Entries) /\ DOMAIN timers = {}
    BY EmptySeq DEF Init
  <1>2. InOrder(timers) /\ OneEach(timers, enabled)
    BY <1>1 DEF Init, InOrder, OneEach
  <1>3. TypeOK
    <2>1. timers \in Seq(Entries)
      BY <1>1
    <2>2. 0 \in 0..MaxTime /\ 0 \in 0..MaxAdds
      BY TimersAssumption
    <2> QED
      BY <2>1, <2>2 DEF Init, TypeOK
  <1> QED
    BY <1>2, <1>3 DEF Init, Inv, SetForFirst, ReportStands

\* Adding a timeout: the new entry goes where it belongs, and the timerfd is
\* set for it if that is the front.
LEMMA AddTimeoutInv ==
  ASSUME Inv, NEW h \in Timeouts, AddTimeout(h)
  PROVE  Inv'
  <1>1. PICK interval \in Intervals, delay \in 0..MaxDelay :
          delay <= now /\ Enlist(NewEntry(h, interval, now - delay))
    BY DEF AddTimeout
  <1> DEFINE e == NewEntry(h, interval, now - delay)
  <1>2. e \in Entries /\ e.handle = h
    BY <1>1, TimersAssumption DEF Inv, TypeOK, NewEntry, Entries
  <1> HIDE DEF e
  <1>3. PICK k \in 1..Len(timers) + 1 :
          /\ After(timers, k, e)
          /\ timers' = InsertAt(timers, k, e)
          /\ IF k = 1 THEN SetTime(e.abs_time) ELSE UNCHANGED <<timerfd, readable>>
    BY <1>1 DEF Enlist, e
  <1>4. timers \in Seq(Entries) /\ InOrder(timers) /\ OneEach(timers, enabled)
    BY DEF Inv, TypeOK
  <1>5. e.abs_time \in Nat /\ \A i \in 1..Len(timers) : timers[i] \in Entries
    <2>1. e.abs_time \in Nat
      BY <1>2 DEF Entries
    <2>2. \A i \in 1..Len(timers) : timers[i] \in Entries
      BY <1>4
    <2> QED
      BY <2>1, <2>2
  <1>6. timers' \in Seq(Entries) /\ InOrder(timers')
    <2>1. \A i \in 1..k - 1 : timers[i].abs_time <= e.abs_time
      BY <1>3 DEF After
    <2>2. k <= Len(timers) => e.abs_time <= timers[k].abs_time
      <3>1. k <= Len(timers) => timers[k].abs_time \in Nat
        BY <1>5 DEF Entries
      <3> QED
        BY <1>3, <1>5, <3>1 DEF After
    <2> QED
      BY <1>2, <1>3, <1>4, <2>1, <2>2, InsertSorted
  <1>7. OneEach(timers', enabled')
    <2>1. h \notin enabled /\ enabled' = enabled \cup {h}
      BY DEF AddTimeout
    <2> QED
      BY <1>2, <1>3, <1>4, <2>1, InsertOneEach
  <1>8. /\ Len(timers') = Len(timers) + 1
        /\ k = 1 => timers'[1] = e
        /\ k # 1 => timers # <<>> /\ timers'[1] = timers[1]
    BY <1>2, <1>3, <1>4, InsertFacts
  <1>9. timers' # <<>>
    BY <1>4, <1>8
  <1>10. SetForFirst'
    <2>1. now' = now
      BY DEF AddTimeout
    <2>2. CASE k = 1
      BY <1>3, <1>8, <1>9, <2>2 DEF SetForFirst, SetTime
    <2>3. CASE k # 1
      BY <1>3, <1>8, <1>9, <2>1, <2>3 DEF Inv, SetForFirst
    <2> QED
      BY <2>2, <2>3
  <1>11. TypeOK'
    <2>1. timerfd' \in Nat \cup {NoTime} /\ readable' \in BOOLEAN
      BY <1>3, <1>5 DEF Inv, TypeOK, SetTime
    <2>2. adds' \in 0..MaxAdds
      BY TimersAssumption DEF Inv, TypeOK, AddTimeout
    <2>3. now' \in 0..MaxTime /\ enabled' \subseteq Timeouts
      BY DEF Inv, TypeOK, AddTimeout
    <2>4. /\ io_pc' \in {"poll", "event", "handle"}
          /\ handle' \in Timeouts \cup {NoTimeout}
          /\ changed' \in BOOLEAN
      BY DEF Inv, TypeOK, AddTimeout
    <2> QED
      BY <1>6, <2>1, <2>2, <2>3, <2>4 DEF TypeOK
  <1> QED
    BY <1>6, <1>7, <1>10, <1>11 DEF Inv, ReportStands, AddTimeout

\* Removing a timeout: its entry is the only one, and the timerfd is set for
\* the next one if it was the first.
LEMMA RemoveTimeoutInv ==
  ASSUME Inv, NEW h \in Timeouts, RemoveTimeout(h)
  PROVE  Inv'
  <1>1. timers \in Seq(Entries) /\ InOrder(timers) /\ OneEach(timers, enabled)
    BY DEF Inv, TypeOK
  <1>2. PICK k \in 1..Len(timers) :
          /\ timers[k].handle = h
          /\ timers' = RemoveAt(timers, k)
          /\ IF timers' = <<>> THEN SetTime(NoTime)
             ELSE IF k = 1 THEN SetTime(timers[2].abs_time)
             ELSE UNCHANGED <<timerfd, readable>>
    BY <1>1 DEF RemoveTimeout
  <1>3. /\ timers' \in Seq(Entries)
        /\ InOrder(timers')
        /\ OneEach(timers', enabled')
    BY <1>1, <1>2, RemoveKeeps DEF RemoveTimeout
  <1>4. /\ Len(timers') = Len(timers) - 1
        /\ \A i \in 1..Len(timers') : timers'[i] = IF i < k THEN timers[i] ELSE timers[i + 1]
    BY <1>1, <1>2, RemoveFacts
  <1>5. timers' # <<>> => 1 \in 1..Len(timers')
    BY <1>3, EmptySeq
  <1>6. timers' # <<>> => timers'[1] = IF k = 1 THEN timers[2] ELSE timers[1]
    BY <1>4, <1>5
  <1>7. timers' # <<>> => timers'[1].abs_time \in Nat
    <2>1. timers' # <<>> => timers'[1] \in Entries
      BY <1>3, <1>5
    <2> QED
      BY <2>1 DEF Entries
  <1>8. timers # <<>>
    BY <1>2
  <1>9. SetForFirst'
    <2>1. now' = now
      BY DEF RemoveTimeout
    <2>2. CASE timers' = <<>>
      BY <1>2, <2>2 DEF SetForFirst, SetTime
    <2>3. CASE timers' # <<>> /\ k = 1
      BY <1>2, <1>6, <2>3 DEF SetForFirst, SetTime
    <2>4. CASE timers' # <<>> /\ k # 1
      BY <1>2, <1>6, <1>8, <2>1, <2>4 DEF Inv, SetForFirst
    <2> QED
      BY <2>2, <2>3, <2>4
  <1>10. TypeOK'
    <2>1. timerfd' \in Nat \cup {NoTime} /\ readable' \in BOOLEAN
      BY <1>2, <1>6, <1>7 DEF Inv, TypeOK, SetTime
    <2> QED
      BY <1>3, <2>1 DEF Inv, TypeOK, RemoveTimeout
  <1> QED
    BY <1>3, <1>9, <1>10 DEF Inv, ReportStands, RemoveTimeout

\* The event of the timerfd: the first entry is put off, and whatever is first
\* then has the timerfd.
LEMMA OnTimerfdEventInv ==
  ASSUME Inv, OnTimerfdEvent
  PROVE  Inv'
  <1>1. timers \in Seq(Entries) /\ InOrder(timers) /\ OneEach(timers, enabled)
    BY DEF Inv, TypeOK
  <1>2. CASE timers = <<>>
    BY <1>2 DEF Inv, TypeOK, SetForFirst, ReportStands, OnTimerfdEvent
  <1>3. CASE timers # <<>>
    <2> DEFINE rest == Tail(timers)
               e == [timers[1] EXCEPT !.abs_time = @ + timers[1].repeat]
               h == timers[1].handle
    <2>1. PICK k \in 1..Len(timers) : Before(rest, k, e) /\ timers' = InsertAt(rest, k, e)
      BY <1>3 DEF OnTimerfdEvent
    <2>2. 1 \in 1..Len(timers) /\ timers[1] \in Entries
      BY <1>1, <1>3, EmptySeq
    <2>3. e \in Entries /\ e.handle = h
      BY <2>2 DEF Entries
    <2>4. h \in enabled /\ h \in Timeouts
      BY <1>1, <2>2 DEF OneEach, Entries
    <2>5. rest = RemoveAt(timers, 1)
      BY <1>1, <1>3, TailRemoves
    <2> HIDE DEF rest, e
    <2>6. rest \in Seq(Entries) /\ InOrder(rest) /\ OneEach(rest, enabled \ {h})
      BY <1>1, <2>2, <2>5, RemoveKeeps
    <2>7. k \in 1..Len(rest) + 1
      BY <2>1 DEF Before
    <2>8. e.abs_time \in Nat /\ \A i \in 1..Len(rest) : rest[i].abs_time \in Nat
      <3>1. \A i \in 1..Len(rest) : rest[i] \in Entries
        BY <2>6
      <3> QED
        BY <2>3, <3>1 DEF Entries
    <2>9. timers' \in Seq(Entries) /\ InOrder(timers')
      <3>1. \A i \in 1..k - 1 : rest[i].abs_time <= e.abs_time
        BY <2>1, <2>7, <2>8 DEF Before
      <3>2. k <= Len(rest) => e.abs_time <= rest[k].abs_time
        BY <2>1 DEF Before
      <3> QED
        BY <2>1, <2>3, <2>6, <2>7, <3>1, <3>2, InsertSorted
    <2>10. OneEach(timers', enabled)
      <3>1. (enabled \ {h}) \cup {h} = enabled
        BY <2>4
      <3>2. OneEach(timers', (enabled \ {h}) \cup {e.handle})
        BY <2>1, <2>3, <2>6, <2>7, InsertOneEach
      <3> QED
        BY <2>3, <3>1, <3>2
    <2>11. Len(timers') = Len(rest) + 1
      BY <2>1, <2>3, <2>6, <2>7, InsertFacts
    <2>12. timers' # <<>> /\ timers'[1] \in Entries
      BY <2>6, <2>9, <2>11
    <2>13. /\ SetTime(timers'[1].abs_time)
           /\ handle' = h /\ io_pc' = "handle"
      BY <1>3 DEF OnTimerfdEvent
    <2>14. UNCHANGED <<now, enabled, changed, adds>>
      BY DEF OnTimerfdEvent
    <2>15. SetForFirst'
      BY <2>12, <2>13 DEF SetForFirst, SetTime
    <2>16. TypeOK'
      <3>1. timers'[1].abs_time \in Nat
        BY <2>12 DEF Entries
      <3> HIDE DEF h
      <3> QED
        BY <2>4, <2>9, <2>13, <2>14, <3>1 DEF Inv, TypeOK, SetTime
    <2> QED
      BY <2>9, <2>10, <2>13, <2>14, <2>15, <2>16 DEF Inv, ReportStands
  <1> QED
    BY <1>2, <1>3

\* Every step preserves the invariant.
LEMMA NextInv == Inv /\ [Next]_vars => Inv'
  <1> SUFFICES ASSUME Inv, [Next]_vars
               PROVE  Inv'
    OBVIOUS
  <1>1. ASSUME NEW h \in Timeouts, AddTimeout(h)
        PROVE  Inv'
    BY <1>1, AddTimeoutInv
  <1>2. ASSUME NEW h \in Timeouts, RemoveTimeout(h)
        PROVE  Inv'
    BY <1>2, RemoveTimeoutInv
  <1>3. CASE Tick
    <2>1. timers # <<>> => timers[1].abs_time \in Nat
      <3>1. timers # <<>> => timers[1] \in Entries
        BY EmptySeq DEF Inv, TypeOK
      <3> QED
        BY <3>1 DEF Entries
    <2>2. now \in Nat /\ now' = now + 1 /\ now' \in 0..MaxTime
      BY <1>3, TimersAssumption DEF Tick, Inv, TypeOK
    <2>3. UNCHANGED <<timerfd, readable, timers>>
      BY <1>3 DEF Tick, list
    <2>4. SetForFirst'
      BY <2>1, <2>2, <2>3 DEF Inv, SetForFirst
    <2> QED
      BY <1>3, <2>2, <2>4 DEF Tick, list, Inv, TypeOK, ReportStands
  <1>4. CASE Expire
    BY <1>4, TimersAssumption DEF Expire, list, Inv, TypeOK, SetForFirst, ReportStands
  <1>5. CASE PollEvent
    BY <1>5 DEF PollEvent, list, Inv, TypeOK, SetForFirst, ReportStands
  <1>6. CASE OnTimerfdEvent
    BY <1>6, OnTimerfdEventInv
  <1>7. CASE Handled
    BY <1>7 DEF Handled, list, Inv, TypeOK, SetForFirst, ReportStands
  <1>8. CASE UNCHANGED vars
    BY <1>8 DEF vars, list, Inv, TypeOK, SetForFirst, ReportStands
  <1> QED
    BY <1>1, <1>2, <1>3, <1>4, <1>5, <1>6, <1>7, <1>8 DEF Next, IoThread

\* The invariant holds of the specification.
LEMMA InvHolds == Spec => []Inv
  BY InitInv, NextInv, PTL DEF Spec

-----------------------------------------------------------------------------
(* Theorems. *)

\* on_add_timeout, on_remove_timeout and on_timerfd_event keep the types; in
\* particular no interval is ever zero.
THEOREM TypeCorrect == Spec => []TypeOK
  <1>1. Inv => TypeOK
    BY DEF Inv
  <1> QED
    BY <1>1, InvHolds, PTL

\* The list of timers is sorted by expiry whenever timer_mutex is free.
THEOREM SortedHolds == Spec => []Sorted
  <1>1. Inv => Sorted
    BY DEF Inv, InOrder, Sorted
  <1> QED
    BY <1>1, InvHolds, PTL

\* The list has exactly one entry for each enabled timeout.
THEOREM ListedOnceHolds == Spec => []ListedOnce
  <1>1. Inv => ListedOnce
    <2> SUFFICES ASSUME Inv
                 PROVE  ListedOnce
      OBVIOUS
    <2>1. timers \in Seq(Entries) /\ OneEach(timers, enabled)
      BY DEF Inv, TypeOK
    <2>2. Len(timers) = Cardinality(enabled)
      BY <2>1, OneEachCounts
    <2> QED
      BY <2>1, <2>2 DEF ListedOnce, Listed, OneEach
  <1> QED
    BY <1>1, InvHolds, PTL

\* The list is the enabled timeouts, each once and in order.
THEOREM ListsEnabledHolds == Spec => []ListsEnabled
  BY SortedHolds, ListedOnceHolds, PTL DEF ListsEnabled

\* The timerfd is set for the first entry of the list or has expired for it.
THEOREM SetForFirstHolds == Spec => []SetForFirst
  <1>1. Inv => SetForFirst
    BY DEF Inv
  <1> QED
    BY <1>1, InvHolds, PTL

\* A list that was not changed since epoll_wait returned has a first entry, and
\* that is due.
LEMMA OnTime ==
  ASSUME Inv, io_pc = "event", timers # <<>>
  PROVE  timers[1].abs_time <= now \/ changed
  <1>1. changed \in BOOLEAN /\ now \in Nat
    BY TimersAssumption DEF Inv, TypeOK
  <1>2. timers[1].abs_time \in Nat
    <2>1. timers[1] \in Entries
      BY EmptySeq DEF Inv, TypeOK
    <2> QED
      BY <2>1 DEF Entries
  <1> QED
    BY <1>1, <1>2 DEF Inv, SetForFirst, ReportStands

\* on_timerfd_event handles a timeout before its time only if the list was
\* changed after epoll_wait returned.
THEOREM EarlyOnlyIfChangedHolds == Spec => EarlyOnlyIfChanged
  <1>1. Inv /\ [Next]_vars =>
          [io_pc = "event" /\ timers # <<>> /\ timers[1].abs_time > now /\ io_pc' = "handle"
             => changed]_vars
    <2> SUFFICES ASSUME Inv, io_pc = "event", timers # <<>>, timers[1].abs_time > now
                 PROVE  changed
      OBVIOUS
    <2>1. timers[1].abs_time \in Nat /\ now \in Nat
      <3>1. timers[1] \in Entries
        BY EmptySeq DEF Inv, TypeOK
      <3> QED
        BY <3>1, TimersAssumption DEF Inv, TypeOK, Entries
    <2> QED
      BY <2>1, OnTime
  <1> QED
    BY <1>1, InvHolds, PTL DEF Spec, EarlyOnlyIfChanged

-----------------------------------------------------------------------------
(* The refinement of AlarmClock. *)

\* d says when each of H is due; d with h, which is due at x; d without h.
TimesOf(d, H) == d = [h \in H |-> d[h]]
With(d, H, h, x) == [o \in H \cup {h} |-> IF o = h THEN x ELSE d[o]]
Without(d, H, h) == [o \in H \ {h} |-> d[o]]

\* In a list that has one entry for each of H, DueBy finds the entry of each.
LEMMA DueFound ==
  ASSUME NEW s \in Seq(Entries), NEW H, OneEach(s, H), NEW i \in 1..Len(s)
  PROVE  s[i].handle \in H /\ DueBy(s, H)[s[i].handle] = TimeOf(s[i])
  <1> DEFINE h == s[i].handle
             j == CHOOSE n \in DOMAIN s : s[n].handle = h
  <1>1. DOMAIN s = 1..Len(s) /\ h \in H
    BY DEF OneEach
  <1>2. j \in DOMAIN s /\ s[j].handle = h
    BY <1>1
  <1>3. j = i
    BY <1>1, <1>2 DEF OneEach
  <1>4. DueBy(s, H)[h] = TimeOf(s[j])
    BY <1>1 DEF DueBy
  <1> QED
    BY <1>1, <1>3, <1>4

\* A function on H that has the time of each entry is what DueBy gives.
LEMMA DueIs ==
  ASSUME NEW s \in Seq(Entries), NEW H, OneEach(s, H),
         NEW d, TimesOf(d, H),
         \A i \in 1..Len(s) : d[s[i].handle] = TimeOf(s[i])
  PROVE  DueBy(s, H) = d
  <1>1. ASSUME NEW h \in H
        PROVE  DueBy(s, H)[h] = d[h]
    <2>1. PICK i \in 1..Len(s) : s[i].handle = h
      BY DEF OneEach
    <2> QED
      BY <2>1, DueFound
  <1>2. DueBy(s, H) = [h \in H |-> DueBy(s, H)[h]]
    BY DEF DueBy
  <1> QED
    BY <1>1, <1>2 DEF TimesOf

\* The first entry of a sorted list is one that is due first.
LEMMA FirstIsEarliest ==
  ASSUME NEW s \in Seq(Entries), NEW H, OneEach(s, H), InOrder(s), s # <<>>
  PROVE  /\ s[1].handle \in H
         /\ \A o \in H : DueBy(s, H)[s[1].handle].at <= DueBy(s, H)[o].at
  <1>1. 1 \in 1..Len(s) /\ DOMAIN s = 1..Len(s)
    BY EmptySeq
  <1>2. \A i \in 1..Len(s) : s[i].abs_time \in Nat
    <2>1. \A i \in 1..Len(s) : s[i] \in Entries
      OBVIOUS
    <2> QED
      BY <2>1 DEF Entries
  <1>3. \A i \in 1..Len(s) : s[1].abs_time <= s[i].abs_time
    BY <1>1, <1>2 DEF InOrder
  <1>4. ASSUME NEW o \in H
        PROVE  DueBy(s, H)[s[1].handle].at <= DueBy(s, H)[o].at
    <2>1. PICK i \in 1..Len(s) : s[i].handle = o
      BY <1>1 DEF OneEach
    <2>2. DueBy(s, H)[o] = TimeOf(s[i]) /\ DueBy(s, H)[s[1].handle] = TimeOf(s[1])
      BY <1>1, <2>1, DueFound
    <2> QED
      BY <1>3, <2>2 DEF TimeOf
  <1> QED
    BY <1>1, <1>4, DueFound

\* An entry that is inserted is due when it says.
LEMMA DueInserted ==
  ASSUME NEW s \in Seq(Entries), NEW H, OneEach(s, H), NEW e \in Entries, e.handle \notin H,
         NEW k \in 1..Len(s) + 1
  PROVE  DueBy(InsertAt(s, k, e), H \cup {e.handle}) = With(DueBy(s, H), H, e.handle, TimeOf(e))
  <1> DEFINE t == InsertAt(s, k, e)
             d == With(DueBy(s, H), H, e.handle, TimeOf(e))
  <1>1. /\ t \in Seq(Entries)
        /\ Len(t) = Len(s) + 1
        /\ \A i \in 1..Len(t) : t[i] = IF i < k THEN s[i] ELSE IF i = k THEN e ELSE s[i - 1]
    BY InsertFacts
  <1>2. OneEach(t, H \cup {e.handle})
    BY InsertOneEach
  <1>4. \A j \in 1..Len(s) : s[j].handle \in H /\ DueBy(s, H)[s[j].handle] = TimeOf(s[j])
    BY DueFound
  <1>len. Len(s) \in Nat
    OBVIOUS
  <1> HIDE DEF t
  <1>3. ASSUME NEW i \in 1..Len(t)
        PROVE  t[i] = e \/ \E j \in 1..Len(s) : t[i] = s[j]
    <2>1. CASE i < k
      <3>1. i \in 1..Len(s) /\ t[i] = s[i]
        BY <1>1, <1>len, <2>1
      <3> QED
        BY <3>1
    <2>2. CASE i = k
      BY <1>1, <2>2
    <2>3. CASE i > k
      <3>1. i - 1 \in 1..Len(s) /\ t[i] = s[i - 1]
        BY <1>1, <1>len, <2>3
      <3> QED
        BY <3>1
    <2> QED
      BY <2>1, <2>2, <2>3
  <1>5. \A i \in 1..Len(t) : d[t[i].handle] = TimeOf(t[i])
    BY <1>3, <1>4 DEF With
  <1>6. TimesOf(d, H \cup {e.handle})
    BY DEF With, TimesOf
  <1> HIDE DEF d
  <1>7. DueBy(t, H \cup {e.handle}) = d
    BY <1>1, <1>2, <1>5, <1>6, DueIs
  <1> QED
    BY <1>7 DEF t, d

\* Removing an entry leaves the others due when they were.
LEMMA DueRemoved ==
  ASSUME NEW s \in Seq(Entries), NEW H, OneEach(s, H), InOrder(s), NEW k \in 1..Len(s)
  PROVE  DueBy(RemoveAt(s, k), H \ {s[k].handle}) = Without(DueBy(s, H), H, s[k].handle)
  <1> DEFINE t == RemoveAt(s, k)
             G == H \ {s[k].handle}
             d == Without(DueBy(s, H), H, s[k].handle)
  <1>1. /\ t \in Seq(Entries)
        /\ Len(t) = Len(s) - 1
        /\ \A i \in 1..Len(t) : t[i] = IF i < k THEN s[i] ELSE s[i + 1]
    BY RemoveFacts
  <1>2. OneEach(t, G)
    BY RemoveKeeps
  <1>4. \A j \in 1..Len(s) : DueBy(s, H)[s[j].handle] = TimeOf(s[j])
    BY DueFound
  <1>len. Len(s) \in Nat
    OBVIOUS
  <1> HIDE DEF t, G
  <1>3. ASSUME NEW i \in 1..Len(t)
        PROVE  \E j \in 1..Len(s) : t[i] = s[j]
    <2>1. CASE i < k
      <3>1. i \in 1..Len(s) /\ t[i] = s[i]
        BY <1>1, <1>len, <2>1
      <3> QED
        BY <3>1
    <2>2. CASE i >= k
      <3>1. i + 1 \in 1..Len(s) /\ t[i] = s[i + 1]
        BY <1>1, <1>len, <2>2
      <3> QED
        BY <3>1
    <2> QED
      BY <2>1, <2>2
  <1> USE DEF G
  <1>5. \A i \in 1..Len(t) : t[i].handle \in G
    BY <1>1, <1>2 DEF OneEach
  <1>6. \A i \in 1..Len(t) : d[t[i].handle] = TimeOf(t[i])
    BY <1>3, <1>4, <1>5 DEF Without
  <1>7. TimesOf(d, G)
    BY DEF Without, TimesOf
  <1> HIDE DEF d, G
  <1>8. DueBy(t, G) = d
    BY <1>1, <1>2, <1>6, <1>7, DueIs
  <1> QED
    BY <1>8 DEF t, d, G

\* Every step of the timers is a step of AlarmClock or none.
LEMMA NextRefines ==
  ASSUME Inv, [Next]_vars
  PROVE  [Clock!Next]_(Clock!vars)
  <1> DEFINE due == DueBy(timers, enabled)
  <1>types. /\ timers \in Seq(Entries) /\ InOrder(timers) /\ OneEach(timers, enabled)
            /\ DOMAIN due = enabled /\ DOMAIN due' = enabled'
    BY DEF Inv, TypeOK, DueBy
  <1>due. due = DueBy(timers, enabled) /\ due' = DueBy(timers', enabled')
    OBVIOUS
  <1> HIDE DEF due
  <1>1. ASSUME NEW h \in Timeouts, AddTimeout(h)
        PROVE  Clock!Next
    <2>1. PICK interval \in Intervals, delay \in 0..MaxDelay :
            delay <= now /\ Enlist(NewEntry(h, interval, now - delay))
      BY <1>1 DEF AddTimeout
    <2> DEFINE e == NewEntry(h, interval, now - delay)
               clock == now - delay
    <2>2. /\ e \in Entries /\ e.handle = h
          /\ clock \in 0..now /\ e.repeat \in (Intervals \cup {1}) \ {0}
          /\ TimeOf(e) = [at |-> clock + e.repeat, repeat |-> e.repeat]
      BY <2>1, TimersAssumption DEF Inv, TypeOK, NewEntry, Entries, TimeOf
    <2> HIDE DEF e
    <2>3. PICK k \in 1..Len(timers) + 1 : timers' = InsertAt(timers, k, e)
      BY <2>1 DEF Enlist, e
    <2>4. h \notin enabled /\ enabled' = enabled \cup {h} /\ changed' = TRUE
         /\ UNCHANGED <<now, io_pc, handle>>
      BY <1>1 DEF AddTimeout
    <2> HIDE DEF clock
    <2>5. due' = [o \in enabled \cup {h} |-> IF o = h THEN TimeOf(e) ELSE due[o]]
      <3>1. DueBy(InsertAt(timers, k, e), enabled \cup {e.handle}) = With(due, enabled, e.handle, TimeOf(e))
        BY <1>types, <1>due, <2>2, <2>4, DueInserted
      <3> QED
        BY <1>due, <2>2, <2>3, <2>4, <3>1 DEF With
    <2>6. Clock!Enable(h, clock, e.repeat)
      BY <1>types, <2>2, <2>4, <2>5 DEF Clock!Enable, due
    <2> QED
      BY <2>2, <2>6 DEF Clock!Next
  <1>2. ASSUME NEW h \in Timeouts, RemoveTimeout(h)
        PROVE  Clock!Next
    <2>1. PICK k \in 1..Len(timers) : timers[k].handle = h /\ timers' = RemoveAt(timers, k)
      BY <1>types, <1>2 DEF RemoveTimeout
    <2>2. h \in enabled /\ enabled' = enabled \ {h} /\ changed' = TRUE
         /\ UNCHANGED <<now, io_pc, handle>>
      BY <1>2 DEF RemoveTimeout
    <2>3. due' = [o \in enabled \ {h} |-> due[o]]
      <3>1. DueBy(RemoveAt(timers, k), enabled \ {timers[k].handle}) = Without(due, enabled, timers[k].handle)
        BY <1>types, <1>due, DueRemoved
      <3> QED
        BY <1>due, <2>1, <2>2, <3>1 DEF Without
    <2>4. Clock!Disable(h)
      BY <1>types, <2>2, <2>3 DEF Clock!Disable, due
    <2> QED
      BY <2>4 DEF Clock!Next
  <1>3. CASE Tick
    <2>1. Clock!Tick
      BY <1>3 DEF Tick, Clock!Tick, list
    <2> QED
      BY <2>1 DEF Clock!Next
  <1>4. CASE Expire
    BY <1>4 DEF Expire, list, Clock!vars
  <1>5. CASE PollEvent
    <2>1. timers # <<>> /\ timers[1].abs_time <= now
      BY <1>5 DEF PollEvent, Inv, SetForFirst
    <2>2. 1 \in 1..Len(timers)
      BY <1>types, <2>1, EmptySeq
    <2>3. timers[1].handle \in enabled /\ due[timers[1].handle] = TimeOf(timers[1])
      BY <1>types, <1>due, <2>2, DueFound
    <2>4. \E h \in DOMAIN due : due[h].at <= now
      BY <1>types, <2>1, <2>3 DEF TimeOf
    <2>5. Clock!Wake
      BY <1>5, <2>4 DEF PollEvent, Clock!Wake, list, due
    <2> QED
      BY <2>5 DEF Clock!Next
  <1>6. CASE OnTimerfdEvent
    <2>1. CASE timers = <<>>
      <3>1. enabled = {}
        BY <1>types, <2>1 DEF OneEach
      <3>2. /\ io_pc = "event" /\ io_pc' = "poll"
            /\ UNCHANGED <<now, timers, enabled, handle, changed>>
        BY <1>6, <2>1 DEF OnTimerfdEvent
      <3>4. changed
        BY <2>1, <3>2 DEF Inv, SetForFirst, ReportStands
      <3>3. DOMAIN due = {} /\ due' = due
        BY <1>due, <1>types, <3>1, <3>2
      <3>5. Clock!Doze
        BY <1>due, <3>2, <3>3, <3>4 DEF Clock!Doze
      <3> QED
        BY <3>5 DEF Clock!Next
    <2>2. CASE timers # <<>>
      <3> DEFINE rest == Tail(timers)
                 h == timers[1].handle
                 e == [timers[1] EXCEPT !.abs_time = @ + timers[1].repeat]
      <3>1. PICK k \in 1..Len(timers) : Before(rest, k, e) /\ timers' = InsertAt(rest, k, e)
        BY <1>6, <2>2 DEF OnTimerfdEvent
      <3>2. /\ io_pc = "event" /\ io_pc' = "handle" /\ handle' = h
            /\ UNCHANGED <<now, enabled, changed>>
        BY <1>6, <2>2 DEF OnTimerfdEvent
      <3>early. timers[1].abs_time <= now \/ changed
        BY <2>2, <3>2, OnTime
      <3>3. 1 \in 1..Len(timers) /\ timers[1] \in Entries /\ h \in Timeouts
        <4>1. 1 \in 1..Len(timers) /\ timers[1] \in Entries
          BY <1>types, <2>2, EmptySeq
        <4> QED
          BY <4>1 DEF Entries
      <3>4. e \in Entries /\ e.handle = h /\ k \in 1..Len(rest) + 1
        BY <3>1, <3>3 DEF Entries, Before
      <3>5. TimeOf(e) = [TimeOf(timers[1]) EXCEPT !.at = @ + TimeOf(timers[1]).repeat]
        BY <3>3 DEF TimeOf, Entries
      <3>6. rest = RemoveAt(timers, 1)
        BY <1>types, <2>2, TailRemoves
      <3> HIDE DEF rest, e
      <3>7. rest \in Seq(Entries) /\ OneEach(rest, enabled \ {h})
        BY <1>types, <3>3, <3>6, RemoveKeeps
      <3>8. DueBy(rest, enabled \ {h}) = Without(due, enabled, h)
        BY <1>types, <1>due, <3>3, <3>6, DueRemoved
      <3>9. h \in enabled /\ due[h] = TimeOf(timers[1]) /\ \A o \in enabled : due[h].at <= due[o].at
        BY <1>types, <1>due, <2>2, <3>3, DueFound, FirstIsEarliest
      <3>10. due' = [o \in enabled |-> IF o = h THEN TimeOf(e) ELSE due[o]]
        <4>1. (enabled \ {h}) \cup {h} = enabled
          BY <3>9
        <4>2. DueBy(InsertAt(rest, k, e), (enabled \ {h}) \cup {e.handle}) =
                With(DueBy(rest, enabled \ {h}), enabled \ {h}, e.handle, TimeOf(e))
          <5>1. e.handle \notin enabled \ {h}
            BY <3>4
          <5> QED
            BY <3>4, <3>7, <5>1, DueInserted
        <4>3. due' = With(Without(due, enabled, h), enabled \ {h}, h, TimeOf(e))
          BY <1>due, <3>1, <3>2, <3>4, <3>8, <4>1, <4>2
        <4> QED
          BY <4>1, <4>3 DEF With, Without
      <3> HIDE DEF h
      <3>11. due' = [due EXCEPT ![h].at = @ + due[h].repeat]
        <4>1. TimeOf(e) = [due[h] EXCEPT !.at = @ + due[h].repeat]
          BY <3>5, <3>9
        <4>2. due = [o \in enabled |-> due[o]]
          BY <1>due DEF DueBy
        <4> QED
          BY <3>9, <3>10, <4>1, <4>2
      <3>12. due[h].at <= now \/ changed
        BY <3>early, <3>9 DEF TimeOf
      <3>13. Clock!Handle(h)
        BY <1>types, <3>2, <3>9, <3>11, <3>12 DEF Clock!Handle, due
      <3> QED
        BY <3>3, <3>13 DEF Clock!Next
    <2> QED
      BY <2>1, <2>2
  <1>7. CASE Handled
    <2>1. Clock!Handled
      BY <1>7 DEF Handled, Clock!Handled, list
    <2> QED
      BY <2>1 DEF Clock!Next
  <1>8. CASE UNCHANGED vars
    BY <1>8 DEF vars, list, Clock!vars
  <1> QED
    BY <1>1, <1>2, <1>3, <1>4, <1>5, <1>6, <1>7, <1>8 DEF Next, IoThread

\* The timers of a connection implement AlarmClock: on_timerfd_event, which
\* looks only at the first entry and never at the clock, handles the timeout
\* that is due first, once for each time that one was due when the thread woke.
THEOREM IsAlarmClockHolds == Spec => IsAlarmClock
  <1>1. Init => Clock!Init
    BY DEF Init, Clock!Init, DueBy
  <1>2. Inv /\ [Next]_vars => [Clock!Next]_(Clock!vars)
    BY NextRefines
  <1> QED
    BY <1>1, <1>2, InvHolds, PTL DEF Spec, IsAlarmClock, Clock!Spec

-----------------------------------------------------------------------------
(* The arithmetic on struct timespec. *)

\* Division with remainder, for the milliseconds in a second.
LEMMA WholeSeconds ==
  ASSUME NEW msec \in Nat
  PROVE  /\ msec \div 1000 \in Nat
         /\ msec % 1000 \in Nat /\ msec % 1000 < 1000
         /\ msec = (msec \div 1000) * 1000 + (msec % 1000)
  BY SMT

\* inc_abs_time gives a valid timespec, as timerfd_settime demands, that is
\* later by exactly the interval; and the sum before the carry fits a signed
\* 32-bit tv_nsec, so that one carry suffices and nothing overflows.
THEOREM IncAbsTimeAdds ==
  ASSUME NEW abs \in timespec, NEW msec \in Nat
  PROVE  /\ inc_abs_time(abs, msec) \in timespec
         /\ Nanoseconds(inc_abs_time(abs, msec)) =
              Nanoseconds(abs) + msec * nanoseconds_in_a_milliseconds
         /\ abs.tv_nsec + Remainder(msec) <= LONG_MAX
  <1> DEFINE q == msec \div 1000
             r == msec % 1000
             s == abs.tv_sec
             n == abs.tv_nsec
             carry == n + r * 1000000 >= 1000000000
  <1>1. q \in Nat /\ r \in Nat /\ r < 1000 /\ msec = q * 1000 + r
    BY SMT, WholeSeconds
  <1>2. s \in Nat /\ n \in Nat /\ n < 1000000000
    BY SMT DEF timespec, nanoseconds_in_a_second
  <1>3. Remainder(msec) = r * 1000000
    BY SMT DEF Remainder, milliseconds_in_a_second, nanoseconds_in_a_milliseconds
  <1>4. inc_abs_time(abs, msec) =
          IF carry
          THEN [tv_sec |-> s + q + 1, tv_nsec |-> n + r * 1000000 - 1000000000]
          ELSE [tv_sec |-> s + q, tv_nsec |-> n + r * 1000000]
    BY SMT, <1>1, <1>2, <1>3
    DEF inc_abs_time, milliseconds_in_a_second, nanoseconds_in_a_second,
        nanoseconds_in_a_milliseconds
  <1>5. Nanoseconds(abs) = s * 1000000000 + n
    BY SMT DEF Nanoseconds, nanoseconds_in_a_second
  <1> HIDE DEF q, r, s, n, carry
  <1>6. CASE carry
    BY SMT, <1>1, <1>2, <1>3, <1>4, <1>5, <1>6
    DEF timespec, Nanoseconds, nanoseconds_in_a_second, nanoseconds_in_a_milliseconds, LONG_MAX, n, carry
  <1>7. CASE ~carry
    BY SMT, <1>1, <1>2, <1>3, <1>4, <1>5, <1>7
    DEF timespec, Nanoseconds, nanoseconds_in_a_second, nanoseconds_in_a_milliseconds, LONG_MAX, n, carry
  <1> QED
    BY <1>6, <1>7

\* The comparison that keeps the list sorted, and the one that finds the place
\* of a new entry, compare times.
THEOREM LessIsEarlier ==
  ASSUME NEW lhs \in timespec, NEW rhs \in timespec
  PROVE  less(lhs, rhs) <=> Nanoseconds(lhs) < Nanoseconds(rhs)
  BY SMT DEF less, Nanoseconds, timespec, nanoseconds_in_a_second

=============================================================================
