---------------------------- MODULE Watches_proofs ----------------------------
(***************************************************************************)
(* What holds of fd_map, of the epoll instance and of the walk of the I/O  *)
(* thread for any watches, descriptors and flags.                          *)
(***************************************************************************)
EXTENDS Watches, WellFoundedInduction, TLAPS

-----------------------------------------------------------------------------
(* The walk takes the watches in the order of their addresses. *)

\* A set of addresses that is not empty has a first one.
LEMMA LeastExists ==
  ASSUME NEW S, S \subseteq Nat, S # {}
  PROVE  \E w \in S : \A v \in S : w <= v
  <1> DEFINE R == OpToRel(<, Nat)
  <1>1. IsWellFoundedOn(R, Nat)
    BY NatLessThanWellFounded
  <1> HIDE DEF R
  <1>2. PICK x \in S : \A y \in S : ~(<<y, x>> \in R)
    BY <1>1, WFMin
  <1>3. ASSUME NEW y \in Nat, NEW z \in Nat, y < z
        PROVE  <<y, z>> \in R
    <2>1. <<y, z>> \in Nat \X Nat /\ <<y, z>>[1] < <<y, z>>[2]
      BY <1>3
    <2> QED
      BY <2>1 DEF R, OpToRel
  <1>4. \A y \in S : x <= y
    <2> TAKE y \in S
    <2>1. y \in Nat /\ x \in Nat
      OBVIOUS
    <2>2. ~(y < x)
      BY <1>2, <1>3, <2>1
    <2> QED
      BY <2>1, <2>2
  <1> QED
    BY <1>4

\* Least gives one of the watches it is asked about, or the end.
LEMMA LeastIn ==
  ASSUME NEW S, S \subseteq Nat
  PROVE  Least(S) = 0 \/ Least(S) \in S
  <1>1. CASE S = {}
    BY <1>1 DEF Least
  <1>2. CASE S # {}
    BY <1>2, LeastExists DEF Least
  <1> QED
    BY <1>1, <1>2

\* An erased entry and an empty one are the same; 0 is not a watch.
LEMMA EntryFacts ==
  ASSUME TypeOK, NEW fd \in Fds
  PROVE  /\ Entry(fd) \subseteq mapped
         /\ Entry(fd) \subseteq Nat
         /\ 0 \notin mapped
  BY WatchesAssumption DEF TypeOK, Entry

-----------------------------------------------------------------------------
(* The inductive invariant. *)

\* libdbus enables, and reports the toggle of, only watches that are in fd_map.
OnlyMapped ==
  /\ enabled \subseteq mapped
  /\ toggling # 0 => toggling \in mapped

Walking == {"walk", "unlocked", "relock"}

Live(w) == w \in mapped /\ FdOf[w] = at

\* While watcher_mutex is held the iterator is at the end or at a watch of the
\* descriptor; an erased iterator or watch that the I/O thread did not erase
\* itself, in dbus_watch_handle, another thread did; and what the thread erases
\* itself leaves nothing of the descriptor.
WalkSafe ==
  /\ pc \in Walking => at \in Fds
  /\ pc \in Walking => dangling \/ next = 0 \/ Live(next)
  /\ pc = "walk" => ~dangling
  /\ pc = "unlocked" => raced \/ (~dangling /\ Live(cur))
  /\ pc = "relock" => raced \/ ~dangling \/ Entry(at) = {}
  /\ pc = "undefined" => raced

IInv ==
  /\ TypeOK
  /\ OnlyMapped
  /\ InterestCovers
  /\ MaskExactUnlessBehind
  /\ WalkSafe

-----------------------------------------------------------------------------
(* Steps that change fd_map. *)

\* epoll_ctl for one descriptor brings the whole epoll instance up to date if
\* the watches of the others are as they were.
LEMMA UpdateSuffices ==
  ASSUME TypeOK, InterestCovers, NEW fd \in Fds, Update(fd),
         \A g \in Fds \ {fd} : Entry(g)' = Entry(g),
         \A w \in Watches : FdOf[w] # fd => mask'[w] = mask[w]
  PROVE  \A g \in Fds : interest'[g] = UNION {mask'[w] : w \in Entry(g)'}
  <1> TAKE g \in Fds
  <1>1. CASE g = fd
    BY <1>1 DEF Update, TypeOK, Entry
  <1>2. CASE g # fd
    <2>1. interest'[g] = interest[g]
      BY <1>2 DEF Update, TypeOK
    <2>2. Entry(g)' = Entry(g)
      BY <1>2
    <2>3. \A w \in Entry(g) : mask'[w] = mask[w]
      BY <1>2 DEF Entry, TypeOK
    <2>4. {mask'[w] : w \in Entry(g)} = {mask[w] : w \in Entry(g)}
      BY <2>3
    <2> QED
      BY <2>1, <2>2, <2>4 DEF InterestCovers
  <1> QED
    BY <1>1, <1>2

\* The type of the epoll instance after epoll_ctl.
LEMMA UpdateType ==
  ASSUME TypeOK, NEW fd \in Fds, Update(fd), mask' \in [Watches -> SUBSET Events],
         mapped' \subseteq Watches
  PROVE  interest' \in [Fds -> SUBSET Events]
  <1>1. UNION {mask'[w] : w \in {v \in mapped' : FdOf[v] = fd}} \in SUBSET Events
    OBVIOUS
  <1> QED
    BY <1>1 DEF Update, TypeOK

\* Watches of one descriptor are erased: what is left is as it was.
LEMMA EraseInv ==
  ASSUME IInv, NEW fd \in Fds, NEW ws, ws \subseteq Entry(fd), Erase(fd, ws),
         toggling = 0, UNCHANGED toggling
  PROVE  /\ mapped' \subseteq Watches /\ enabled' \subseteq Watches
         /\ mask' \in [Watches -> SUBSET Events]
         /\ interest' \in [Fds -> SUBSET Events]
         /\ behind' \subseteq mapped'
         /\ dangling' \in BOOLEAN
         /\ OnlyMapped'
         /\ InterestCovers'
         /\ MaskExactUnlessBehind'
  <1>typed. TypeOK /\ OnlyMapped /\ InterestCovers /\ MaskExactUnlessBehind
    BY DEF IInv
  <1>step. /\ mapped' = mapped \ ws /\ enabled' = enabled \ ws /\ behind' = behind \ ws
           /\ mask' = [w \in Watches |-> IF w \in ws THEN {} ELSE mask[w]]
           /\ Update(fd)
    BY DEF Erase
  <1>1. /\ mapped' \subseteq Watches /\ enabled' \subseteq Watches
        /\ mask' \in [Watches -> SUBSET Events]
        /\ behind' \subseteq mapped'
    BY <1>typed, <1>step DEF TypeOK
  <1>2. interest' \in [Fds -> SUBSET Events]
    BY <1>typed, <1>step, <1>1, UpdateType
  <1>3. dangling' \in BOOLEAN
    BY <1>typed DEF Erase, TypeOK
  <1>4. OnlyMapped'
    BY <1>typed, <1>step DEF OnlyMapped
  <1>5. \A w \in mapped' : w \in mapped /\ mask'[w] = mask[w] /\ Wanted(w)' = Wanted(w)
    BY <1>typed, <1>step DEF TypeOK, Wanted
  <1>6. InterestCovers'
    <2>1. \A g \in Fds \ {fd} : Entry(g)' = Entry(g)
      BY <1>step DEF Entry
    <2>2. \A w \in Watches : FdOf[w] # fd => mask'[w] = mask[w]
      BY <1>step DEF Entry
    <2>3. \A g \in Fds : interest'[g] = UNION {mask'[w] : w \in Entry(g)'}
      BY <1>typed, <1>step, <2>1, <2>2, UpdateSuffices
    <2>4. \A w \in mapped' \ {toggling'} : Wanted(w)' \subseteq mask'[w]
      BY <1>typed, <1>5 DEF InterestCovers
    <2> QED
      BY <2>3, <2>4 DEF InterestCovers
  <1>7. MaskExactUnlessBehind'
    BY <1>typed, <1>step, <1>5 DEF MaskExactUnlessBehind
  <1> QED
    BY <1>1, <1>2, <1>3, <1>4, <1>6, <1>7

LEMMA AddWatchInv ==
  ASSUME IInv, NEW w \in Watches, AddWatch(w)
  PROVE  IInv'
  <1>inv. TypeOK /\ OnlyMapped /\ InterestCovers /\ MaskExactUnlessBehind /\ WalkSafe
    BY DEF IInv
  <1>step. /\ pc # "walk" /\ toggling = 0 /\ w \notin mapped
           /\ FdOf[w] = at => ~raced /\ ~dangling
           /\ enabled' = enabled \/ enabled' = enabled \cup {w}
           /\ mapped' = mapped \cup {w}
           /\ mask' = [mask EXCEPT ![w] = IF w \in enabled' THEN FlagsOf[w] ELSE {}]
           /\ Update(FdOf[w])
           /\ UNCHANGED <<toggling, ready, walk, behind>>
    BY DEF AddWatch, MutexFree, BusLockFree
  <1>fd. FdOf[w] \in Fds /\ FlagsOf[w] \subseteq Events
    BY WatchesAssumption DEF Events
  <1>1. /\ mapped' \subseteq Watches /\ enabled' \subseteq Watches
        /\ mask' \in [Watches -> SUBSET Events]
        /\ behind' \subseteq mapped'
    BY <1>inv, <1>step, <1>fd DEF TypeOK
  <1>2. interest' \in [Fds -> SUBSET Events]
    BY <1>inv, <1>step, <1>fd, <1>1, UpdateType
  <1>3. TypeOK'
    BY <1>inv, <1>step, <1>1, <1>2 DEF TypeOK, walk
  <1>4. OnlyMapped'
    BY <1>inv, <1>step DEF OnlyMapped
  <1>5. \A v \in mapped : v # w /\ mask'[v] = mask[v] /\ Wanted(v)' = Wanted(v)
    BY <1>inv, <1>step DEF TypeOK, Wanted
  <1>6. mask'[w] = Wanted(w)'
    BY <1>inv, <1>step DEF TypeOK, Wanted
  <1>7. InterestCovers'
    <2>1. \A g \in Fds \ {FdOf[w]} : Entry(g)' = Entry(g)
      BY <1>step DEF Entry
    <2>2. \A v \in Watches : FdOf[v] # FdOf[w] => mask'[v] = mask[v]
      BY <1>inv, <1>step DEF TypeOK
    <2>3. \A g \in Fds : interest'[g] = UNION {mask'[v] : v \in Entry(g)'}
      BY <1>inv, <1>step, <1>fd, <2>1, <2>2, UpdateSuffices
    <2>4. \A v \in mapped' \ {toggling'} : Wanted(v)' \subseteq mask'[v]
      BY <1>inv, <1>step, <1>5, <1>6 DEF InterestCovers
    <2> QED
      BY <2>3, <2>4 DEF InterestCovers
  <1>8. MaskExactUnlessBehind'
    BY <1>inv, <1>step, <1>5, <1>6 DEF MaskExactUnlessBehind
  <1>9. WalkSafe'
    BY <1>inv, <1>step DEF WalkSafe, Walking, Live, Entry, walk
  <1> QED
    BY <1>3, <1>4, <1>7, <1>8, <1>9 DEF IInv

LEMMA RemoveWatchInv ==
  ASSUME IInv, NEW w \in Watches, RemoveWatch(w)
  PROVE  IInv'
  <1>inv. TypeOK /\ OnlyMapped /\ InterestCovers /\ MaskExactUnlessBehind /\ WalkSafe
    BY DEF IInv
  <1>step. /\ pc # "walk" /\ toggling = 0 /\ w \in mapped
           /\ Erase(FdOf[w], {w})
           /\ raced' = (raced \/ FdOf[w] = at)
           /\ UNCHANGED <<toggling, ready, pc, events, at, cur, next, triggered>>
    BY DEF RemoveWatch, MutexFree, BusLockFree
  <1>fd. FdOf[w] \in Fds /\ {w} \subseteq Entry(FdOf[w])
    BY <1>step, WatchesAssumption DEF Entry
  <1>1. /\ mapped' \subseteq Watches /\ enabled' \subseteq Watches
        /\ mask' \in [Watches -> SUBSET Events]
        /\ interest' \in [Fds -> SUBSET Events]
        /\ behind' \subseteq mapped'
        /\ dangling' \in BOOLEAN
        /\ OnlyMapped' /\ InterestCovers' /\ MaskExactUnlessBehind'
    BY <1>step, <1>fd, EraseInv
  <1>2. TypeOK'
    BY <1>inv, <1>step, <1>1 DEF TypeOK
  <1>3. /\ mapped' = mapped \ {w}
        /\ dangling' = (dangling \/ (FdOf[w] = at /\ (next \in {w} \/ Entry(FdOf[w]) \subseteq {w})))
    BY <1>step DEF Erase
  <1>4. WalkSafe'
    <2>1. CASE FdOf[w] = at
      BY <1>inv, <1>step, <1>3, <2>1 DEF WalkSafe, Walking, Live
    <2>2. CASE FdOf[w] # at
      <3>1. dangling' = dangling /\ raced' = raced
        BY <1>inv, <1>step, <1>3, <2>2 DEF TypeOK
      <3>2. Entry(at)' = Entry(at)
        BY <1>step, <1>3, <2>2 DEF Entry
      <3>3. Live(next)' = Live(next) /\ Live(cur)' = Live(cur)
        BY <1>step, <1>3, <2>2 DEF Live
      <3> QED
        BY <1>inv, <1>step, <3>1, <3>2, <3>3 DEF WalkSafe, Walking
    <2> QED
      BY <2>1, <2>2
  <1> QED
    BY <1>1, <1>2, <1>4 DEF IInv

LEMMA ToggleInv ==
  ASSUME IInv, NEW w \in Watches, Toggle(w)
  PROVE  IInv'
  <1>inv. TypeOK /\ OnlyMapped /\ InterestCovers /\ MaskExactUnlessBehind /\ WalkSafe
    BY DEF IInv
  <1>step. /\ toggling = 0 /\ w \in mapped
           /\ toggling' = w
           /\ enabled' = IF w \in enabled THEN enabled \ {w} ELSE enabled \cup {w}
           /\ UNCHANGED <<map, ready, walk>>
    BY DEF Toggle, BusLockFree
  <1>1. TypeOK'
    BY <1>inv, <1>step DEF TypeOK, map, walk
  <1>2. OnlyMapped'
    BY <1>inv, <1>step DEF OnlyMapped, map
  <1>3. \A v \in mapped' : v # toggling' => v \in mapped /\ Wanted(v)' = Wanted(v) /\ mask'[v] = mask[v] /\ v # toggling
    BY <1>inv, <1>step, WatchesAssumption DEF Wanted, map, TypeOK
  <1>4. InterestCovers'
    BY <1>inv, <1>step, <1>3 DEF InterestCovers, Entry, map
  <1>5. MaskExactUnlessBehind'
    BY <1>inv, <1>step, <1>3 DEF MaskExactUnlessBehind, map
  <1>6. WalkSafe'
    BY <1>inv, <1>step DEF WalkSafe, Walking, Live, Entry, map, walk
  <1> QED
    BY <1>1, <1>2, <1>4, <1>5, <1>6 DEF IInv

LEMMA OnToggledWatchInv ==
  ASSUME IInv, OnToggledWatch
  PROVE  IInv'
  <1> DEFINE t == toggling
             extra == UNION {mask[v] : v \in Before(t)}
  <1>inv. TypeOK /\ OnlyMapped /\ InterestCovers /\ MaskExactUnlessBehind /\ WalkSafe
    BY DEF IInv
  <1>step. /\ toggling # 0 /\ toggling' = 0
           /\ UNCHANGED <<mapped, enabled, ready, walk>>
           /\ mask' = [mask EXCEPT ![t] = Wanted(t) \cup extra]
           /\ Update(FdOf[t])
           /\ behind' = IF Before(t) = {} THEN behind \ {t} ELSE behind \cup {t}
    BY DEF OnToggledWatch
  <1>t. t \in mapped /\ t \in Watches /\ FdOf[t] \in Fds /\ 0 \notin mapped
    BY <1>inv, <1>step, WatchesAssumption DEF OnlyMapped, TypeOK
  <1>1. Before(t) \subseteq Watches
    BY <1>inv DEF Before, Entry, TypeOK
  <1>2. Wanted(t) \cup extra \in SUBSET Events
    <2>1. Wanted(t) \subseteq Events
      BY <1>t, WatchesAssumption DEF Wanted, Events
    <2>2. \A v \in Before(t) : mask[v] \subseteq Events
      BY <1>inv, <1>1 DEF TypeOK
    <2> QED
      BY <2>1, <2>2
  <1>3. mask' \in [Watches -> SUBSET Events]
    <2> HIDE DEF extra
    <2> QED
      BY <1>inv, <1>step, <1>2 DEF TypeOK
  <1>4. mask'[t] = Wanted(t) \cup extra /\ \A v \in Watches : v # t => mask'[v] = mask[v]
    <2> HIDE DEF extra
    <2> QED
      BY <1>inv, <1>step, <1>t DEF TypeOK
  <1>5. interest' \in [Fds -> SUBSET Events]
    BY <1>inv, <1>step, <1>t, <1>3, UpdateType DEF TypeOK
  <1>6. TypeOK'
    BY <1>inv, <1>step, <1>t, <1>3, <1>5 DEF TypeOK, walk
  <1>7. OnlyMapped'
    BY <1>inv, <1>step DEF OnlyMapped
  <1>8. \A v \in Watches : Wanted(v)' = Wanted(v)
    BY <1>step DEF Wanted
  <1>9. InterestCovers'
    <2>1. \A g \in Fds \ {FdOf[t]} : Entry(g)' = Entry(g)
      BY <1>step DEF Entry
    <2>2. \A v \in Watches : FdOf[v] # FdOf[t] => mask'[v] = mask[v]
      BY <1>4
    <2>3. \A g \in Fds : interest'[g] = UNION {mask'[v] : v \in Entry(g)'}
      BY <1>inv, <1>step, <1>t, <2>1, <2>2, UpdateSuffices
    <2>4. \A v \in mapped' \ {toggling'} : Wanted(v)' \subseteq mask'[v]
      <3> SUFFICES ASSUME NEW v \in mapped
                   PROVE  Wanted(v) \subseteq mask'[v]
        BY <1>inv, <1>step, <1>8 DEF TypeOK
      <3>1. CASE v = t
        BY <1>4, <3>1
      <3>2. CASE v # t
        BY <1>inv, <1>4, <3>2 DEF InterestCovers, TypeOK
      <3> QED
        BY <3>1, <3>2
    <2> QED
      BY <2>3, <2>4 DEF InterestCovers
  <1>10. MaskExactUnlessBehind'
    <2> SUFFICES ASSUME NEW v \in mapped, v \notin behind'
                 PROVE  mask'[v] = Wanted(v)
      BY <1>inv, <1>step, <1>8 DEF TypeOK, MaskExactUnlessBehind
    <2>1. CASE v = t
      <3>1. Before(t) = {}
        BY <1>step, <2>1
      <3>2. extra = {}
        BY <3>1
      <3> QED
        BY <1>4, <2>1, <3>2
    <2>2. CASE v # t
      <3>1. v \notin behind
        BY <1>step, <2>2
      <3> QED
        BY <1>inv, <1>4, <2>2, <3>1 DEF MaskExactUnlessBehind, TypeOK
    <2> QED
      BY <2>1, <2>2
  <1>11. WalkSafe'
    BY <1>inv, <1>step DEF WalkSafe, Walking, Live, Entry, walk
  <1> QED
    BY <1>6, <1>7, <1>9, <1>10, <1>11 DEF IInv

-----------------------------------------------------------------------------
(* Steps that leave fd_map alone. *)

\* They keep the invariant if they keep the types of what they do change.
LEMMA MapKept ==
  ASSUME IInv, UNCHANGED <<map, libdbus>>
  PROVE  OnlyMapped' /\ InterestCovers' /\ MaskExactUnlessBehind'
  <1>inv. OnlyMapped /\ InterestCovers /\ MaskExactUnlessBehind
    BY DEF IInv
  <1>1. OnlyMapped'
    BY <1>inv DEF OnlyMapped, map, libdbus
  <1>2. InterestCovers'
    BY <1>inv DEF InterestCovers, Entry, Wanted, map, libdbus
  <1>3. MaskExactUnlessBehind'
    BY <1>inv DEF MaskExactUnlessBehind, Wanted, map, libdbus
  <1> QED
    BY <1>1, <1>2, <1>3

LEMMA BecomeReadyInv ==
  ASSUME IInv, NEW fd \in Fds, NEW e \in Events, BecomeReady(fd, e)
  PROVE  IInv'
  <1>inv. TypeOK /\ WalkSafe
    BY DEF IInv
  <1>1. OnlyMapped' /\ InterestCovers' /\ MaskExactUnlessBehind'
    BY MapKept DEF BecomeReady
  <1>2. TypeOK'
    BY <1>inv DEF BecomeReady, TypeOK, map, libdbus, walk
  <1>3. WalkSafe'
    BY <1>inv DEF BecomeReady, WalkSafe, Walking, Live, Entry, map, walk
  <1> QED
    BY <1>1, <1>2, <1>3 DEF IInv

\* The steps of the I/O thread but dbus_watch_handle.
LEMMA IoStepInv ==
  ASSUME IInv, IoStep
  PROVE  IInv'
  <1>inv. TypeOK /\ WalkSafe
    BY DEF IInv
  <1>kept. UNCHANGED <<map, libdbus>> /\ UNCHANGED ready
    BY DEF IoStep, EpollWait, NextFd, HandleIoWatchEvent, EndOfWatches, Relock, UseFreedWatch
  <1>1. OnlyMapped' /\ InterestCovers' /\ MaskExactUnlessBehind'
    BY <1>kept, MapKept
  <1>entry. \A fd : Entry(fd)' = Entry(fd)
    BY <1>kept DEF Entry, map
  <1>2. CASE EpollWait
    <2>1. \A fd \in Fds : Reported(fd) \in SUBSET Events
      BY <1>inv DEF Reported, TypeOK
    <2>2. events' \in [Fds -> SUBSET Events]
      BY <1>2, <2>1 DEF EpollWait
    <2>3. TypeOK'
      BY <1>inv, <1>2, <1>kept, <2>2 DEF EpollWait, TypeOK, map, libdbus
    <2>4. WalkSafe'
      BY <1>2 DEF EpollWait, WalkSafe, Walking
    <2> QED
      BY <1>1, <2>3, <2>4 DEF IInv
  <1>3. CASE NextFd
    <2>step. dangling' = FALSE /\ raced' = FALSE /\ triggered' = {} /\ cur' = 0
      BY <1>3 DEF NextFd
    <2>1. CASE \E fd \in {f \in Fds : events[f] # {}} :
                 /\ at' = fd /\ next' = Least(Entry(fd))
                 /\ IF Entry(fd) = {}
                    THEN /\ events' = [events EXCEPT ![fd] = {}]
                         /\ UNCHANGED pc
                    ELSE pc' = "walk" /\ UNCHANGED events
      <3>1. PICK fd \in Fds :
                 /\ at' = fd /\ next' = Least(Entry(fd))
                 /\ IF Entry(fd) = {}
                    THEN /\ events' = [events EXCEPT ![fd] = {}]
                         /\ UNCHANGED pc
                    ELSE pc' = "walk" /\ UNCHANGED events
        BY <2>1
      <3>2. next' = 0 \/ next' \in Entry(fd)
        BY <1>inv, <3>1, EntryFacts, LeastIn
      <3>3. TypeOK'
        BY <1>inv, <1>kept, <2>step, <3>1, <3>2, EntryFacts DEF TypeOK, map, libdbus
      <3>4. pc = "result"
        BY <1>3 DEF NextFd
      <3>5. WalkSafe'
        BY <1>kept, <2>step, <3>1, <3>2, <3>4 DEF WalkSafe, Walking, Live, Entry, map
      <3> QED
        BY <1>1, <3>3, <3>5 DEF IInv
    <2>2. CASE pc' = "wait" /\ at' = NoFd /\ next' = 0 /\ UNCHANGED events
      <3>1. TypeOK'
        BY <1>inv, <1>kept, <2>step, <2>2 DEF TypeOK, map, libdbus
      <3>2. WalkSafe'
        BY <2>2 DEF WalkSafe, Walking
      <3> QED
        BY <1>1, <3>1, <3>2 DEF IInv
    <2> QED
      BY <1>3, <2>1, <2>2 DEF NextFd
  <1>4. CASE HandleIoWatchEvent
    <2> DEFINE trig == events[at] \cap (mask[next] \cup Error)
               rest == {v \in Entry(FdOf[next]) : v > next}
    <2>step. /\ pc = "walk" /\ next # 0
             /\ cur' = next /\ next' = Least(rest)
             /\ \/ pc' = "unlocked" /\ triggered' = trig /\ UNCHANGED events
                \/ events' = [events EXCEPT ![at] = @ \ trig] /\ UNCHANGED <<pc, triggered>>
             /\ UNCHANGED <<at, dangling, raced>>
      BY <1>4 DEF HandleIoWatchEvent, Consume
    <2>1. at \in Fds /\ Live(next) /\ ~dangling
      BY <1>inv, <2>step DEF WalkSafe, Walking
    <2>2. rest \subseteq Entry(at)
      BY <2>1 DEF Live
    <2>3. Entry(at) \subseteq Nat /\ Entry(at) \subseteq mapped /\ mapped \subseteq Watches
      BY <1>inv, <2>1, EntryFacts DEF TypeOK
    <2>4. Least(rest) = 0 \/ Least(rest) \in Entry(at)
      <3>1. rest \subseteq Nat
        BY <2>2, <2>3
      <3> HIDE DEF rest
      <3> QED
        BY <2>2, <3>1, LeastIn
    <2>5. trig \in SUBSET Events
      BY <1>inv, <2>1 DEF TypeOK
    <2>6. events' \in [Fds -> SUBSET Events] /\ triggered' \subseteq Events
      <3> HIDE DEF trig
      <3> QED
        BY <1>inv, <2>step, <2>1, <2>5 DEF TypeOK
    <2> HIDE DEF trig, rest
    <2>7. TypeOK'
      BY <1>inv, <1>kept, <2>step, <2>1, <2>3, <2>4, <2>6 DEF TypeOK, map, libdbus, Live
    <2>8. next' = 0 \/ Live(next)'
      BY <1>kept, <2>step, <2>4 DEF Live, Entry, map
    <2>9. Live(cur)'
      BY <1>kept, <2>step, <2>1 DEF Live, map
    <2>10. WalkSafe'
      BY <2>step, <2>1, <2>8, <2>9 DEF WalkSafe, Walking
    <2> QED
      BY <1>1, <2>7, <2>10 DEF IInv
  <1>5. CASE EndOfWatches
    <2>1. at \in Fds
      BY <1>inv, <1>5 DEF EndOfWatches, WalkSafe, Walking
    <2>2. TypeOK'
      BY <1>inv, <1>kept, <1>5, <2>1 DEF EndOfWatches, TypeOK, map, libdbus
    <2>3. WalkSafe'
      BY <1>5 DEF EndOfWatches, WalkSafe, Walking
    <2> QED
      BY <1>1, <2>2, <2>3 DEF IInv
  <1>6. CASE Relock
    <2>1. at \in Fds /\ pc = "relock"
      BY <1>inv, <1>6 DEF Relock, WalkSafe, Walking
    <2>2. TypeOK'
      BY <1>inv, <1>kept, <1>6, <2>1 DEF Relock, Consume, TypeOK, map, libdbus
    <2>3. WalkSafe'
      BY <1>inv, <1>kept, <1>6, <2>1 DEF Relock, WalkSafe, Walking, Live, map
    <2> QED
      BY <1>1, <2>2, <2>3 DEF IInv
  <1>7. CASE UseFreedWatch
    <2>1. TypeOK'
      BY <1>inv, <1>kept, <1>7 DEF UseFreedWatch, TypeOK, map, libdbus
    <2>2. WalkSafe'
      BY <1>inv, <1>7 DEF UseFreedWatch, WalkSafe, Walking, Live
    <2> QED
      BY <1>1, <2>1, <2>2 DEF IInv
  <1> QED
    BY <1>2, <1>3, <1>4, <1>5, <1>6, <1>7 DEF IoStep

\* dbus_watch_handle: the watches of the descriptor stay as they are or all go.
LEMMA WatchHandleInv ==
  ASSUME IInv, WatchHandle
  PROVE  IInv'
  <1>inv. TypeOK /\ WalkSafe
    BY DEF IInv
  <1>step. /\ pc = "unlocked" /\ toggling = 0 /\ cur \in mapped
           /\ pc' = "relock"
           /\ UNCHANGED <<toggling, events, at, cur, next, triggered, raced>>
    BY DEF WatchHandle, BusLockFree
  <1>at. at \in Fds
    BY <1>inv, <1>step DEF WalkSafe, Walking
  <1>1. CASE /\ ready' = [ready EXCEPT ![at] = @ \ (triggered \cap FlagsOf[cur])]
             /\ UNCHANGED <<map, enabled, dangling>>
    <2>1. OnlyMapped' /\ InterestCovers' /\ MaskExactUnlessBehind'
      BY <1>step, <1>1, MapKept DEF libdbus
    <2>2. TypeOK'
      BY <1>inv, <1>step, <1>at, <1>1 DEF TypeOK, map
    <2>3. WalkSafe'
      BY <1>inv, <1>step, <1>1 DEF WalkSafe, Walking, Live, map
    <2> QED
      BY <2>1, <2>2, <2>3 DEF IInv
  <1>2. CASE Erase(at, Entry(at)) /\ ready' = [ready EXCEPT ![at] = {}]
    <2>1. /\ mapped' \subseteq Watches /\ enabled' \subseteq Watches
          /\ mask' \in [Watches -> SUBSET Events]
          /\ interest' \in [Fds -> SUBSET Events]
          /\ behind' \subseteq mapped'
          /\ dangling' \in BOOLEAN
          /\ OnlyMapped' /\ InterestCovers' /\ MaskExactUnlessBehind'
      BY <1>step, <1>at, <1>2, EraseInv
    <2>2. TypeOK'
      BY <1>inv, <1>step, <1>at, <1>2, <2>1 DEF TypeOK
    <2>3. dangling' /\ Entry(at)' = {}
      BY <1>step, <1>2 DEF Erase, Entry
    <2>4. WalkSafe'
      BY <1>step, <1>at, <2>3 DEF WalkSafe, Walking
    <2> QED
      BY <2>1, <2>2, <2>4 DEF IInv
  <1> QED
    BY <1>1, <1>2 DEF WatchHandle

-----------------------------------------------------------------------------

LEMMA InitInv == Init => IInv
  <1> SUFFICES ASSUME Init
               PROVE  IInv
    OBVIOUS
  <1>1. TypeOK
    BY WatchesAssumption DEF Init, TypeOK
  <1>2. OnlyMapped /\ MaskExactUnlessBehind
    BY DEF Init, OnlyMapped, MaskExactUnlessBehind
  <1>3. InterestCovers
    BY DEF Init, InterestCovers, Entry
  <1>4. WalkSafe
    BY DEF Init, WalkSafe, Walking
  <1> QED
    BY <1>1, <1>2, <1>3, <1>4 DEF IInv

LEMMA NextInv == IInv /\ [Next]_vars => IInv'
  <1> SUFFICES ASSUME IInv, [Next]_vars
               PROVE  IInv'
    OBVIOUS
  <1>1. CASE \E w \in Watches : AddWatch(w) \/ RemoveWatch(w) \/ Toggle(w)
    BY <1>1, AddWatchInv, RemoveWatchInv, ToggleInv
  <1>2. CASE OnToggledWatch
    BY <1>2, OnToggledWatchInv
  <1>3. CASE \E fd \in Fds, e \in Events : BecomeReady(fd, e)
    BY <1>3, BecomeReadyInv
  <1>4. CASE IoStep \/ WatchHandle
    BY <1>4, IoStepInv, WatchHandleInv
  <1>5. CASE UNCHANGED vars
    <2>1. UNCHANGED <<map, libdbus, ready, walk>>
      BY <1>5 DEF vars
    <2>2. OnlyMapped' /\ InterestCovers' /\ MaskExactUnlessBehind'
      BY <2>1, MapKept
    <2>3. TypeOK'
      BY <2>1 DEF IInv, TypeOK, map, libdbus, walk
    <2>4. WalkSafe'
      BY <2>1 DEF IInv, WalkSafe, Walking, Live, Entry, map, walk
    <2> QED
      BY <2>2, <2>3, <2>4 DEF IInv
  <1> QED
    BY <1>1, <1>2, <1>3, <1>4, <1>5 DEF Next

LEMMA Invariant == Spec => []IInv
  BY InitInv, NextInv, PTL DEF Spec

\* Every variable of fd_map, of the epoll instance and of the I/O thread has its
\* type, for any set of watches and descriptors.
THEOREM TypeCorrect == Spec => []TypeOK
  <1>1. IInv => TypeOK
    BY DEF IInv
  <1> QED
    BY <1>1, Invariant, PTL

\* The epoll instance is in step with fd_map after every add, remove and toggle,
\* and asks for at least what each watch wants (connection.cpp:1493-1625).
THEOREM InterestCoversHolds == Spec => []InterestCovers
  <1>1. IInv => InterestCovers
    BY DEF IInv
  <1> QED
    BY <1>1, Invariant, PTL

\* Only a watch toggled while another was before it is sent what it does not
\* want.
THEOREM MaskExactHolds == Spec => []MaskExactUnlessBehind
  <1>1. IInv => MaskExactUnlessBehind
    BY DEF IInv
  <1> QED
    BY <1>1, Invariant, PTL

\* The walk over the watches of a descriptor is safe against whatever
\* dbus_watch_handle itself removes; only another thread can break it.
THEOREM UndefinedOnlyIfRacedHolds == Spec => []UndefinedOnlyIfRaced
  <1>1. IInv => UndefinedOnlyIfRaced
    BY DEF IInv, WalkSafe, UndefinedOnlyIfRaced
  <1> QED
    BY <1>1, Invariant, PTL
=============================================================================
