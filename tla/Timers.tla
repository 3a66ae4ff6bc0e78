------------------------------- MODULE Timers -------------------------------
(***************************************************************************)
(* The timeouts of an ultrabus::connection: the list "timers", sorted by   *)
(* expiry, the timerfd that is set for its first entry, and the I/O thread *)
(* that handles one entry for each event of the timerfd.  libdbus adds and *)
(* removes timeouts in whatever thread calls it, the I/O thread included.  *)
(*                                                                         *)
(* timer_mutex is held for the whole of every function that touches the    *)
(* list, so each is one action; what is not under it is the wait for an    *)
(* event before, and dbus_timeout_handle after.                            *)
(*                                                                         *)
(* Time is a number of milliseconds; that this is what the arithmetic on   *)
(* struct timespec comes to (TimeSpec), and that its nanoseconds are in    *)
(* range, so that timerfd_settime has no reason to fail, is proved.        *)
(***************************************************************************)
EXTENDS Naturals, Sequences, SequencesExt, FiniteSets

CONSTANTS Timeouts,       \* the DBusTimeout objects
          Intervals,      \* the intervals they may have
          NoTime,         \* the timerfd is disarmed
          NoTimeout,
          MaxTime,        \* bound: the clock stops here
          MaxDelay,       \* bound: time from clock_gettime to timer_mutex
          MaxAdds         \* bound: timeouts added or enabled

ASSUME TimersAssumption ==
  /\ Intervals \subseteq Nat
  /\ MaxTime \in Nat /\ MaxDelay \in Nat /\ MaxAdds \in Nat
  /\ NoTime \notin Nat
  /\ NoTimeout \notin Timeouts

VARIABLES now,
          enabled,        \* libdbus: timeouts it has added and not disabled
          timers,         \* the list: [handle, abs_time, repeat]
          timerfd,        \* when it will expire, or NoTime
          readable,       \* it has expired and was not read or set since
          io_pc,          \* where the I/O thread is
          handle,         \* the timeout that it is about to handle
          changed,        \* history: add or remove since epoll_wait returned
          adds            \* how often AddTimeout was called, for its bound

list == <<enabled, timers>>
vars == <<now, list, timerfd, readable, io_pc, handle, changed, adds>>

Entries == [handle : Timeouts, abs_time : Nat, repeat : Nat \ {0}]

TypeOK ==
  /\ now \in 0..MaxTime
  /\ enabled \subseteq Timeouts
  /\ timers \in Seq(Entries)
  /\ timerfd \in Nat \cup {NoTime}
  /\ readable \in BOOLEAN
  /\ io_pc \in {"poll", "event", "handle"}
  /\ handle \in Timeouts \cup {NoTimeout}
  /\ changed \in BOOLEAN
  /\ adds \in 0..MaxAdds

Init ==
  /\ now = 0
  /\ enabled = {}
  /\ timers = <<>>
  /\ timerfd = NoTime
  /\ readable = FALSE
  /\ io_pc = "poll"
  /\ handle = NoTimeout
  /\ changed = FALSE
  /\ adds = 0

Listed == {timers[i].handle : i \in DOMAIN timers}

\* timerfd_settime: whatever has expired is forgotten.
SetTime(t) == timerfd' = t /\ readable' = FALSE

\* k is where the entries before are at most e and the rest are greater.
After(s, k, e) ==
  /\ k \in 1..Len(s) + 1
  /\ \A i \in 1..k - 1 : s[i].abs_time <= e.abs_time
  /\ k <= Len(s) => e.abs_time < s[k].abs_time

\* k is where the entries before are less than e and the rest are at least e:
\* where a stable sort puts an entry that was first.
Before(s, k, e) ==
  /\ k \in 1..Len(s) + 1
  /\ \A i \in 1..k - 1 : s[i].abs_time < e.abs_time
  /\ k <= Len(s) => e.abs_time <= s[k].abs_time

-----------------------------------------------------------------------------
(* libdbus adds and removes timeouts. *)

\* Mutant of NewEntry: an interval of zero is kept.
NewEntry_zero(h, interval, clock) ==
  [handle |-> h, abs_time |-> clock + interval, repeat |-> interval]

\* An interval of zero is made one.  The clock is read before the mutex is taken.
NewEntry(h, interval, clock) ==
  LET repeat == IF interval = 0 THEN 1 ELSE interval
  IN  [handle |-> h, abs_time |-> clock + repeat, repeat |-> repeat]

\* Put e where it belongs, and set the timerfd if that is at the front.
Enlist(e) ==
  \E k \in 1..Len(timers) + 1 :
    /\ After(timers, k, e)
    /\ timers' = InsertAt(timers, k, e)
    /\ IF k = 1 THEN SetTime(e.abs_time) ELSE UNCHANGED <<timerfd, readable>>

\* Adding a timeout that is enabled, or enabling one that was added: libdbus
\* calls for a toggle only if it changes something.  A timeout that is added
\* disabled is not listed.
AddTimeout(h) ==
  /\ h \notin enabled
  /\ adds < MaxAdds
  /\ adds' = adds + 1
  /\ enabled' = enabled \cup {h}
  /\ \E interval \in Intervals, delay \in 0..MaxDelay :
        delay <= now /\ Enlist(NewEntry(h, interval, now - delay))
  /\ changed' = TRUE
  /\ UNCHANGED <<now, io_pc, handle>>

\* Mutant of RemoveTimeout: the timerfd stays set for an entry that is gone.
RemoveTimeout_no_update(h) ==
  /\ h \in enabled
  /\ enabled' = enabled \ {h}
  /\ \E k \in DOMAIN timers :
       /\ timers[k].handle = h
       /\ timers' = RemoveAt(timers, k)
       /\ IF timers' = <<>> THEN SetTime(NoTime) ELSE UNCHANGED <<timerfd, readable>>
  /\ changed' = TRUE
  /\ UNCHANGED <<now, io_pc, handle, adds>>

\* Mutant of RemoveTimeout: the first entry goes, whose ever it is.
RemoveTimeout_front(h) ==
  /\ h \in enabled
  /\ enabled' = enabled \ {h}
  /\ timers # <<>>
  /\ timers' = Tail(timers)
  /\ SetTime(IF timers' = <<>> THEN NoTime ELSE timers'[1].abs_time)
  /\ changed' = TRUE
  /\ UNCHANGED <<now, io_pc, handle, adds>>

\* Removing or disabling a timeout.
RemoveTimeout(h) ==
  /\ h \in enabled
  /\ enabled' = enabled \ {h}
  /\ \E k \in DOMAIN timers :
       /\ timers[k].handle = h
       /\ \A i \in 1..k - 1 : timers[i].handle # h
       /\ timers' = RemoveAt(timers, k)
       /\ IF timers' = <<>> THEN SetTime(NoTime)
          ELSE IF k = 1 THEN SetTime(timers[2].abs_time)
          ELSE UNCHANGED <<timerfd, readable>>
  /\ changed' = TRUE
  /\ UNCHANGED <<now, io_pc, handle, adds>>

-----------------------------------------------------------------------------
(* The clock, the timerfd and the I/O thread. *)

Tick ==
  /\ now < MaxTime
  /\ now' = now + 1
  /\ UNCHANGED <<list, timerfd, readable, io_pc, handle, changed, adds>>

Expire ==
  /\ timerfd # NoTime
  /\ timerfd <= now
  /\ timerfd' = NoTime
  /\ readable' = TRUE
  /\ UNCHANGED <<now, list, io_pc, handle, changed, adds>>

\* epoll_wait returns an event of the timerfd.
PollEvent ==
  /\ io_pc = "poll"
  /\ readable
  /\ io_pc' = "event"
  /\ changed' = FALSE
  /\ UNCHANGED <<now, list, timerfd, readable, handle, adds>>

\* Mutant of OnTimerfdEvent: the list is not sorted again.
OnTimerfdEvent_unsorted ==
  /\ io_pc = "event"
  /\ IF timers = <<>>
     THEN /\ io_pc' = "poll"
          /\ readable' = FALSE
          /\ UNCHANGED <<timers, timerfd, handle>>
     ELSE /\ timers' = [timers EXCEPT ![1].abs_time = @ + timers[1].repeat]
          /\ SetTime(timers'[1].abs_time)
          /\ handle' = timers[1].handle
          /\ io_pc' = "handle"
  /\ UNCHANGED <<now, enabled, changed, adds>>

\* Mutant of OnTimerfdEvent: the timerfd is not set again.
OnTimerfdEvent_disarmed ==
  /\ io_pc = "event"
  /\ readable' = FALSE
  /\ IF timers = <<>>
     THEN /\ io_pc' = "poll"
          /\ UNCHANGED <<timers, handle>>
     ELSE /\ \E k \in 1..Len(timers) :
               LET e == [timers[1] EXCEPT !.abs_time = @ + timers[1].repeat]
               IN  /\ Before(Tail(timers), k, e)
                   /\ timers' = InsertAt(Tail(timers), k, e)
          /\ handle' = timers[1].handle
          /\ io_pc' = "handle"
  /\ UNCHANGED <<now, enabled, timerfd, changed, adds>>

\* Read the timerfd; put the first entry off by its interval, sort, and set the
\* timerfd for the entry that is first now.  Nobody looks at the clock: the first
\* entry need not be the one that the timerfd expired for.
OnTimerfdEvent ==
  /\ io_pc = "event"
  /\ IF timers = <<>>
     THEN /\ io_pc' = "poll"
          /\ readable' = FALSE
          /\ UNCHANGED <<timers, timerfd, handle>>
     ELSE /\ \E k \in 1..Len(timers) :
               LET e == [timers[1] EXCEPT !.abs_time = @ + timers[1].repeat]
               IN  /\ Before(Tail(timers), k, e)
                   /\ timers' = InsertAt(Tail(timers), k, e)
          /\ SetTime(timers'[1].abs_time)
          /\ handle' = timers[1].handle
          /\ io_pc' = "handle"
  /\ UNCHANGED <<now, enabled, changed, adds>>

\* dbus_timeout_handle returns; no mutex is held.  What it adds and removes are
\* actions of their own.
Handled ==
  /\ io_pc = "handle"
  /\ io_pc' = "poll"
  /\ handle' = NoTimeout
  /\ UNCHANGED <<now, list, timerfd, readable, changed, adds>>

-----------------------------------------------------------------------------
IoThread == PollEvent \/ OnTimerfdEvent \/ Handled

Next ==
  \/ \E h \in Timeouts : AddTimeout(h) \/ RemoveTimeout(h)
  \/ Tick \/ Expire \/ IoThread

\* The kernel's timers expire and the I/O thread is scheduled.
Fairness == WF_vars(Expire) /\ WF_vars(IoThread)

Spec == Init /\ [][Next]_vars /\ Fairness

-----------------------------------------------------------------------------
(* Properties. *)

\* The list is sorted whenever timer_mutex is free, although entries are put off
\* one at a time and the position of a new one is found by a linear search.
Sorted ==
  \A i, j \in DOMAIN timers : i < j => timers[i].abs_time <= timers[j].abs_time

\* There is exactly one entry for each timeout that libdbus has enabled, however
\* often it was added, fired, removed and toggled.
ListedOnce == Listed = enabled /\ Len(timers) = Cardinality(enabled)

\* The list is the enabled timeouts, each once and in order: three functions
\* insert, erase and put off entries, and each leaves it so.
ListsEnabled == Sorted /\ ListedOnce

\* The timerfd is set for the first entry, or has expired for it; it is quiet
\* when there is none.
SetForFirst ==
  IF timers = <<>>
  THEN timerfd = NoTime /\ ~readable
  ELSE \/ timerfd = timers[1].abs_time /\ ~readable
       \/ timerfd = NoTime /\ readable /\ timers[1].abs_time <= now

\* A timeout is handled before its time only if the list was changed between
\* epoll_wait and timer_mutex, so that another entry is first.
EarlyOnlyIfChanged ==
  [][ io_pc = "event" /\ timers # <<>> /\ timers[1].abs_time > now /\ io_pc' = "handle"
        => changed ]_vars

Due(h) == \E i \in DOMAIN timers : timers[i].handle = h /\ timers[i].abs_time <= now

\* A timeout that is due is handled, unless it is removed first: no removal,
\* addition or other timeout makes the timerfd forget it.
DueIsHandled ==
  \A h \in Timeouts :
    Due(h) ~> (io_pc = "handle" /\ handle = h) \/ h \notin enabled

-----------------------------------------------------------------------------
(* What libdbus is promised: AlarmClock, under this mapping. *)

TimeOf(e) == [at |-> e.abs_time, repeat |-> e.repeat]

\* When each enabled timeout is due, and how far it is put off then.
DueBy(s, H) == [h \in H |-> TimeOf(s[CHOOSE i \in DOMAIN s : s[i].handle = h])]

Clock == INSTANCE AlarmClock
           WITH due <- DueBy(timers, enabled), thread <- io_pc,
                Repeats <- (Intervals \cup {1}) \ {0}

\* A list that is put in order entry by entry, and one timerfd for the first of
\* it, handle what a search of all enabled timeouts would, whatever is added and
\* removed between the wake-up and the handling; and handle it before its time
\* only if something was (on_timerfd_event).
IsAlarmClock == Clock!Spec

=============================================================================
