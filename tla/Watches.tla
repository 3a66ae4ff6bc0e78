------------------------------- MODULE Watches -------------------------------
(***************************************************************************)
(* The descriptors of an ultrabus::connection: fd_map, which holds for     *)
(* each descriptor its DBusWatch objects in the order of their addresses   *)
(* and the events each of them is to get, the epoll instance that is kept  *)
(* in step with it, and the I/O thread that hands the events to libdbus.   *)
(*                                                                         *)
(* Two locks are involved.  watcher_mutex protects fd_map; the I/O thread  *)
(* holds it from the end of epoll_wait to the start of the next, but not   *)
(* during dbus_watch_handle.  libdbus calls the add, remove and toggle     *)
(* functions with the lock of the DBusConnection held, and takes that lock *)
(* in dbus_watch_handle.  Each function of fd_map is one action; the       *)
(* toggle has two, because libdbus sets the flag before it calls.          *)
(***************************************************************************)
EXTENDS Naturals, FiniteSets

CONSTANTS Watches,        \* the DBusWatch objects: their addresses
          Fds,
          FdOf,           \* the descriptor of a watch
          FlagsOf,        \* what it wants to know: "in", "out"
          NoFd

ASSUME WatchesAssumption ==
  /\ Watches \subseteq Nat \ {0}
  /\ NoFd \notin Fds
  /\ FdOf \in [Watches -> Fds]
  /\ FlagsOf \in [Watches -> SUBSET {"in", "out"}]

VARIABLES mapped,         \* the watches in fd_map
          mask,           \* their event masks
          interest,       \* the event masks in the epoll instance
          enabled,        \* libdbus: the watches that are enabled
          toggling,       \* libdbus: the watch whose toggle is under way, or 0
          ready,          \* the kernel: what each descriptor is ready for
          pc,             \* where the I/O thread is
          events,         \* epoll_result: events left, by descriptor
          at,             \* the descriptor whose watches it walks
          cur, next,      \* dbus_watch_obj and w_iter, 0 for the end
          triggered,      \* triggered_events
          dangling,       \* the node of w_iter, or its map, was erased
          raced,          \* history: another thread erased a watch of "at"
          behind          \* history: the watches last toggled behind another

libdbus == <<enabled, toggling>>
walk == <<pc, events, at, cur, next, triggered, dangling, raced>>
map == <<mapped, mask, interest, behind>>
vars == <<map, libdbus, ready, walk>>

Events == {"in", "out", "err"}
Error == {"err"}        \* EPOLLERR and EPOLLHUP, which need no interest

TypeOK ==
  /\ mapped \subseteq Watches /\ enabled \subseteq Watches
  /\ mask \in [Watches -> SUBSET Events]
  /\ interest \in [Fds -> SUBSET Events]
  /\ toggling \in Watches \cup {0}
  /\ ready \in [Fds -> SUBSET Events]
  /\ pc \in {"wait", "result", "walk", "unlocked", "relock", "undefined"}
  /\ events \in [Fds -> SUBSET Events]
  /\ at \in Fds \cup {NoFd}
  /\ cur \in Watches \cup {0} /\ next \in Watches \cup {0}
  /\ triggered \subseteq Events
  /\ dangling \in BOOLEAN /\ raced \in BOOLEAN
  /\ behind \subseteq mapped

Init ==
  /\ mapped = {} /\ enabled = {} /\ toggling = 0
  /\ mask = [w \in Watches |-> {}]
  /\ interest = [fd \in Fds |-> {}]
  /\ ready = [fd \in Fds |-> {}]
  /\ events = [fd \in Fds |-> {}]
  /\ pc = "wait" /\ at = NoFd /\ cur = 0 /\ next = 0 /\ triggered = {}
  /\ dangling = FALSE /\ raced = FALSE
  /\ behind = {}

Entry(fd) == {w \in mapped : FdOf[w] = fd}
Least(S) == IF S = {} THEN 0 ELSE CHOOSE w \in S : \A v \in S : w <= v
Wanted(w) == IF w \in enabled THEN FlagsOf[w] ELSE {}

\* epoll_ctl with the events of all the watches of a descriptor.
Update(fd) ==
  interest' = [interest EXCEPT ![fd] = UNION {mask'[w] : w \in {v \in mapped' : FdOf[v] = fd}}]

MutexFree == pc # "walk"
BusLockFree == toggling = 0

-----------------------------------------------------------------------------
(* Threads in libdbus. *)

\* libdbus adds a watch, enabled or not.  A descriptor that lost watches while
\* the I/O thread was at it gets new ones only with a new I/O thread.  If
\* epoll_ctl fails the watch is taken out again and nothing has changed.
AddWatch(w) ==
  /\ MutexFree /\ BusLockFree /\ w \notin mapped
  /\ FdOf[w] = at => ~raced /\ ~dangling
  /\ \E e \in {enabled, enabled \cup {w}} : enabled' = e
  /\ mapped' = mapped \cup {w}
  /\ mask' = [mask EXCEPT ![w] = IF w \in enabled' THEN FlagsOf[w] ELSE {}]
  /\ Update(FdOf[w])
  /\ UNCHANGED <<toggling, ready, walk, behind>>

\* Mutant of Erase: the epoll instance is not told of what remains.
Erase_no_mod(fd, ws) ==
  /\ mapped' = mapped \ ws /\ enabled' = enabled \ ws /\ behind' = behind \ ws
  /\ mask' = [w \in Watches |-> IF w \in ws THEN {} ELSE mask[w]]
  /\ UNCHANGED interest
  /\ dangling' = (dangling \/ (fd = at /\ (next \in ws \/ Entry(fd) \subseteq ws)))

\* The watches ws of the descriptor fd are erased, and fd with the last one.
Erase(fd, ws) ==
  /\ mapped' = mapped \ ws /\ enabled' = enabled \ ws /\ behind' = behind \ ws
  /\ mask' = [w \in Watches |-> IF w \in ws THEN {} ELSE mask[w]]
  /\ Update(fd)
  /\ dangling' = (dangling \/ (fd = at /\ (next \in ws \/ Entry(fd) \subseteq ws)))

\* Another thread than the I/O thread removes a watch.
RemoveWatch(w) ==
  /\ MutexFree /\ BusLockFree /\ w \in mapped
  /\ Erase(FdOf[w], {w})
  /\ raced' = (raced \/ FdOf[w] = at)
  /\ UNCHANGED <<toggling, ready, pc, events, at, cur, next, triggered>>

\* libdbus enables or disables a watch and is about to call on_toggled_watch.
Toggle(w) ==
  /\ BusLockFree /\ w \in mapped
  /\ toggling' = w
  /\ enabled' = IF w \in enabled THEN enabled \ {w} ELSE enabled \cup {w}
  /\ UNCHANGED <<map, ready, walk>>

Before(w) == {v \in Entry(FdOf[w]) : v < w}

\* Mutant of OnToggledWatch: what the watch wants is added, never taken away.
OnToggledWatch_only_adds ==
  /\ MutexFree /\ toggling # 0
  /\ toggling' = 0 /\ UNCHANGED <<mapped, enabled, ready, walk>>
  /\ mask' = [mask EXCEPT ![toggling] = @ \cup Wanted(toggling)]
  /\ Update(FdOf[toggling])
  /\ behind' = IF Before(toggling) = {} THEN behind \ {toggling} ELSE behind \cup {toggling}

\* The loop collects the events of the watches it comes by, and stores all it
\* has so far when it comes to the toggled one: its own, and those before it.
OnToggledWatch ==
  /\ MutexFree /\ toggling # 0
  /\ toggling' = 0 /\ UNCHANGED <<mapped, enabled, ready, walk>>
  /\ mask' = [mask EXCEPT ![toggling] = Wanted(toggling) \cup UNION {mask[v] : v \in Before(toggling)}]
  /\ Update(FdOf[toggling])
  /\ behind' = IF Before(toggling) = {} THEN behind \ {toggling} ELSE behind \cup {toggling}

-----------------------------------------------------------------------------
(* The kernel and the I/O thread. *)

BecomeReady(fd, e) ==
  /\ e \notin ready[fd] /\ Entry(fd) # {}
  /\ ready' = [ready EXCEPT ![fd] = @ \cup {e}]
  /\ UNCHANGED <<map, libdbus, walk>>

Reported(fd) == IF Entry(fd) = {} THEN {} ELSE ready[fd] \cap (interest[fd] \cup Error)

\* epoll_wait returns with events; watcher_mutex is not taken yet.
EpollWait ==
  /\ pc = "wait"
  /\ events' = [fd \in Fds |-> Reported(fd)]
  /\ \E fd \in Fds : events'[fd] # {}
  /\ pc' = "result"
  /\ UNCHANGED <<map, libdbus, ready, at, cur, next, triggered, dangling, raced>>

\* The loop comes to the next descriptor with events; one that is no longer in
\* fd_map is passed over.  After the last one the thread goes back to wait.
NextFd ==
  /\ pc = "result" /\ UNCHANGED <<map, libdbus, ready>>
  /\ \/ /\ \E fd \in {f \in Fds : events[f] # {}} :
             /\ at' = fd /\ next' = Least(Entry(fd))
             /\ IF Entry(fd) = {}
                THEN /\ events' = [events EXCEPT ![fd] = {}]
                     /\ UNCHANGED pc
                ELSE pc' = "walk" /\ UNCHANGED events
        /\ cur' = 0 /\ triggered' = {} /\ dangling' = FALSE /\ raced' = FALSE
     \/ /\ \A fd \in Fds : events[fd] = {}
        /\ pc' = "wait" /\ at' = NoFd /\ cur' = 0 /\ next' = 0 /\ triggered' = {}
        /\ dangling' = FALSE /\ raced' = FALSE
        /\ UNCHANGED events

\* Mutant of Consume: the first watch takes all the events.
Consume_all(trig) == events' = [events EXCEPT ![at] = {}]

Consume(trig) == events' = [events EXCEPT ![at] = @ \ trig]

\* Mutant of HandleIoWatchEvent: the iterator goes on past the end.
HandleIoWatchEvent_past_end ==
  LET trig == events[at] \cap (mask[next] \cup Error)
  IN  /\ pc = "walk" /\ next # 0
      /\ cur' = next
      /\ next' = next + 1
      /\ IF trig # {} /\ next \in enabled
         THEN pc' = "unlocked" /\ triggered' = trig /\ UNCHANGED events
         ELSE Consume(trig) /\ UNCHANGED <<pc, triggered>>
      /\ UNCHANGED <<map, libdbus, ready, at, dangling, raced>>

\* handle_io_watch_event for the next watch, up to dbus_watch_handle.  A watch
\* that is not enabled takes its events, error and hangup too, from the rest.
HandleIoWatchEvent ==
  LET trig == events[at] \cap (mask[next] \cup Error)
  IN  /\ pc = "walk" /\ next # 0
      /\ cur' = next
      /\ next' = Least({v \in Entry(FdOf[next]) : v > next})
      /\ IF trig # {} /\ next \in enabled
         THEN pc' = "unlocked" /\ triggered' = trig /\ UNCHANGED events
         ELSE Consume(trig) /\ UNCHANGED <<pc, triggered>>
      /\ UNCHANGED <<map, libdbus, ready, at, dangling, raced>>

\* The iterator is at the end.
EndOfWatches ==
  /\ pc = "walk" /\ next = 0
  /\ pc' = "result" /\ events' = [events EXCEPT ![at] = {}]
  /\ UNCHANGED <<map, libdbus, ready, at, cur, next, triggered, dangling, raced>>

\* dbus_watch_handle, without watcher_mutex.  libdbus reads or writes, or finds
\* the connection closed and removes the watches of its descriptor.
WatchHandle ==
  /\ pc = "unlocked" /\ BusLockFree /\ cur \in mapped
  /\ pc' = "relock"
  /\ \/ /\ ready' = [ready EXCEPT ![at] = @ \ (triggered \cap FlagsOf[cur])]
        /\ triggered \cap Error = {}
        /\ UNCHANGED <<map, enabled, dangling>>
     \/ /\ Erase(at, Entry(at))
        /\ ready' = [ready EXCEPT ![at] = {}]
  /\ UNCHANGED <<toggling, events, at, cur, next, triggered, raced>>

\* Mutant of Relock: the loop goes on without looking whether fd is mapped.
Relock_unchecked ==
  /\ pc = "relock"
  /\ IF dangling
     THEN pc' = "undefined" /\ UNCHANGED events
     ELSE pc' = "walk" /\ Consume(triggered)
  /\ UNCHANGED <<map, libdbus, ready, at, cur, next, triggered, dangling, raced>>

\* watcher_mutex is taken again; the loop ends if the descriptor is gone, and
\* goes on with w_iter otherwise.
Relock ==
  /\ pc = "relock"
  /\ IF Entry(at) = {}
     THEN pc' = "result" /\ events' = [events EXCEPT ![at] = {}]
     ELSE IF dangling THEN pc' = "undefined" /\ UNCHANGED events
     ELSE pc' = "walk" /\ Consume(triggered)
  /\ UNCHANGED <<map, libdbus, ready, at, cur, next, triggered, dangling, raced>>

\* The watch was freed before dbus_watch_handle was called with it.
UseFreedWatch ==
  /\ pc = "unlocked" /\ cur \notin mapped
  /\ pc' = "undefined"
  /\ UNCHANGED <<map, libdbus, ready, events, at, cur, next, triggered, dangling, raced>>

IoStep == EpollWait \/ NextFd \/ HandleIoWatchEvent \/ EndOfWatches \/ Relock \/ UseFreedWatch

Next ==
  \/ \E w \in Watches : AddWatch(w) \/ RemoveWatch(w) \/ Toggle(w)
  \/ OnToggledWatch
  \/ \E fd \in Fds, e \in Events : BecomeReady(fd, e)
  \/ IoStep \/ WatchHandle

\* The I/O thread goes on; the locks of libdbus and of fd_map are given to each
\* thread that waits for them, in some order.
Spec ==
  /\ Init /\ [][Next]_vars
  /\ WF_vars(IoStep) /\ SF_vars(WatchHandle) /\ SF_vars(OnToggledWatch)

-----------------------------------------------------------------------------

\* The epoll instance asks for what the watches of each descriptor ask for, and
\* that is at least what each of them wants, whoever was added, removed or
\* toggled last (except while a toggle is being reported).
InterestCovers ==
  /\ \A fd \in Fds : interest[fd] = UNION {mask[w] : w \in Entry(fd)}
  /\ \A w \in mapped \ {toggling} : Wanted(w) \subseteq mask[w]

\* A watch gets events it does not want only if it was toggled while another
\* watch of its descriptor was before it in the map (connection.cpp:1601).
MaskExactUnlessBehind ==
  \A w \in mapped \ (behind \cup {toggling}) : mask[w] = Wanted(w)

\* The walk over the watches of a descriptor uses an erased iterator or a freed
\* watch only if another thread removed a watch while watcher_mutex was given
\* up: what dbus_watch_handle does to the map itself is provided for.
UndefinedOnlyIfRaced == pc = "undefined" => raced

\* What an enabled watch waits for is handled when its descriptor is ready for
\* it, however the other watches of the descriptor are toggled.  An error or a
\* hangup is handled if the first watch of the descriptor is enabled: a first
\* watch that is disabled marks it as handled (connection.cpp:1361-1366).
EventsServed ==
  \A w \in Watches, e \in Events :
    LET fd == FdOf[w]
        awaited == /\ w \in mapped /\ w \in enabled /\ e \in ready[fd]
                   /\ e \in FlagsOf[w] \/ (e = "err" /\ w = Least(Entry(fd)))
    IN  awaited ~> (~awaited \/ pc = "undefined")
=============================================================================
