----------------------------- MODULE Connection -----------------------------
(***************************************************************************)
(* The lifecycle of an ultrabus::connection: connect(), is_connected() and *)
(* disconnect() as any number of threads call them, the teardown they      *)
(* share (disconnect_impl), and the two threads a connection runs: the I/O *)
(* thread, which reads the socket for libdbus, and the dispatch thread,    *)
(* which hands queued messages to the program's callbacks.  A callback     *)
(* runs on the dispatch thread and may call the connection itself, so the  *)
(* dispatch thread is also a caller.                                       *)
(*                                                                         *)
(* conn_state_mutex is held from connect() to the end of connect(), but    *)
(* only for the first lines of a teardown; the rest of a teardown is one   *)
(* action per program point at which another thread can interfere.         *)
(*                                                                         *)
(* libdbus is external.  Of it the model keeps whether the connection is   *)
(* open, how many received messages it has queued, whether the functions   *)
(* that start_io_handler installs are in place, and when it calls them.    *)
(***************************************************************************)
EXTENDS Naturals

CONSTANTS Threads,          \* the program's threads that use the connection
          Dispatcher,       \* dispatch_thread, as a caller
          NoThread,         \* no caller: the mutex is free
          MaxIncoming,      \* bound: messages libdbus has queued at a time
          Reentrant         \* do callbacks call the connection's functions?

ASSUME DispatcherAssumption  == Dispatcher \notin Threads
ASSUME NoThreadAssumption    == NoThread \notin Threads \cup {Dispatcher}
ASSUME MaxIncomingAssumption == MaxIncoming \in Nat \ {0}
ASSUME ReentrantAssumption   == Reentrant \in BOOLEAN

Callers == Threads \cup {Dispatcher}

VARIABLES conn_state,            \* connection::conn_state
          conn_state_mutex,      \* the caller that holds it, or NoThread
          ctx,                   \* is connection::ctx set?
          private_connection,    \* connection::private_connection
          pc,                    \* where each caller is, "idle" outside
          stop_io_thread,
          stop_dispatch_thread,
          io_pc,                 \* where io_thread is
          dpc,                   \* where dispatch_thread is
          is_open,               \* libdbus: the connection has its transport
          hooks,                 \* libdbus: the functions of start_io_handler
          incoming               \* libdbus: number of queued messages

own    == <<conn_state, conn_state_mutex, ctx, private_connection>>
stop   == <<stop_io_thread, stop_dispatch_thread>>
libdbus == <<is_open, hooks, incoming>>
vars   == <<own, pc, stop, io_pc, dpc, libdbus>>

ConnStates    == {"disconnected", "connecting", "connected", "disconnecting"}
ConnectSteps  == {"open", "start", "start_dispatch"}
TeardownSteps == {"cancel", "flush", "unhook", "unref", "clear", "stop_io",
                  "join_io", "stop_dispatch", "join_dispatch", "release"}
IoSteps       == {"none", "test", "poll", "handle", "exited"}
DispatchSteps == {"none", "loop", "predicate", "park", "late", "asleep",
                  "overslept", "drain", "dispatch", "handler", "exited"}

\* connect () holds conn_state_mutex, and a teardown does not.
TypeOK ==
  /\ conn_state \in ConnStates
  /\ conn_state_mutex \in Callers \cup {NoThread}
  /\ ctx \in BOOLEAN
  /\ private_connection \in BOOLEAN
  /\ pc \in [Callers -> {"idle", "threw"} \cup ConnectSteps \cup TeardownSteps]
  /\ stop_io_thread \in BOOLEAN
  /\ stop_dispatch_thread \in BOOLEAN
  /\ io_pc \in IoSteps
  /\ dpc \in DispatchSteps
  /\ is_open \in BOOLEAN
  /\ hooks \in BOOLEAN
  /\ incoming \in 0..(MaxIncoming + 1)
  /\ \A t \in Callers : conn_state_mutex = t <=> pc[t] \in ConnectSteps

\* The constructor: nothing is open and both stop flags are set.
Init ==
  /\ conn_state = "disconnected"
  /\ conn_state_mutex = NoThread
  /\ ctx = FALSE
  /\ private_connection = FALSE
  /\ pc = [t \in Callers |-> "idle"]
  /\ stop_io_thread = TRUE
  /\ stop_dispatch_thread = TRUE
  /\ io_pc = "none"
  /\ dpc = "none"
  /\ is_open = FALSE
  /\ hooks = FALSE
  /\ incoming = 0

Goto(t, label) == pc' = [pc EXCEPT ![t] = label]

\* A caller outside the connection: a thread of the program at any time, the
\* dispatch thread only from inside a callback.
CanCall(t) ==
  /\ pc[t] = "idle"
  /\ t = Dispatcher => Reentrant /\ dpc = "handler"

\* dispatch_cond.notify_one (): it wakes the dispatch thread if that thread
\* sleeps.  No caller holds dispatch_cond_mutex, so it may come between the
\* predicate and the sleep, and is lost: the thread is late, and oversleeps.
NotifyDispatcher ==
  dpc' = CASE dpc \in {"asleep", "overslept"} -> "predicate"
           [] dpc = "park" -> "late"
           [] OTHER -> dpc

\* libdbus calls the wakeup_main or dispatch_status function if it is installed.
WakeMain == IF hooks THEN NotifyDispatcher ELSE UNCHANGED dpc

-----------------------------------------------------------------------------
(* connect ().  A call that finds the connection in any other state returns *)
(* at once and changes nothing.                                             *)

Connect(t) ==
  /\ CanCall(t)
  /\ conn_state_mutex = NoThread
  /\ conn_state = "disconnected"
  /\ conn_state' = "connecting"
  /\ conn_state_mutex' = t
  /\ Goto(t, "open")
  /\ UNCHANGED <<ctx, private_connection, stop, io_pc, dpc, libdbus>>

\* epoll_create1 fails: connect returns false without a teardown.
NoPollFd(t) ==
  /\ pc[t] = "open"
  /\ conn_state' = "disconnected"
  /\ conn_state_mutex' = NoThread
  /\ Goto(t, "idle")
  /\ UNCHANGED <<ctx, private_connection, stop, io_pc, dpc, libdbus>>

\* Mutant of BeginTeardown: the teardown of a failed connect keeps the mutex.
BeginTeardown_locked(t) ==
  /\ conn_state' = "disconnecting"
  /\ conn_state_mutex' = IF conn_state = "connecting" THEN conn_state_mutex ELSE NoThread
  /\ Goto(t, "cancel")

\* The start of disconnect_impl: mark the state and release the mutex.
BeginTeardown(t) ==
  /\ conn_state' = "disconnecting"
  /\ conn_state_mutex' = NoThread
  /\ Goto(t, "cancel")

\* timerfd_create, epoll_ctl or dbus_bus_get fails: there is no ctx to undo.
NoBus(t) ==
  /\ pc[t] = "open"
  /\ BeginTeardown(t)
  /\ private_connection' \in BOOLEAN
  /\ UNCHANGED <<ctx, stop, io_pc, dpc, libdbus>>

\* dbus_bus_get or dbus_bus_get_private succeeds.  Messages may be queued
\* already: those that followed the Hello reply, and on a shared connection
\* those its earlier users left.
OpenBus(t) ==
  /\ pc[t] = "open"
  /\ private_connection' \in BOOLEAN
  /\ ctx' = TRUE
  /\ is_open' = TRUE
  /\ incoming' \in 0..MaxIncoming
  /\ \/ /\ Goto(t, "start")
        /\ UNCHANGED <<conn_state, conn_state_mutex>>
     \/ BeginTeardown(t)        \* install_filter_handler fails
  /\ UNCHANGED <<stop, io_pc, dpc, hooks>>

\* start_io_handler up to the last dbus_connection_set_..._functions.
StartIo(t) ==
  /\ pc[t] = "start"
  /\ stop_io_thread' = FALSE
  /\ io_pc' = "test"
  /\ hooks' = TRUE
  /\ Goto(t, "start_dispatch")
  /\ UNCHANGED <<own, stop_dispatch_thread, dpc, is_open, incoming>>

\* The rest of start_io_handler, and the end of connect.
StartDispatch(t) ==
  /\ pc[t] = "start_dispatch"
  /\ stop_dispatch_thread' = FALSE
  /\ dpc' = "loop"
  /\ conn_state' = "connected"
  /\ conn_state_mutex' = NoThread
  /\ Goto(t, "idle")
  /\ UNCHANGED <<ctx, private_connection, stop_io_thread, io_pc, libdbus>>

-----------------------------------------------------------------------------
(* is_connected () and disconnect ().  Both return without a change when the *)
(* state is not connected.                                                   *)

\* Mutant of IsConnected: it looks at the bus and not at conn_state.
IsConnected_any_state(t) ==
  /\ CanCall(t)
  /\ conn_state_mutex = NoThread
  /\ ~is_open
  /\ BeginTeardown(t)
  /\ UNCHANGED <<ctx, private_connection, stop, io_pc, dpc, libdbus>>

\* is_connected finds that the bus is gone and tears the connection down.
IsConnected(t) ==
  /\ CanCall(t)
  /\ conn_state_mutex = NoThread
  /\ conn_state = "connected"
  /\ ~is_open
  /\ BeginTeardown(t)
  /\ UNCHANGED <<ctx, private_connection, stop, io_pc, dpc, libdbus>>

Disconnect(t) ==
  /\ CanCall(t)
  /\ conn_state_mutex = NoThread
  /\ conn_state = "connected"
  /\ BeginTeardown(t)
  /\ UNCHANGED <<ctx, private_connection, stop, io_pc, dpc, libdbus>>

(* disconnect_impl after it released conn_state_mutex. *)

\* Mutant of CancelPending: the functions are only removed from an open bus.
CancelPending_keep_hooks(t) ==
  /\ pc[t] = "cancel"
  /\ Goto(t, IF ctx /\ is_open THEN "flush" ELSE "unref")
  /\ UNCHANGED <<own, stop, io_pc, dpc, libdbus>>

\* Cancel the pending calls, if there is a bus to tell.
CancelPending(t) ==
  /\ pc[t] = "cancel"
  /\ Goto(t, IF ~ctx THEN "unref" ELSE IF is_open THEN "flush" ELSE "unhook")
  /\ UNCHANGED <<own, stop, io_pc, dpc, libdbus>>

\* dbus_connection_flush writes, and reads what there is to read meanwhile; a
\* private connection is closed after it, which queues a local Disconnected.
Flush(t) ==
  /\ pc[t] = "flush"
  /\ Goto(t, "unhook")
  /\ IF is_open
     THEN /\ is_open' = ~private_connection
          /\ \E n \in incoming..MaxIncoming :
               incoming' = IF private_connection THEN n + 1 ELSE n
          /\ IF incoming' > incoming THEN WakeMain ELSE UNCHANGED dpc
     ELSE UNCHANGED <<is_open, incoming, dpc>>
  /\ UNCHANGED <<own, stop, io_pc, hooks>>

Unhook(t) ==
  /\ pc[t] = "unhook"
  /\ hooks' = FALSE
  /\ Goto(t, "unref")
  /\ UNCHANGED <<own, stop, io_pc, dpc, is_open, incoming>>

\* The loop that unrefs every entry of pending_messages, then clear ().  What
\* they do to the calls is the subject of PendingCalls.
UnrefPending(t) ==
  /\ pc[t] = "unref"
  /\ Goto(t, "clear")
  /\ UNCHANGED <<own, stop, io_pc, dpc, libdbus>>

ClearPending(t) ==
  /\ pc[t] = "clear"
  /\ Goto(t, "stop_io")
  /\ UNCHANGED <<own, stop, io_pc, dpc, libdbus>>

\* Mutant of StopIo: the I/O thread is joined without being told to stop.
StopIo_forgotten(t) ==
  /\ pc[t] = "stop_io"
  /\ Goto(t, "join_io")
  /\ UNCHANGED <<own, stop, io_pc, dpc, libdbus>>

StopIo(t) ==
  /\ pc[t] = "stop_io"
  /\ stop_io_thread' = TRUE
  /\ Goto(t, "join_io")
  /\ UNCHANGED <<own, stop_dispatch_thread, io_pc, dpc, libdbus>>

\* Mutant of JoinIo: the I/O thread is detached.
JoinIo_detached(t) ==
  /\ pc[t] = "join_io"
  /\ Goto(t, "stop_dispatch")
  /\ UNCHANGED <<own, stop, io_pc, dpc, libdbus>>

JoinIo(t) ==
  /\ pc[t] = "join_io"
  /\ io_pc \in {"none", "exited"}
  /\ io_pc' = "none"
  /\ Goto(t, "stop_dispatch")
  /\ UNCHANGED <<own, stop, dpc, libdbus>>

StopDispatch(t) ==
  /\ pc[t] = "stop_dispatch"
  /\ stop_dispatch_thread' = TRUE
  /\ NotifyDispatcher
  /\ Goto(t, "join_dispatch")
  /\ UNCHANGED <<own, stop_io_thread, io_pc, libdbus>>

\* Mutant of JoinDispatch: the dispatch thread is detached.
JoinDispatch_detached(t) ==
  /\ pc[t] = "join_dispatch"
  /\ Goto(t, "release")
  /\ UNCHANGED <<own, stop, io_pc, dpc, libdbus>>

\* A thread that joins itself gets std::system_error from std::thread::join.
JoinDispatch(t) ==
  /\ pc[t] = "join_dispatch"
  /\ IF t = Dispatcher
     THEN /\ Goto(t, "threw")
          /\ UNCHANGED dpc
     ELSE /\ dpc \in {"none", "exited"}
          /\ dpc' = "none"
          /\ Goto(t, "release")
  /\ UNCHANGED <<own, stop, io_pc, libdbus>>

\* Unref ctx, close the descriptors, reset the members; no lock is held.  With
\* ctx gone the state of libdbus no longer concerns this connection.
Release(t) ==
  /\ pc[t] = "release"
  /\ ctx' = FALSE
  /\ private_connection' = FALSE
  /\ conn_state' = "disconnected"
  /\ Goto(t, "idle")
  /\ is_open' = FALSE
  /\ incoming' = 0
  /\ UNCHANGED <<conn_state_mutex, stop, io_pc, dpc, hooks>>

-----------------------------------------------------------------------------
(* io_handler () on the I/O thread. *)

IoTest ==
  /\ io_pc = "test"
  /\ io_pc' = IF stop_io_thread THEN "exited" ELSE "poll"
  /\ UNCHANGED <<own, pc, stop, dpc, libdbus>>

\* epoll_wait returns nothing after 100 ms.
IoTimeout ==
  /\ io_pc = "poll"
  /\ io_pc' = "test"
  /\ UNCHANGED <<own, pc, stop, dpc, libdbus>>

\* epoll_wait returns an event of a descriptor that libdbus watches.
IoEvent ==
  /\ io_pc = "poll"
  /\ hooks /\ is_open
  /\ io_pc' = "handle"
  /\ UNCHANGED <<own, pc, stop, dpc, libdbus>>

\* dbus_watch_handle queues a message and calls the wakeup_main function.
Receive ==
  /\ io_pc = "handle"
  /\ is_open
  /\ incoming < MaxIncoming
  /\ incoming' = incoming + 1
  /\ WakeMain
  /\ UNCHANGED <<own, pc, stop, io_pc, is_open, hooks>>

\* The end of dbus_watch_handle: the dispatch_status function is called only
\* if the status changed since libdbus last reported it.
IoHandled ==
  /\ io_pc = "handle"
  /\ io_pc' = "test"
  /\ WakeMain \/ UNCHANGED dpc
  /\ UNCHANGED <<own, pc, stop, libdbus>>

\* The bus goes away.  libdbus queues a local Disconnected message, and wakes
\* the main loop for it at once if nothing else was queued.
BusDrop ==
  /\ is_open
  /\ is_open' = FALSE
  /\ incoming' = incoming + 1
  /\ IF incoming = 0 THEN WakeMain ELSE UNCHANGED dpc
  /\ UNCHANGED <<own, pc, stop, io_pc, hooks>>

-----------------------------------------------------------------------------
(* msg_dispatcher () on the dispatch thread. *)

LoopTest ==
  /\ dpc = "loop"
  /\ dpc' = IF stop_dispatch_thread THEN "exited" ELSE "predicate"
  /\ UNCHANGED <<own, pc, stop, io_pc, libdbus>>

\* Mutant of Predicate: it looks at the queue only, not at the stop flag.
Predicate_queue_only ==
  /\ dpc = "predicate"
  /\ dpc' = IF incoming > 0 THEN "drain" ELSE "park"
  /\ UNCHANGED <<own, pc, stop, io_pc, libdbus>>

\* The predicate of dispatch_cond.wait.
Predicate ==
  /\ dpc = "predicate"
  /\ dpc' = IF stop_dispatch_thread \/ incoming > 0 THEN "drain" ELSE "park"
  /\ UNCHANGED <<own, pc, stop, io_pc, libdbus>>

\* The predicate was false: release the mutex and sleep.  What tells a thread that
\* overslept from one that is asleep is history: the notify that it missed.
Park ==
  /\ dpc \in {"park", "late"}
  /\ dpc' = IF dpc = "park" THEN "asleep" ELSE "overslept"
  /\ UNCHANGED <<own, pc, stop, io_pc, libdbus>>

SpuriousWakeup ==
  /\ dpc \in {"asleep", "overslept"}
  /\ dpc' = "predicate"
  /\ UNCHANGED <<own, pc, stop, io_pc, libdbus>>

\* Mutant of DrainTest: while (stop_dispatch_thread) for while (!...).
DrainTest_inverted ==
  /\ dpc = "drain"
  /\ dpc' = IF stop_dispatch_thread THEN "dispatch" ELSE "loop"
  /\ UNCHANGED <<own, pc, stop, io_pc, libdbus>>

DrainTest ==
  /\ dpc = "drain"
  /\ dpc' = IF stop_dispatch_thread THEN "loop" ELSE "dispatch"
  /\ UNCHANGED <<own, pc, stop, io_pc, libdbus>>

\* dbus_connection_dispatch takes the first message and runs the callbacks.  There
\* is one: no other thread takes messages.
Dispatch ==
  /\ dpc = "dispatch"
  /\ incoming > 0
  /\ incoming' = incoming - 1
  /\ dpc' = "handler"
  /\ UNCHANGED <<own, pc, stop, io_pc, is_open, hooks>>

\* The message was the local Disconnected: libdbus queues an error reply for
\* each pending call.
FailPending ==
  /\ dpc = "handler"
  /\ ~is_open
  /\ incoming < MaxIncoming
  /\ incoming' = incoming + 1
  /\ UNCHANGED <<own, pc, stop, io_pc, dpc, is_open, hooks>>

\* The callbacks returned; dbus_connection_dispatch tells if there is more.
Handled ==
  /\ dpc = "handler"
  /\ pc[Dispatcher] = "idle"
  /\ dpc' = IF incoming > 0 THEN "drain" ELSE "loop"
  /\ UNCHANGED <<own, pc, stop, io_pc, libdbus>>

-----------------------------------------------------------------------------
Connecting(t) == NoPollFd(t) \/ NoBus(t) \/ OpenBus(t) \/ StartIo(t) \/ StartDispatch(t)

TearingDown(t) ==
  \/ CancelPending(t) \/ Flush(t) \/ Unhook(t) \/ UnrefPending(t)
  \/ ClearPending(t) \/ StopIo(t) \/ JoinIo(t) \/ StopDispatch(t)
  \/ JoinDispatch(t) \/ Release(t)

Call(t) == Connect(t) \/ IsConnected(t) \/ Disconnect(t)

IoThread == IoTest \/ IoTimeout \/ IoEvent \/ Receive \/ IoHandled

DispatchThread ==
  \/ LoopTest \/ Predicate \/ Park \/ DrainTest
  \/ Dispatch \/ FailPending \/ Handled

Next ==
  \/ \E t \in Callers : Call(t) \/ Connecting(t) \/ TearingDown(t)
  \/ IoThread
  \/ DispatchThread
  \/ SpuriousWakeup
  \/ BusDrop

\* Threads are scheduled, epoll_wait returns within 100 ms and callbacks
\* return.  Nothing obliges the program to call, the bus to send, or a parked
\* thread to wake up without a notification.
Fairness ==
  /\ \A t \in Callers : WF_vars(Connecting(t) \/ TearingDown(t))
  /\ WF_vars(IoTest)
  /\ WF_vars(IoTimeout \/ IoEvent)
  /\ WF_vars(IoHandled)
  /\ WF_vars(DispatchThread)

Spec == Init /\ [][Next]_vars /\ Fairness

-----------------------------------------------------------------------------
(* Properties. *)

\* A dispatch or I/O thread that has not exited works on a live ctx: nothing
\* releases the DBusConnection (connection.cpp:501-504) before both threads
\* are joined, whoever tears the connection down and whenever.
ThreadsUseLiveCtx ==
  (io_pc \notin {"none", "exited"} \/ dpc \notin {"none", "exited"}) => ctx

Busy(t) == pc[t] # "idle"

\* At most one caller is inside connect or disconnect_impl, although
\* disconnect_impl gives conn_state_mutex back at its start (468): a second
\* teardown would join and release the same threads and ctx.
OneOwner == \A s, t \in Callers : Busy(s) /\ Busy(t) => s = t

\* Between connect and teardown everything a connection needs is there: ctx,
\* libdbus' functions and both threads, with their stop flags down.
ConnectedIsComplete ==
  conn_state = "connected" =>
     /\ ctx /\ hooks
     /\ ~stop_io_thread /\ ~stop_dispatch_thread
     /\ io_pc \notin {"none", "exited"} /\ dpc \notin {"none", "exited"}
     /\ \A t \in Callers : ~Busy(t)

\* A disconnected connection has nothing left: no ctx, no functions through
\* which libdbus could call it, no thread to join.  So a reconnect starts from
\* the constructor's state, and the std::thread objects that start_io_handler
\* assigns to (1201, 1225) are not joinable, which would terminate.
DisconnectedIsClean ==
  conn_state = "disconnected" =>
     /\ ~ctx /\ ~hooks /\ ~private_connection
     /\ stop_io_thread /\ stop_dispatch_thread
     /\ io_pc = "none" /\ dpc = "none"
     /\ \A t \in Callers : ~Busy(t)

\* A connection at rest is either complete or as new.
RestStates == ConnectedIsComplete /\ DisconnectedIsClean

\* A dispatch thread that sleeps has no message to dispatch and has not been told
\* to stop, unless a notify fell between its predicate and its sleep (1376): of
\* all that libdbus (1490, 1498), a teardown (497) and the thread do in between,
\* that window is the only way to sleep on work.  Once libdbus' functions are
\* removed (483) messages go unnoticed; the thread is then about to be stopped.
SleepsOnlyWithoutWork ==
  dpc = "asleep" => ~stop_dispatch_thread /\ (hooks => incoming = 0)

\* The dispatch thread sleeps although it was told to stop.
SleepsThroughStop == dpc = "overslept" /\ stop_dispatch_thread

\* A teardown ends, unless its only notify_one (497) fell between predicate
\* and sleep of the dispatch thread and nothing ever wakes that thread, or the
\* dispatch thread joined itself.
TeardownEnds ==
  conn_state = "disconnecting"
    ~> \/ conn_state = "disconnected"
       \/ []SleepsThroughStop
       \/ pc[Dispatcher] = "threw"

\* A queued message is dispatched while the connection lasts, unless the dispatch
\* thread missed the notify for it (1376) and sleeps on for ever.
QueuedIsDispatched ==
  (incoming > 0 /\ conn_state = "connected")
    ~> \/ dpc = "handler"
       \/ [](dpc = "overslept")
       \/ conn_state # "connected"

=============================================================================
