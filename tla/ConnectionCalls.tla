-------------------------- MODULE ConnectionCalls --------------------------
(***************************************************************************)
(* Connection and PendingCalls together: an ultrabus::connection whose     *)
(* calls are made by its threads, answered by its dispatch thread, and     *)
(* undone by its teardown.  Each step is a step of one of the two, or of   *)
(* both at once where the code of one is the code of the other:            *)
(*  - connect () and disconnect_impl () are the phases of PendingCalls,    *)
(*  - a reply is one of the messages that libdbus queues and dispatches,   *)
(*  - what PendingCalls does with it happens in a handler of Connection,   *)
(*  - is_connected () at the start of a send takes conn_state_mutex.       *)
(***************************************************************************)
EXTENDS Naturals, FiniteSets

CONSTANTS Threads, Dispatcher, NoThread, MaxIncoming, Reentrant,
          Calls, SyncCalls, SilentCalls, NoCall,
          Sender                \* the thread that makes each call

ASSUME SenderAssumption == Sender \in [Calls -> Threads \cup {Dispatcher}]

\* What the two parts assume of their constants.
ASSUME ConnectionAssumption ==
  /\ Dispatcher \notin Threads
  /\ NoThread \notin Threads \cup {Dispatcher}
  /\ MaxIncoming \in Nat \ {0}
  /\ Reentrant \in BOOLEAN

ASSUME CallsAssumption ==
  /\ SyncCalls \subseteq Calls
  /\ SilentCalls \subseteq Calls \ SyncCalls
  /\ NoCall \notin Calls

VARIABLES conn_state, conn_state_mutex, ctx, private_connection, pc,
          stop_io_thread, stop_dispatch_thread, io_pc, dpc,
          is_open, hooks, incoming,
          spc, pending_mutex, pending_messages, notify_set, pending,
          opc, cur, answered, got_reply, unrefs, swept

At(labels) == \E t \in Threads \cup {Dispatcher} : pc[t] \in labels

\* Where the connection is, as the calls see it.
phase ==
  CASE conn_state = "disconnected" -> "down"
    [] conn_state = "connecting" -> IF ctx THEN "opening" ELSE "down"
    [] conn_state = "connected" -> "up"
    [] conn_state = "disconnecting" ->
         IF At({"cancel"}) THEN "cancel"
         ELSE IF At({"flush", "unhook", "unref"}) THEN "unref"
         ELSE IF At({"clear"}) THEN "clear"
         ELSE "join"

CallbackCalls == {c \in Calls : Sender[c] = Dispatcher}

Conn == INSTANCE Connection
Msgs == INSTANCE PendingCalls WITH MayDisconnect <- TRUE

conn_vars == <<conn_state, conn_state_mutex, ctx, private_connection, pc,
               stop_io_thread, stop_dispatch_thread, io_pc, dpc,
               is_open, hooks, incoming>>
call_vars == <<spc, pending_mutex, pending_messages, notify_set, pending,
               opc, cur, answered, got_reply, unrefs, swept>>
vars == <<conn_vars, call_vars>>

Init ==
  /\ Conn!Init
  /\ Msgs!Init

InCall(t) == \E c \in Calls : Sender[c] = t /\ Msgs!InProgress(c)

\* The program runs in this thread, and not inside a send.
Outside(t) ==
  /\ ~InCall(t)
  /\ t = Dispatcher => opc = "callback"

Queued == {c \in Calls : pending[c] = "replied"}

-----------------------------------------------------------------------------
(* connect (), is_connected () and disconnect (). *)

Connect(t) == Outside(t) /\ Conn!Connect(t) /\ UNCHANGED call_vars

\* Also the is_connected () at the start of a send.
BeginTeardown(t) ==
  /\ Outside(t)
  /\ Conn!IsConnected(t) \/ Conn!Disconnect(t)
  /\ Msgs!Leave

NoBus(t) == Conn!NoBus(t) /\ Msgs!ConnectFails

\* A shared connection may come with replies that nobody dispatched yet.
OpenBus(t) ==
  /\ Conn!OpenBus(t)
  /\ Msgs!Open \/ Msgs!ConnectFails
  /\ Cardinality(Queued) <= incoming'

StartDispatch(t) == Conn!StartDispatch(t) /\ Msgs!Connected

\* Mutant of CancelPending: flush and close only if a call is pending.
CancelPending_early(t) ==
  /\ pc[t] = "cancel"
  /\ Conn!Goto(t, IF pending_messages # {} THEN "flush" ELSE "unhook")
  /\ UNCHANGED <<conn_state, conn_state_mutex, ctx, private_connection,
                 stop_io_thread, stop_dispatch_thread, io_pc, dpc,
                 is_open, hooks, incoming>>
  /\ IF ctx /\ is_open THEN Msgs!CancelAll ELSE Msgs!SkipCancel

CancelPending(t) ==
  /\ Conn!CancelPending(t)
  /\ IF ctx /\ is_open THEN Msgs!CancelAll ELSE Msgs!SkipCancel

UnrefPending(t) == Conn!UnrefPending(t) /\ Msgs!UnrefAll

ClearPending(t) == Conn!ClearPending(t) /\ Msgs!ClearAll

\* Only a shared connection that is still open outlives the release of ctx.
Release(t) ==
  /\ Conn!Release(t)
  /\ Msgs!Release
  /\ IF ~private_connection /\ is_open
     THEN UNCHANGED pending
     ELSE \A c \in Calls : pending'[c] \notin {"attached", "replied"}

\* The other steps of connect () and disconnect_impl () do not touch the calls.
Lifecycle(t) ==
  /\ \/ Conn!NoPollFd(t) \/ Conn!StartIo(t)
     \/ Conn!Flush(t) \/ Conn!Unhook(t)
     \/ Conn!StopIo(t) \/ Conn!JoinIo(t)
     \/ Conn!StopDispatch(t) \/ Conn!JoinDispatch(t)
  /\ UNCHANGED call_vars

-----------------------------------------------------------------------------
(* send () and send_and_wait (). *)

\* is_connected () answers at once: the mutex is free and the bus is there, or
\* the connection is not in use.
Check(c) ==
  /\ ~InCall(Sender[c])
  /\ pc[Sender[c]] = "idle"
  /\ conn_state_mutex = NoThread
  /\ conn_state = "connected" => is_open
  /\ UNCHANGED conn_vars
  /\ Msgs!Check(c)

\* A connection that lost its bus gives no pending call.
SendWithReply(c) == is_open /\ UNCHANGED conn_vars /\ Msgs!SendWithReply(c)

Sending(c) ==
  /\ UNCHANGED conn_vars
  /\ \/ Msgs!SendLock(c) \/ Msgs!SendRefused(c) \/ Msgs!SetNotify(c)
     \/ Msgs!SendWithoutCtx(c) \/ Msgs!Emplace(c)
     \/ Msgs!WaitTest(c) \/ Msgs!WaitPark(c)

SpuriousReturn(c) == UNCHANGED conn_vars /\ Msgs!SpuriousWakeup(c)

-----------------------------------------------------------------------------
(* The threads of the connection. *)

\* The reply is queued.  Whether the dispatch thread notices is Connection's: its
\* dpc says when that thread oversleeps, and opc stays idle meanwhile.
Reply(c) == Msgs!Reply(c) /\ UNCHANGED opc

\* A message that arrives may be the reply of a call, or its timeout.
Receive ==
  /\ Conn!Receive
  /\ UNCHANGED call_vars \/ \E c \in Calls : Reply(c)

FailPending == Conn!FailPending /\ \E c \in Calls : Reply(c)

\* A message that is dispatched may be a reply.
Dispatch ==
  /\ Conn!Dispatch
  /\ \/ \E c \in Queued : Msgs!Dispatch(c)
     \/ incoming > Cardinality(Queued) /\ Msgs!DispatchOther

\* Inside dbus_connection_dispatch.
Handling ==
  /\ dpc = "handler"
  /\ UNCHANGED conn_vars
  /\ \/ Msgs!ReadNotify \/ Msgs!OnPendingCall \/ Msgs!Invoke \/ Msgs!Wake
     \/ pc[Dispatcher] = "idle" /\ Msgs!CallbackReturns

Handled == opc = "idle" /\ Conn!Handled /\ UNCHANGED call_vars

IoThread ==
  /\ Conn!IoTest \/ Conn!IoTimeout \/ Conn!IoEvent \/ Conn!IoHandled
  /\ UNCHANGED call_vars

DispatchThread ==
  /\ Conn!LoopTest \/ Conn!Predicate \/ Conn!Park \/ Conn!DrainTest
  /\ UNCHANGED call_vars

Environment == (Conn!SpuriousWakeup \/ Conn!BusDrop) /\ UNCHANGED call_vars

-----------------------------------------------------------------------------
Caller(t) ==
  \/ NoBus(t) \/ OpenBus(t) \/ StartDispatch(t)
  \/ CancelPending(t) \/ UnrefPending(t) \/ ClearPending(t) \/ Release(t)
  \/ Lifecycle(t)

Next ==
  \/ \E t \in Threads \cup {Dispatcher} : Connect(t) \/ BeginTeardown(t) \/ Caller(t)
  \/ \E c \in Calls : Check(c) \/ SendWithReply(c) \/ Sending(c) \/ SpuriousReturn(c)
  \/ IoThread \/ Receive
  \/ DispatchThread \/ Dispatch \/ Handling \/ Handled \/ FailPending
  \/ Environment

\* Threads are scheduled and callbacks return; a queued reply need not come.
Fairness ==
  /\ \A t \in Threads \cup {Dispatcher} : WF_vars(Caller(t))
  /\ \A c \in Calls : WF_vars(SendWithReply(c) \/ Sending(c))
  /\ WF_vars(IoThread)
  /\ WF_vars(DispatchThread \/ Dispatch \/ Handling \/ Handled)

Spec == Init /\ [][Next]_vars /\ Fairness

-----------------------------------------------------------------------------
(* Properties. *)

\* The composition does nothing that its two parts do not: what is checked and
\* proved of Connection and of PendingCalls holds of the whole.
IsConnection == Conn!Init /\ [][Conn!Next]_(Conn!vars)
IsPendingCalls == Msgs!Init /\ [][Msgs!Next]_(Msgs!vars)
IsTheParts == IsConnection /\ IsPendingCalls

\* Once disconnect () is over no callback runs and none is on its way: what the
\* callbacks use may be destroyed.
QuietAfterDisconnect ==
  conn_state = "disconnected" => opc = "idle" /\ cur = NoCall /\ dpc = "none"

\* The dispatch thread waits for a reply that it would have to dispatch itself.
DispatcherWaits ==
  \E c \in SyncCalls \cap CallbackCalls : spc[c] \in Msgs!WaitSteps

\* The locks of the two parts do not block each other: a teardown ends unless
\* the dispatch thread sleeps through its stop for ever, joins itself or waits for
\* itself, or a send without ctx never gives pending_mutex back.
TeardownEnds ==
  conn_state = "disconnecting"
    ~> \/ conn_state = "disconnected"
       \/ []Conn!SleepsThroughStop
       \/ pc[Dispatcher] = "threw"
       \/ DispatcherWaits
       \/ \E c \in Calls : spc[c] = "undefined"

=============================================================================
