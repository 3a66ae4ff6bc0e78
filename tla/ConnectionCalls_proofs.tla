------------------------ MODULE ConnectionCalls_proofs ------------------------
(***************************************************************************)
(* The composition does what its two parts do, for any threads and calls:  *)
(* so what is proved of Connection and of PendingCalls holds of the whole, *)
(* as the theorems at the end say.                                         *)
(*                                                                         *)
(* A step of Connection is one by definition.  That it is also a step of   *)
(* PendingCalls, or none, is what has to be shown: PendingCalls sees the   *)
(* connection through phase, which is computed from conn_state, ctx and pc *)
(* of all callers.  OwnerInv says what makes phase follow one caller.      *)
(***************************************************************************)
EXTENDS ConnectionCalls, TLAPS

Callers == Threads \cup {Dispatcher}
Undoing == Conn!TeardownSteps \cup {"threw"}

\* Who is inside connect or disconnect_impl is alone there, and set conn_state;
\* there is no ctx before it has one, and no dispatch thread before it starts
\* one and after it joined the last.
OwnerInv ==
  /\ pc \in [Callers -> {"idle"} \cup Conn!ConnectSteps \cup Undoing]
  /\ Conn!OneOwner
  /\ \A t \in Callers :
       /\ pc[t] \in Conn!ConnectSteps => conn_state = "connecting"
       /\ pc[t] \in Undoing => conn_state = "disconnecting"
       /\ pc[t] = "open" => ~ctx
       /\ pc[t] \in Conn!ConnectSteps \cup {"release"} => dpc = "none"
  /\ conn_state = "disconnected" => ~ctx /\ dpc = "none"

\* on_pending_call and the callbacks run inside dbus_connection_dispatch, and
\* the dispatch thread has a call in its hand only there.
HandlerInv ==
  /\ dpc # "handler" => opc = "idle"
  /\ opc \in {"idle", "callback"} => cur = NoCall

IInv == OwnerInv /\ HandlerInv

-----------------------------------------------------------------------------
(* The connection's side. *)

\* A step of a caller while all others are outside the connection.
LEMMA OwnerStep ==
  ASSUME OwnerInv,
         NEW t \in Callers, NEW l \in {"idle"} \cup Conn!ConnectSteps \cup Undoing,
         pc' = [pc EXCEPT ![t] = l],
         \A s \in Callers \ {t} : pc[s] = "idle",
         l \in Conn!ConnectSteps => conn_state' = "connecting",
         l \in Undoing => conn_state' = "disconnecting",
         l = "open" => ~ctx',
         l \in Conn!ConnectSteps \cup {"release"} => dpc' = "none",
         conn_state' = "disconnected" => ~ctx' /\ dpc' = "none"
  PROVE  OwnerInv'
  <1>1. pc' \in [Callers -> {"idle"} \cup Conn!ConnectSteps \cup Undoing]
    BY DEF OwnerInv
  <1>2. pc'[t] = l /\ \A s \in Callers \ {t} : pc'[s] = "idle"
    BY DEF OwnerInv
  <1>3. Conn!OneOwner'
    BY <1>2 DEF Conn!OneOwner, Conn!Busy, Conn!Callers, Callers
  <1>4. \A s \in Callers :
          /\ pc'[s] \in Conn!ConnectSteps => conn_state' = "connecting"
          /\ pc'[s] \in Undoing => conn_state' = "disconnecting"
          /\ pc'[s] = "open" => ~ctx'
          /\ pc'[s] \in Conn!ConnectSteps \cup {"release"} => dpc' = "none"
    BY <1>2 DEF Conn!ConnectSteps, Undoing, Conn!TeardownSteps
  <1> QED
    BY <1>1, <1>3, <1>4 DEF OwnerInv

\* A step of no caller: a dispatch thread that is not there stays so.
LEMMA ThreadStep ==
  ASSUME OwnerInv, UNCHANGED <<conn_state, ctx, pc>>, dpc = "none" => dpc' = "none"
  PROVE  OwnerInv'
  <1>1. Conn!OneOwner'
    BY DEF OwnerInv, Conn!OneOwner, Conn!Busy
  <1> QED
    BY <1>1 DEF OwnerInv

LEMMA OwnerKept ==
  ASSUME OwnerInv, [Conn!Next]_(Conn!vars)
  PROVE  OwnerInv'
  <1> USE DEF Conn!own, Conn!stop, Conn!libdbus, Conn!Goto
  <1>callers. Conn!Callers = Callers
    BY DEF Conn!Callers, Callers
  <1>busy. ASSUME NEW t \in Callers, pc[t] # "idle"
           PROVE  \A s \in Callers \ {t} : pc[s] = "idle"
    BY <1>busy DEF OwnerInv, Conn!OneOwner, Conn!Busy, Conn!Callers, Callers
  <1>rest. ASSUME conn_state \in {"connected", "disconnected"}
           PROVE  \A s \in Callers : pc[s] = "idle"
    BY <1>rest DEF OwnerInv
  <1>at. \A t \in Callers :
           /\ pc[t] \in Conn!ConnectSteps => conn_state = "connecting"
           /\ pc[t] \in Undoing => conn_state = "disconnecting"
           /\ pc[t] = "open" => ~ctx
           /\ pc[t] \in Conn!ConnectSteps \cup {"release"} => dpc = "none"
    BY DEF OwnerInv
  <1>1. ASSUME NEW t \in Callers, Conn!Call(t)
        PROVE  OwnerInv'
    <2>1. CASE Conn!Connect(t)
      <3>1. \A s \in Callers : pc[s] = "idle"
        BY <1>rest, <2>1 DEF Conn!Connect
      <3>2. ~ctx /\ dpc = "none"
        BY <2>1 DEF Conn!Connect, OwnerInv
      <3> QED
        BY <2>1, <3>1, <3>2, OwnerStep DEF Conn!Connect, Conn!ConnectSteps, Undoing, Conn!TeardownSteps
    <2>2. CASE Conn!IsConnected(t) \/ Conn!Disconnect(t)
      <3>1. \A s \in Callers : pc[s] = "idle"
        BY <1>rest, <2>2 DEF Conn!IsConnected, Conn!Disconnect
      <3> QED
        BY <2>2, <3>1, OwnerStep
           DEF Conn!IsConnected, Conn!Disconnect, Conn!BeginTeardown, Conn!ConnectSteps, Undoing, Conn!TeardownSteps
    <2> QED
      BY <1>1, <2>1, <2>2 DEF Conn!Call
  <1>2. ASSUME NEW t \in Callers, Conn!Connecting(t)
        PROVE  OwnerInv'
    <2>1. pc[t] \in Conn!ConnectSteps
      BY <1>2 DEF Conn!Connecting, Conn!NoPollFd, Conn!NoBus, Conn!OpenBus, Conn!StartIo,
                  Conn!StartDispatch, Conn!ConnectSteps
    <2>2. \A s \in Callers \ {t} : pc[s] = "idle"
      BY <1>busy, <2>1 DEF Conn!ConnectSteps
    <2>3. conn_state = "connecting" /\ dpc = "none"
      BY <1>at, <2>1
    <2>4. CASE Conn!NoPollFd(t)
      BY <1>at, <2>2, <2>3, <2>4, OwnerStep
         DEF Conn!NoPollFd, Conn!ConnectSteps, Undoing, Conn!TeardownSteps
    <2>5. CASE Conn!NoBus(t)
      BY <2>2, <2>5, OwnerStep
         DEF Conn!NoBus, Conn!BeginTeardown, Conn!ConnectSteps, Undoing, Conn!TeardownSteps
    <2>6. CASE Conn!OpenBus(t)
      BY <2>2, <2>3, <2>6, OwnerStep
         DEF Conn!OpenBus, Conn!BeginTeardown, Conn!ConnectSteps, Undoing, Conn!TeardownSteps
    <2>7. CASE Conn!StartIo(t)
      BY <2>2, <2>3, <2>7, OwnerStep DEF Conn!StartIo, Conn!ConnectSteps, Undoing, Conn!TeardownSteps
    <2>8. CASE Conn!StartDispatch(t)
      BY <2>2, <2>8, OwnerStep DEF Conn!StartDispatch, Conn!ConnectSteps, Undoing, Conn!TeardownSteps
    <2> QED
      BY <1>2, <2>4, <2>5, <2>6, <2>7, <2>8 DEF Conn!Connecting
  <1>3. ASSUME NEW t \in Callers, Conn!TearingDown(t)
        PROVE  OwnerInv'
    <2> USE DEF Undoing, Conn!TeardownSteps
    <2>1. pc[t] \in Undoing
      BY <1>3 DEF Conn!TearingDown, Conn!CancelPending, Conn!Flush, Conn!Unhook,
                  Conn!UnrefPending, Conn!ClearPending, Conn!StopIo, Conn!JoinIo,
                  Conn!StopDispatch, Conn!JoinDispatch, Conn!Release
    <2>2. \A s \in Callers \ {t} : pc[s] = "idle"
      BY <1>busy, <2>1
    <2>3. conn_state = "disconnecting"
      BY <1>at, <2>1
    <2>4. CASE Conn!CancelPending(t)
      BY <2>2, <2>3, <2>4, OwnerStep DEF Conn!CancelPending, Conn!ConnectSteps
    <2>5. CASE Conn!Flush(t)
      BY <2>2, <2>3, <2>5, OwnerStep DEF Conn!Flush, Conn!ConnectSteps
    <2>6. CASE Conn!Unhook(t)
      BY <2>2, <2>3, <2>6, OwnerStep DEF Conn!Unhook, Conn!ConnectSteps
    <2>7. CASE Conn!UnrefPending(t) \/ Conn!ClearPending(t)
      BY <2>2, <2>3, <2>7, OwnerStep DEF Conn!UnrefPending, Conn!ClearPending, Conn!ConnectSteps
    <2>8. CASE Conn!StopIo(t) \/ Conn!JoinIo(t)
      BY <2>2, <2>3, <2>8, OwnerStep DEF Conn!StopIo, Conn!JoinIo, Conn!ConnectSteps
    <2>9. CASE Conn!StopDispatch(t)
      BY <2>2, <2>3, <2>9, OwnerStep DEF Conn!StopDispatch, Conn!ConnectSteps
    <2>10. CASE Conn!JoinDispatch(t)
      BY <2>2, <2>3, <2>10, OwnerStep DEF Conn!JoinDispatch, Conn!ConnectSteps
    <2>11. CASE Conn!Release(t)
      BY <1>at, <2>2, <2>11, OwnerStep DEF Conn!Release, Conn!ConnectSteps
    <2> QED
      BY <1>3, <2>4, <2>5, <2>6, <2>7, <2>8, <2>9, <2>10, <2>11 DEF Conn!TearingDown
  <1>4. CASE Conn!IoThread
    BY <1>4, ThreadStep
       DEF Conn!IoThread, Conn!IoTest, Conn!IoTimeout, Conn!IoEvent, Conn!Receive,
           Conn!IoHandled, Conn!WakeMain, Conn!NotifyDispatcher
  <1>5. CASE Conn!DispatchThread \/ Conn!SpuriousWakeup
    BY <1>5, ThreadStep
       DEF Conn!DispatchThread, Conn!SpuriousWakeup, Conn!LoopTest, Conn!Predicate, Conn!Park,
           Conn!DrainTest, Conn!Dispatch, Conn!FailPending, Conn!Handled
  <1>6. CASE Conn!BusDrop
    BY <1>6, ThreadStep DEF Conn!BusDrop, Conn!WakeMain, Conn!NotifyDispatcher
  <1>7. CASE UNCHANGED Conn!vars
    BY <1>7, ThreadStep DEF Conn!vars
  <1> QED
    BY <1>callers, <1>1, <1>2, <1>3, <1>4, <1>5, <1>6, <1>7 DEF Conn!Next

\* The composition has no step of the connection that Connection has not.
LEMMA StepOfConnection ==
  ASSUME [Next]_vars
  PROVE  [Conn!Next]_(Conn!vars)
  <1>callers. Conn!Callers = Callers
    BY DEF Conn!Callers, Callers
  <1>still. UNCHANGED conn_vars => UNCHANGED Conn!vars
    BY DEF conn_vars, Conn!vars, Conn!own, Conn!stop, Conn!libdbus
  <1>1. ASSUME NEW t \in Callers, Connect(t) \/ BeginTeardown(t)
        PROVE  Conn!Next
    BY <1>1, <1>callers DEF Connect, BeginTeardown, Conn!Next, Conn!Call
  <1>2. ASSUME NEW t \in Callers, Caller(t)
        PROVE  Conn!Connecting(t) \/ Conn!TearingDown(t)
    BY <1>2 DEF Caller, NoBus, OpenBus, StartDispatch, CancelPending, UnrefPending,
                ClearPending, Release, Lifecycle, Conn!Connecting, Conn!TearingDown
  <1>3. ASSUME NEW c \in Calls, Check(c) \/ SendWithReply(c) \/ Sending(c) \/ SpuriousReturn(c)
        PROVE  UNCHANGED conn_vars
    BY <1>3 DEF Check, SendWithReply, Sending, SpuriousReturn
  <1>4. CASE IoThread \/ Receive
    BY <1>4 DEF IoThread, Receive, Conn!Next, Conn!IoThread
  <1>5. CASE DispatchThread \/ Dispatch \/ Handled \/ FailPending
    BY <1>5 DEF DispatchThread, Dispatch, Handled, FailPending, Conn!Next, Conn!DispatchThread
  <1>6. CASE Handling
    BY <1>6, <1>still DEF Handling
  <1>7. CASE Environment
    BY <1>7 DEF Environment, Conn!Next
  <1>8. CASE UNCHANGED vars
    BY <1>8, <1>still DEF vars
  <1> QED
    BY <1>callers, <1>still, <1>1, <1>2, <1>3, <1>4, <1>5, <1>6, <1>7, <1>8
       DEF Next, Conn!Next, Callers

-----------------------------------------------------------------------------
(* The calls' side. *)

\* phase is a function of conn_state, ctx and which of the labels it asks for
\* some caller is at.
LEMMA PhaseKept ==
  ASSUME UNCHANGED <<conn_state, ctx>>,
         (\E t \in Callers : pc'[t] \in {"cancel"}) <=> (\E t \in Callers : pc[t] \in {"cancel"}),
         (\E t \in Callers : pc'[t] \in {"flush", "unhook", "unref"})
           <=> (\E t \in Callers : pc[t] \in {"flush", "unhook", "unref"}),
         (\E t \in Callers : pc'[t] \in {"clear"}) <=> (\E t \in Callers : pc[t] \in {"clear"})
  PROVE  phase' = phase
  BY DEF phase, At, Callers

\* One caller goes from p to l, and no label that phase asks for is involved, or
\* both are among those that mean the same.
LEMMA PhaseKeptByCaller ==
  ASSUME OwnerInv, UNCHANGED <<conn_state, ctx>>, NEW t \in Callers, NEW l,
         pc' = [pc EXCEPT ![t] = l],
         pc[t] = "cancel" <=> l = "cancel",
         pc[t] \in {"flush", "unhook", "unref"} <=> l \in {"flush", "unhook", "unref"},
         pc[t] = "clear" <=> l = "clear"
  PROVE  phase' = phase
  <1>1. pc'[t] = l /\ \A s \in Callers \ {t} : pc'[s] = pc[s]
    BY DEF OwnerInv
  <1> QED
    BY <1>1, PhaseKept


\* Nothing that PendingCalls sees of a step in which neither the calls change
\* nor what phase is computed from.
LEMMA CallsStutter ==
  ASSUME UNCHANGED call_vars, phase' = phase, UNCHANGED ctx
  PROVE  UNCHANGED Msgs!vars
  BY DEF call_vars, Msgs!vars, Msgs!send_vars, Msgs!disp_vars, Msgs!conn_vars, Msgs!history

\* Steps of connect () and disconnect_impl () that do not concern the calls.
LEMMA QuietForCalls ==
  ASSUME OwnerInv, NEW t \in Callers, Connect(t) \/ Lifecycle(t)
  PROVE  UNCHANGED Msgs!vars
  <1> USE DEF Conn!own, Conn!stop, Conn!libdbus, Conn!Goto
  <1>calls. UNCHANGED call_vars
    BY DEF Connect, Lifecycle
  <1>1. CASE Conn!Connect(t)
    <2>1. ~ctx /\ conn_state = "disconnected" /\ conn_state' = "connecting" /\ UNCHANGED ctx
      BY <1>1 DEF Conn!Connect, OwnerInv
    <2>2. phase = "down" /\ phase' = "down"
      BY <2>1 DEF phase
    <2> QED
      BY <1>calls, <2>1, <2>2, CallsStutter
  <1>2. CASE Conn!NoPollFd(t)
    <2>1. ~ctx /\ conn_state = "connecting" /\ conn_state' = "disconnected" /\ UNCHANGED ctx
      BY <1>2 DEF Conn!NoPollFd, OwnerInv, Conn!ConnectSteps
    <2>2. phase = "down" /\ phase' = "down"
      BY <2>1 DEF phase
    <2> QED
      BY <1>calls, <2>1, <2>2, CallsStutter
  <1>3. CASE Conn!StartIo(t)
    BY <1>calls, <1>3, PhaseKeptByCaller, CallsStutter DEF Conn!StartIo
  <1>4. CASE Conn!Flush(t)
    BY <1>calls, <1>4, PhaseKeptByCaller, CallsStutter DEF Conn!Flush
  <1>5. CASE Conn!Unhook(t)
    BY <1>calls, <1>5, PhaseKeptByCaller, CallsStutter DEF Conn!Unhook
  <1>6. CASE Conn!StopIo(t)
    BY <1>calls, <1>6, PhaseKeptByCaller, CallsStutter DEF Conn!StopIo
  <1>7. CASE Conn!JoinIo(t)
    BY <1>calls, <1>7, PhaseKeptByCaller, CallsStutter DEF Conn!JoinIo
  <1>8. CASE Conn!StopDispatch(t)
    BY <1>calls, <1>8, PhaseKeptByCaller, CallsStutter DEF Conn!StopDispatch
  <1>9. CASE Conn!JoinDispatch(t)
    <2>1. UNCHANGED <<conn_state, ctx>> /\ pc[t] = "join_dispatch"
      BY <1>9 DEF Conn!JoinDispatch
    <2>2. CASE pc' = [pc EXCEPT ![t] = "threw"]
      BY <1>calls, <2>1, <2>2, PhaseKeptByCaller, CallsStutter
    <2>3. CASE pc' = [pc EXCEPT ![t] = "release"]
      BY <1>calls, <2>1, <2>3, PhaseKeptByCaller, CallsStutter
    <2> QED
      BY <1>9, <2>2, <2>3 DEF Conn!JoinDispatch
  <1> QED
    BY <1>1, <1>2, <1>3, <1>4, <1>5, <1>6, <1>7, <1>8, <1>9 DEF Connect, Lifecycle

\* Steps of the threads, and of libdbus, that leave the calls alone.
LEMMA QuietThreads ==
  ASSUME UNCHANGED call_vars, UNCHANGED <<conn_state, ctx, pc>>
  PROVE  UNCHANGED Msgs!vars
  <1>1. phase' = phase
    BY PhaseKept
  <1> QED
    BY <1>1, CallsStutter

LEMMA StepOfCalls ==
  ASSUME OwnerInv, [Next]_vars
  PROVE  [Msgs!Next]_(Msgs!vars)
  <1> USE DEF Conn!own, Conn!stop, Conn!libdbus
  <1>1. ASSUME NEW t \in Callers, Connect(t) \/ Lifecycle(t)
        PROVE  UNCHANGED Msgs!vars
    BY <1>1, QuietForCalls
  <1>2. ASSUME NEW t \in Callers, BeginTeardown(t)
        PROVE  Msgs!Next
    BY <1>2 DEF BeginTeardown, Msgs!Next
  <1>3. ASSUME NEW t \in Callers, NoBus(t) \/ OpenBus(t) \/ StartDispatch(t)
        PROVE  Msgs!Next
    BY <1>3 DEF NoBus, OpenBus, StartDispatch, Msgs!Next
  <1>4. ASSUME NEW t \in Callers,
               CancelPending(t) \/ UnrefPending(t) \/ ClearPending(t) \/ Release(t)
        PROVE  Msgs!TearingDown
    BY <1>4 DEF CancelPending, UnrefPending, ClearPending, Release, Msgs!TearingDown
  <1>5. ASSUME NEW c \in Calls, Check(c) \/ SendWithReply(c) \/ Sending(c) \/ SpuriousReturn(c)
        PROVE  Msgs!Check(c) \/ Msgs!Sending(c) \/ Msgs!SpuriousWakeup(c)
    BY <1>5 DEF Check, SendWithReply, Sending, SpuriousReturn, Msgs!Sending
  <1>6. CASE IoThread
    BY <1>6, QuietThreads
       DEF IoThread, Conn!IoTest, Conn!IoTimeout, Conn!IoEvent, Conn!IoHandled
  <1>7. CASE Receive
    <2>1. CASE UNCHANGED call_vars
      BY <1>7, <2>1, QuietThreads DEF Receive, Conn!Receive
    <2>2. CASE \E c \in Calls : Reply(c)
      BY <2>2 DEF Reply, Msgs!Next
    <2> QED
      BY <1>7, <2>1, <2>2 DEF Receive
  <1>8. CASE DispatchThread
    BY <1>8, QuietThreads
       DEF DispatchThread, Conn!LoopTest, Conn!Predicate, Conn!Park, Conn!DrainTest
  <1>9. CASE Dispatch
    BY <1>9 DEF Dispatch, Queued, Msgs!Next, Msgs!Dispatching
  <1>10. CASE Handling
    BY <1>10 DEF Handling, Msgs!Next, Msgs!Dispatching
  <1>11. CASE Handled
    BY <1>11, QuietThreads DEF Handled, Conn!Handled
  <1>12. CASE FailPending
    BY <1>12 DEF FailPending, Reply, Msgs!Next
  <1>13. CASE Environment
    BY <1>13, QuietThreads DEF Environment, Conn!SpuriousWakeup, Conn!BusDrop
  <1>14. CASE UNCHANGED vars
    BY <1>14, QuietThreads DEF vars, conn_vars
  <1> QED
    BY <1>1, <1>2, <1>3, <1>4, <1>5, <1>6, <1>7, <1>8, <1>9, <1>10, <1>11, <1>12, <1>13, <1>14
       DEF Next, Caller, Callers, Msgs!Next

-----------------------------------------------------------------------------
(* The two together. *)

\* What the dispatch thread does with a reply, it does inside Connection's
\* handler, and it does not leave the handler before it is done.
LEMMA HandlerKept ==
  ASSUME OwnerInv, HandlerInv, [Next]_vars
  PROVE  HandlerInv'
  <1> USE DEF Conn!own, Conn!stop, Conn!libdbus
  <1>keep. ASSUME UNCHANGED <<opc, cur>>, dpc = "handler" => dpc' = "handler" \/ opc = "idle"
           PROVE  HandlerInv'
    BY <1>keep DEF HandlerInv
  <1>1. ASSUME NEW t \in Callers, Connect(t) \/ BeginTeardown(t)
        PROVE  HandlerInv'
    BY <1>1, <1>keep
       DEF Connect, BeginTeardown, Conn!Connect, Conn!IsConnected, Conn!Disconnect, Msgs!Leave,
           call_vars, Msgs!disp_vars
  <1>2. ASSUME NEW t \in Callers, NoBus(t) \/ OpenBus(t)
        PROVE  HandlerInv'
    BY <1>2, <1>keep
       DEF NoBus, OpenBus, Conn!NoBus, Conn!OpenBus, Msgs!Open, Msgs!ConnectFails, Msgs!disp_vars
  <1>3. ASSUME NEW t \in Callers, StartDispatch(t)
        PROVE  HandlerInv'
    <2>1. dpc # "handler"
      BY <1>3 DEF StartDispatch, Conn!StartDispatch, OwnerInv, Conn!ConnectSteps
    <2> QED
      BY <1>3, <1>keep, <2>1 DEF StartDispatch, Msgs!Connected, Msgs!disp_vars
  <1>4. ASSUME NEW t \in Callers,
               CancelPending(t) \/ UnrefPending(t) \/ ClearPending(t) \/ Release(t)
        PROVE  HandlerInv'
    BY <1>4, <1>keep
       DEF CancelPending, UnrefPending, ClearPending, Release, Conn!CancelPending,
           Conn!UnrefPending, Conn!ClearPending, Conn!Release, Msgs!CancelAll, Msgs!SkipCancel,
           Msgs!UnrefAll, Msgs!ClearAll, Msgs!Release, Msgs!disp_vars
  <1>5. ASSUME NEW t \in Callers, Lifecycle(t)
        PROVE  HandlerInv'
    BY <1>5, <1>keep
       DEF Lifecycle, Conn!NoPollFd, Conn!StartIo, Conn!Flush, Conn!Unhook, Conn!StopIo,
           Conn!JoinIo, Conn!StopDispatch, Conn!JoinDispatch, Conn!WakeMain,
           Conn!NotifyDispatcher, call_vars
  <1>6. ASSUME NEW c \in Calls, Check(c) \/ SendWithReply(c) \/ Sending(c) \/ SpuriousReturn(c)
        PROVE  HandlerInv'
    BY <1>6, <1>keep
       DEF Check, SendWithReply, Sending, SpuriousReturn, Msgs!Check, Msgs!SendWithReply,
           Msgs!SendLock, Msgs!SendRefused, Msgs!SendWithoutCtx, Msgs!SetNotify, Msgs!Emplace, Msgs!WaitTest,
           Msgs!WaitPark, Msgs!SpuriousWakeup, Msgs!disp_vars, conn_vars
  <1>7. CASE IoThread \/ Receive
    BY <1>7, <1>keep
       DEF IoThread, Receive, Conn!IoTest, Conn!IoTimeout, Conn!IoEvent, Conn!IoHandled,
           Conn!Receive, Conn!WakeMain, Conn!NotifyDispatcher, Reply, Msgs!Reply, Msgs!disp_vars, call_vars
  <1>8. CASE DispatchThread \/ FailPending
    BY <1>8, <1>keep
       DEF DispatchThread, FailPending, Conn!LoopTest, Conn!Predicate, Conn!Park,
           Conn!DrainTest, Conn!FailPending, Reply, Msgs!Reply, Msgs!disp_vars, call_vars
  <1>9. CASE Dispatch
    BY <1>9 DEF Dispatch, Conn!Dispatch, Msgs!Dispatch, Msgs!DispatchOther, HandlerInv
  <1>10. CASE Handling
    BY <1>10
       DEF Handling, conn_vars, HandlerInv, Msgs!ReadNotify, Msgs!OnPendingCall, Msgs!Invoke,
           Msgs!Wake, Msgs!CallbackReturns
  <1>11. CASE Handled
    BY <1>11, <1>keep DEF Handled, call_vars
  <1>12. CASE Environment
    BY <1>12, <1>keep
       DEF Environment, Conn!SpuriousWakeup, Conn!BusDrop, Conn!WakeMain,
           Conn!NotifyDispatcher, call_vars
  <1>13. CASE UNCHANGED vars
    BY <1>13, <1>keep DEF vars, conn_vars, call_vars
  <1> QED
    BY <1>1, <1>2, <1>3, <1>4, <1>5, <1>6, <1>7, <1>8, <1>9, <1>10, <1>11, <1>12, <1>13
       DEF Next, Caller, Callers

LEMMA InitInv == Init => IInv
  <1> SUFFICES ASSUME Init
               PROVE  IInv
    OBVIOUS
  <1> USE DEF Init, Conn!Init, Msgs!Init
  <1>1. pc = [t \in Callers |-> "idle"]
    BY DEF Conn!Callers, Callers
  <1>2. Conn!OneOwner
    BY <1>1 DEF Conn!OneOwner, Conn!Busy, Conn!Callers, Callers
  <1>3. OwnerInv
    BY <1>1, <1>2 DEF OwnerInv, Conn!ConnectSteps, Undoing, Conn!TeardownSteps
  <1> QED
    BY <1>3 DEF IInv, HandlerInv

LEMMA NextInv == IInv /\ [Next]_vars => IInv'
  BY StepOfConnection, OwnerKept, HandlerKept DEF IInv

LEMMA Invariant == Spec => []IInv
  BY InitInv, NextInv, PTL DEF Spec

\* The composition is a Connection and a PendingCalls at once, whatever its
\* threads, its calls and who sends them: the teardown that Connection describes
\* is, at each of its points, the one that PendingCalls allows for.
THEOREM IsThePartsHolds == Spec => IsTheParts
  <1>1. Init => Conn!Init /\ Msgs!Init
    BY DEF Init
  <1>2. IInv /\ [Next]_vars => [Conn!Next]_(Conn!vars)
    BY StepOfConnection
  <1>3. IInv /\ [Next]_vars => [Msgs!Next]_(Msgs!vars)
    BY StepOfCalls DEF IInv
  <1> QED
    BY <1>1, <1>2, <1>3, Invariant, PTL DEF Spec, IsTheParts, IsConnection, IsPendingCalls

\* After disconnect () the dispatch thread is joined and holds no call: no
\* callback runs or is on its way, whichever thread tore the connection down.
THEOREM QuietAfterDisconnectHolds == Spec => []QuietAfterDisconnect
  <1>1. IInv => QuietAfterDisconnect
    BY DEF IInv, OwnerInv, HandlerInv, QuietAfterDisconnect
  <1> QED
    BY <1>1, Invariant, PTL

-----------------------------------------------------------------------------
(* What is proved of the parts, for the whole.  The modules of their proofs  *)
(* are instantiated here, which gives each definition of the parts a second  *)
(* name; that the two names mean the same is all that is left to show.       *)

ConnProofs == INSTANCE Connection_proofs
\* Nothing is said here of the history that CallsHistory keeps: the composition has
\* no such variable.
MsgsProofs == INSTANCE PendingCalls_proofs WITH MayDisconnect <- TRUE, overtaken <- {}

\* Initial states and steps of the lifecycle, by either name.
LEMMA SameConnection ==
  /\ ConnProofs!Init <=> Conn!Init
  /\ [ConnProofs!Next]_(ConnProofs!vars) <=> [Conn!Next]_(Conn!vars)
  BY DEF ConnProofs!Callers, Conn!Callers, ConnProofs!own, Conn!own, ConnProofs!stop, Conn!stop,
         ConnProofs!libdbus, Conn!libdbus, ConnProofs!vars, Conn!vars, ConnProofs!Init, Conn!Init,
         ConnProofs!Goto, Conn!Goto, ConnProofs!CanCall, Conn!CanCall, ConnProofs!NotifyDispatcher,
         Conn!NotifyDispatcher, ConnProofs!WakeMain, Conn!WakeMain, ConnProofs!Connect,
         Conn!Connect, ConnProofs!NoPollFd, Conn!NoPollFd, ConnProofs!BeginTeardown,
         Conn!BeginTeardown, ConnProofs!NoBus, Conn!NoBus, ConnProofs!OpenBus, Conn!OpenBus,
         ConnProofs!StartIo, Conn!StartIo, ConnProofs!StartDispatch, Conn!StartDispatch,
         ConnProofs!IsConnected, Conn!IsConnected, ConnProofs!Disconnect, Conn!Disconnect,
         ConnProofs!CancelPending, Conn!CancelPending, ConnProofs!Flush, Conn!Flush,
         ConnProofs!Unhook, Conn!Unhook, ConnProofs!UnrefPending, Conn!UnrefPending,
         ConnProofs!ClearPending, Conn!ClearPending, ConnProofs!StopIo, Conn!StopIo,
         ConnProofs!JoinIo, Conn!JoinIo, ConnProofs!StopDispatch, Conn!StopDispatch,
         ConnProofs!JoinDispatch, Conn!JoinDispatch, ConnProofs!Release, Conn!Release,
         ConnProofs!IoTest, Conn!IoTest, ConnProofs!IoTimeout, Conn!IoTimeout, ConnProofs!IoEvent,
         Conn!IoEvent, ConnProofs!Receive, Conn!Receive, ConnProofs!IoHandled, Conn!IoHandled,
         ConnProofs!BusDrop, Conn!BusDrop, ConnProofs!LoopTest, Conn!LoopTest, ConnProofs!Predicate,
         Conn!Predicate, ConnProofs!Park, Conn!Park, ConnProofs!SpuriousWakeup, Conn!SpuriousWakeup,
         ConnProofs!DrainTest, Conn!DrainTest, ConnProofs!Dispatch, Conn!Dispatch,
         ConnProofs!FailPending, Conn!FailPending, ConnProofs!Handled, Conn!Handled,
         ConnProofs!Connecting, Conn!Connecting, ConnProofs!TearingDown, Conn!TearingDown,
         ConnProofs!Call, Conn!Call, ConnProofs!IoThread, Conn!IoThread, ConnProofs!DispatchThread,
         Conn!DispatchThread, ConnProofs!Next, Conn!Next

\* Initial states and steps of the calls, by either name.
LEMMA SameCalls ==
  /\ MsgsProofs!Init <=> Msgs!Init
  /\ [MsgsProofs!Next]_(MsgsProofs!vars) <=> [Msgs!Next]_(Msgs!vars)
  BY DEF MsgsProofs!send_vars, Msgs!send_vars, MsgsProofs!disp_vars, Msgs!disp_vars,
         MsgsProofs!history, Msgs!history, MsgsProofs!conn_vars, Msgs!conn_vars, MsgsProofs!vars,
         Msgs!vars, MsgsProofs!SendSteps, Msgs!SendSteps, MsgsProofs!WaitSteps, Msgs!WaitSteps,
         MsgsProofs!Init, Msgs!Init, MsgsProofs!Goto, Msgs!Goto, MsgsProofs!Unref, Msgs!Unref,
         MsgsProofs!InProgress, Msgs!InProgress, MsgsProofs!Check, Msgs!Check, MsgsProofs!SendLock,
         Msgs!SendLock, MsgsProofs!SendWithReply, Msgs!SendWithReply, MsgsProofs!SendRefused,
         Msgs!SendRefused, MsgsProofs!SendWithoutCtx, Msgs!SendWithoutCtx, MsgsProofs!SetNotify, Msgs!SetNotify, MsgsProofs!Emplace, Msgs!Emplace,
         MsgsProofs!WaitTest, Msgs!WaitTest, MsgsProofs!WaitPark, Msgs!WaitPark,
         MsgsProofs!SpuriousWakeup, Msgs!SpuriousWakeup, MsgsProofs!Unnoticed, Msgs!Unnoticed, MsgsProofs!Reply, Msgs!Reply,
         MsgsProofs!Rouse, Msgs!Rouse,
         MsgsProofs!Dispatch, Msgs!Dispatch, MsgsProofs!DispatchOther, Msgs!DispatchOther,
         MsgsProofs!ReadNotify, Msgs!ReadNotify, MsgsProofs!OnPendingCall, Msgs!OnPendingCall,
         MsgsProofs!Invoke, Msgs!Invoke, MsgsProofs!Wake, Msgs!Wake, MsgsProofs!CallbackReturns,
         Msgs!CallbackReturns, MsgsProofs!Open, Msgs!Open, MsgsProofs!Connected, Msgs!Connected,
         MsgsProofs!ConnectFails, Msgs!ConnectFails, MsgsProofs!Leave, Msgs!Leave,
         MsgsProofs!CancelAll, Msgs!CancelAll, MsgsProofs!SkipCancel, Msgs!SkipCancel,
         MsgsProofs!UnrefAll, Msgs!UnrefAll, MsgsProofs!ClearAll, Msgs!ClearAll, MsgsProofs!Release,
         Msgs!Release, MsgsProofs!Sending, Msgs!Sending, MsgsProofs!Dispatching, Msgs!Dispatching,
         MsgsProofs!TearingDown, Msgs!TearingDown, MsgsProofs!Next, Msgs!Next

\* The invariant of the lifecycle holds of the composition.
LEMMA LifecycleOfParts == Spec => []ConnProofs!Lifecycle
  <1>1. ConnProofs!Init /\ [][ConnProofs!Next]_(ConnProofs!vars) => []ConnProofs!Lifecycle
    BY ConnectionAssumption, ConnProofs!SafeLifecycle
  <1> QED
    BY <1>1, SameConnection, IsThePartsHolds, PTL DEF IsTheParts, IsConnection

\* PendingCalls may be instantiated as it is here.
LEMMA CallsOfParts ==
  /\ SyncCalls \subseteq Calls
  /\ SilentCalls \subseteq Calls \ SyncCalls
  /\ CallbackCalls \subseteq Calls
  /\ NoCall \notin Calls
  /\ TRUE \in BOOLEAN
  BY CallsAssumption DEF CallbackCalls

\* The invariant of the calls holds of the composition.
LEMMA InvariantOfParts == Spec => []MsgsProofs!IInv
  <1>1. MsgsProofs!Init /\ [][MsgsProofs!Next]_(MsgsProofs!vars) => []MsgsProofs!IInv
    BY CallsOfParts, MsgsProofs!SafeInvariant
  <1> QED
    BY <1>1, SameCalls, IsThePartsHolds, PTL DEF IsTheParts, IsPendingCalls

\* While callbacks send and wait, and is_connected in a send tears connections
\* down, one caller at a time is inside connect or disconnect_impl, no thread of
\* the connection outlives its ctx, and rest states are complete or clean.
THEOREM LifecycleOfTheWhole ==
  Spec => [](Conn!OneOwner /\ Conn!ThreadsUseLiveCtx /\ Conn!RestStates)
  <1>1. ConnProofs!Lifecycle =>
          ConnProofs!OneOwner /\ ConnProofs!ThreadsUseLiveCtx /\ ConnProofs!RestStates
    BY DEF ConnProofs!Lifecycle, ConnProofs!RestStates
  <1>2. /\ ConnProofs!OneOwner <=> Conn!OneOwner
        /\ ConnProofs!ThreadsUseLiveCtx <=> Conn!ThreadsUseLiveCtx
        /\ ConnProofs!RestStates <=> Conn!RestStates
    BY DEF ConnProofs!OneOwner, Conn!OneOwner, ConnProofs!Busy, Conn!Busy,
           ConnProofs!Callers, Conn!Callers,
           ConnProofs!ThreadsUseLiveCtx, Conn!ThreadsUseLiveCtx,
           ConnProofs!RestStates, Conn!RestStates,
           ConnProofs!ConnectedIsComplete, Conn!ConnectedIsComplete,
           ConnProofs!DisconnectedIsClean, Conn!DisconnectedIsClean
  <1> QED
    BY <1>1, <1>2, LifecycleOfParts, PTL

\* The calls of a connection whose teardown is the real one: on_pending_call
\* finds its entry, the frame it writes to is there, and what a teardown cleared is
\* never answered.
THEOREM CallsOfTheWhole ==
  Spec => [](Msgs!EntryFound /\ Msgs!FrameAliveAtReply /\ Msgs!SweptIsSilent)
  <1>1. MsgsProofs!IInv =>
          MsgsProofs!EntryFound /\ MsgsProofs!FrameAliveAtReply /\ MsgsProofs!SweptIsSilent
    BY CallsOfParts, MsgsProofs!InvFacts
  <1>2. /\ MsgsProofs!EntryFound <=> Msgs!EntryFound
        /\ MsgsProofs!FrameAliveAtReply <=> Msgs!FrameAliveAtReply
        /\ MsgsProofs!SweptIsSilent <=> Msgs!SweptIsSilent
    BY DEF MsgsProofs!EntryFound, Msgs!EntryFound,
           MsgsProofs!FrameAliveAtReply, Msgs!FrameAliveAtReply,
           MsgsProofs!WaitSteps, Msgs!WaitSteps,
           MsgsProofs!SweptIsSilent, Msgs!SweptIsSilent
  <1> QED
    BY <1>1, <1>2, InvariantOfParts, PTL

\* A reply is handled, and its callback runs, on a ctx that is still there:
\* Release waits for the dispatch thread, and only that thread has calls in hand.
THEOREM CallbacksHaveCtx == Spec => [](opc # "idle" => ctx)
  <1>1. IInv /\ Conn!ThreadsUseLiveCtx => (opc # "idle" => ctx)
    BY DEF IInv, HandlerInv, Conn!ThreadsUseLiveCtx
  <1> QED
    BY <1>1, Invariant, LifecycleOfTheWhole, PTL

\* The calls of the whole keep the promise that CallProtocol states: whatever a
\* teardown does between their steps, an accepted call is answered at most once or
\* dropped, a refused one never answered, and send_and_wait returns an answer.
THEOREM PromiseOfTheWhole == Spec => Msgs!KeepsPromise
  <1>1. MsgsProofs!Init /\ [][MsgsProofs!Next]_(MsgsProofs!vars) => MsgsProofs!KeepsPromise
    BY CallsOfParts, MsgsProofs!SafePromise
  <1>2. /\ MsgsProofs!Promise!Init <=> Msgs!Promise!Init
        /\ [MsgsProofs!Promise!Next]_(MsgsProofs!Promise!vars)
             <=> [Msgs!Promise!Next]_(Msgs!Promise!vars)
    BY DEF MsgsProofs!Promise!Init, Msgs!Promise!Init, MsgsProofs!Promise!Next, Msgs!Promise!Next,
           MsgsProofs!Promise!vars, Msgs!Promise!vars, MsgsProofs!Promise!Become,
           Msgs!Promise!Become, MsgsProofs!Promise!Refuse, Msgs!Promise!Refuse,
           MsgsProofs!Promise!Accept, Msgs!Promise!Accept, MsgsProofs!Promise!Answer,
           Msgs!Promise!Answer, MsgsProofs!Promise!Drop, Msgs!Promise!Drop,
           MsgsProofs!Promise!Return, Msgs!Promise!Return, MsgsProofs!status, Msgs!status,
           MsgsProofs!returned, Msgs!returned, MsgsProofs!Status, Msgs!Status, MsgsProofs!Dropped,
           Msgs!Dropped, MsgsProofs!WaitSteps, Msgs!WaitSteps
  <1> QED
    BY <1>1, <1>2, SameCalls, IsThePartsHolds, PTL
       DEF IsTheParts, IsPendingCalls, MsgsProofs!KeepsPromise, Msgs!KeepsPromise,
           MsgsProofs!Promise!Spec, Msgs!Promise!Spec

-----------------------------------------------------------------------------
(* Three of the four things that TeardownEnds excepts: each is for good.     *)
(* The fourth is the send without ctx, after which nothing is known.         *)

\* The dispatch thread sleeps through its stop, has joined itself, or waits in
\* a callback for a reply that it would have to dispatch.
Stuck == Conn!SleepsThroughStop \/ pc[Dispatcher] = "threw" \/ DispatcherWaits

\* A callback that waits for a reply keeps the dispatch thread in its handler.
LEMMA WaitOfTheWhole ==
  Spec => [](DispatcherWaits => opc = "callback") /\ [][DispatcherWaits => DispatcherWaits']_vars
  <1>1. MsgsProofs!Init /\ [][MsgsProofs!Next]_(MsgsProofs!vars) =>
          /\ [][MsgsProofs!WaitsForItself =>
                  MsgsProofs!WaitsForItself' /\ opc' = "callback"]_(MsgsProofs!vars)
          /\ []MsgsProofs!CallbackInv
    BY CallsOfParts, MsgsProofs!SafeWait, MsgsProofs!SafeCallback, PTL
  <1>2. MsgsProofs!WaitsForItself <=> DispatcherWaits
    BY DEF MsgsProofs!WaitsForItself, DispatcherWaits, MsgsProofs!WaitSteps, Msgs!WaitSteps
  <1>3. (MsgsProofs!WaitsForItself <=> DispatcherWaits)'
    BY DEF MsgsProofs!WaitsForItself, DispatcherWaits, MsgsProofs!WaitSteps, Msgs!WaitSteps
  <1>4. MsgsProofs!CallbackInv /\ DispatcherWaits => opc = "callback"
    BY CallsAssumption
       DEF MsgsProofs!CallbackInv, DispatcherWaits, MsgsProofs!InProgress, Msgs!WaitSteps,
           MsgsProofs!WaitSteps
  <1>5. UNCHANGED MsgsProofs!vars /\ DispatcherWaits => DispatcherWaits'
    BY DEF MsgsProofs!vars, MsgsProofs!send_vars, DispatcherWaits
  <1>6. [MsgsProofs!WaitsForItself =>
           MsgsProofs!WaitsForItself' /\ opc' = "callback"]_(MsgsProofs!vars)
        => [DispatcherWaits => DispatcherWaits']_vars
    BY <1>2, <1>3, <1>5
  <1> QED
    BY <1>1, <1>4, <1>6, SameCalls, IsThePartsHolds, PTL DEF IsTheParts, IsPendingCalls

\* In the whole too send_and_wait called in a callback never returns, and one whose
\* call a teardown dropped waits for ever: no other thread, no bus that goes away
\* and no later connect () answers either.
THEOREM WaitersOfTheWhole ==
  Spec => /\ []MsgsProofs!NeverReturns
          /\ [][\A c \in SyncCalls : MsgsProofs!LeftBehind(c) => MsgsProofs!LeftBehind(c)']_vars
  <1> DEFINE Stays == \A c \in SyncCalls : MsgsProofs!LeftBehind(c) => MsgsProofs!LeftBehind(c)'
  <1>1. MsgsProofs!Init /\ [][MsgsProofs!Next]_(MsgsProofs!vars) =>
          /\ []MsgsProofs!IInv
          /\ []MsgsProofs!CallbackInv
          /\ [][Stays]_(MsgsProofs!vars)
    BY CallsOfParts, MsgsProofs!SafeInvariant, MsgsProofs!SafeCallback, MsgsProofs!SafeLeftBehind
  <1>2. MsgsProofs!IInv /\ MsgsProofs!CallbackInv => MsgsProofs!NeverReturns
    BY CallsOfParts, MsgsProofs!CallbackFacts
  <1>3. UNCHANGED MsgsProofs!vars => Stays
    BY DEF MsgsProofs!LeftBehind, MsgsProofs!Status, MsgsProofs!Dropped, MsgsProofs!vars,
           MsgsProofs!send_vars, MsgsProofs!history, MsgsProofs!disp_vars
  <1> HIDE DEF Stays
  <1>4. [Stays]_(MsgsProofs!vars) => [Stays]_vars
    BY <1>3
  <1>5. Spec => []MsgsProofs!NeverReturns /\ [][Stays]_vars
    BY <1>1, <1>2, <1>4, SameCalls, IsThePartsHolds, PTL DEF IsTheParts, IsPendingCalls
  <1> QED
    BY <1>5 DEF Stays

\* A dispatch thread that joined itself or sleeps through its stop is not helped
\* by the calls of other threads either.
LEMMA HungOfTheWhole ==
  Spec => /\ [](ConnProofs!Hung => conn_state = "disconnecting")
          /\ [][ConnProofs!Hung /\ ~Conn!SpuriousWakeup => ConnProofs!Hung']_vars
  <1>1. ConnProofs!Init /\ [][ConnProofs!Next]_(ConnProofs!vars) =>
          /\ [](ConnProofs!Hung => conn_state = "disconnecting")
          /\ [][ConnProofs!Hung /\ ~ConnProofs!SpuriousWakeup
                  => ConnProofs!Hung']_(ConnProofs!vars)
    BY ConnectionAssumption, ConnProofs!SafeHung
  <1>2. ConnProofs!SpuriousWakeup <=> Conn!SpuriousWakeup
    BY DEF ConnProofs!SpuriousWakeup, Conn!SpuriousWakeup, ConnProofs!own, Conn!own,
           ConnProofs!stop, Conn!stop, ConnProofs!libdbus, Conn!libdbus
  <1>3. UNCHANGED ConnProofs!vars /\ ConnProofs!Hung => ConnProofs!Hung'
    BY DEF ConnProofs!vars, ConnProofs!stop, ConnProofs!Hung, ConnProofs!SleepsThroughStop
  <1>4. [ConnProofs!Hung /\ ~ConnProofs!SpuriousWakeup => ConnProofs!Hung']_(ConnProofs!vars)
        => [ConnProofs!Hung /\ ~Conn!SpuriousWakeup => ConnProofs!Hung']_vars
    BY <1>2, <1>3
  <1> QED
    BY <1>1, <1>4, SameConnection, IsThePartsHolds, PTL DEF IsTheParts, IsConnection

\* While the dispatch thread is in a handler the teardown gets as far as the join.
LEMMA NotReleased ==
  ASSUME OwnerInv, [Conn!Next]_(Conn!vars), conn_state = "disconnecting", dpc # "none"
  PROVE  conn_state' = "disconnecting"
  <1> USE DEF Conn!own, OwnerInv
  <1>1. ASSUME NEW t \in Callers, Conn!Call(t) \/ Conn!Connecting(t)
        PROVE  FALSE
    BY <1>1
       DEF Conn!Call, Conn!Connect, Conn!IsConnected, Conn!Disconnect, Conn!Connecting,
           Conn!NoPollFd, Conn!NoBus, Conn!OpenBus, Conn!StartIo, Conn!StartDispatch,
           Conn!ConnectSteps
  <1>2. ASSUME NEW t \in Callers, Conn!TearingDown(t)
        PROVE  conn_state' = "disconnecting"
    <2>1. ~Conn!Release(t)
      BY DEF Conn!Release
    <2> QED
      BY <1>2, <2>1
         DEF Conn!TearingDown, Conn!CancelPending, Conn!Flush, Conn!Unhook, Conn!UnrefPending,
             Conn!ClearPending, Conn!StopIo, Conn!JoinIo, Conn!StopDispatch, Conn!JoinDispatch
  <1>3. CASE Conn!IoThread \/ Conn!DispatchThread \/ Conn!SpuriousWakeup \/ Conn!BusDrop
    BY <1>3
       DEF Conn!IoThread, Conn!IoTest, Conn!IoTimeout, Conn!IoEvent, Conn!Receive,
           Conn!IoHandled, Conn!DispatchThread, Conn!LoopTest, Conn!Predicate, Conn!Park,
           Conn!DrainTest, Conn!Dispatch, Conn!FailPending, Conn!Handled, Conn!SpuriousWakeup,
           Conn!BusDrop
  <1>4. CASE UNCHANGED Conn!vars
    BY <1>4 DEF Conn!vars
  <1> QED
    BY <1>1, <1>2, <1>3, <1>4 DEF Conn!Next, Conn!Callers, Callers

\* In three of its exceptions TeardownEnds excepts nothing that could still end:
\* once one of the three holds, one of them holds for ever, and a teardown that has begun
\* or begins then does not get to "disconnected".  Only a spurious wakeup of
\* dispatch_cond can end the first.
THEOREM StuckForGood ==
  Spec => [][Stuck /\ ~Conn!SpuriousWakeup =>
               Stuck' /\ (conn_state = "disconnecting" => conn_state' = "disconnecting")]_vars
  <1> DEFINE Waits == [DispatcherWaits => DispatcherWaits']_vars
             WaitState == DispatcherWaits => opc = "callback"
             Hangs == [ConnProofs!Hung /\ ~Conn!SpuriousWakeup => ConnProofs!Hung']_vars
             HungState == ConnProofs!Hung => conn_state = "disconnecting"
             Claim == Stuck /\ ~Conn!SpuriousWakeup =>
                        Stuck' /\ (conn_state = "disconnecting" => conn_state' = "disconnecting")
  <1>1. Stuck <=> ConnProofs!Hung \/ DispatcherWaits
    BY DEF Stuck, ConnProofs!Hung, ConnProofs!SleepsThroughStop, Conn!SleepsThroughStop
  <1>2. Stuck' <=> ConnProofs!Hung' \/ DispatcherWaits'
    BY DEF Stuck, ConnProofs!Hung, ConnProofs!SleepsThroughStop, Conn!SleepsThroughStop
  <1>3. ASSUME IInv, [Next]_vars, HungState, HungState', WaitState, Waits, Hangs
        PROVE  [Claim]_vars
    <2> SUFFICES ASSUME ~(UNCHANGED vars), Stuck, ~Conn!SpuriousWakeup
                 PROVE  /\ Stuck'
                        /\ conn_state = "disconnecting" => conn_state' = "disconnecting"
      OBVIOUS
    <2>1. CASE ConnProofs!Hung
      <3>1. ConnProofs!Hung'
        BY <1>3, <2>1
      <3> QED
        BY <1>2, <1>3, <3>1
    <2>2. CASE DispatcherWaits
      <3>1. DispatcherWaits' /\ opc = "callback"
        BY <1>3, <2>2
      <3>2. dpc = "handler"
        BY <1>3, <3>1 DEF IInv, HandlerInv
      <3>3. [Conn!Next]_(Conn!vars)
        BY <1>3, StepOfConnection
      <3>4. conn_state = "disconnecting" => conn_state' = "disconnecting"
        BY <1>3, <3>2, <3>3, NotReleased DEF IInv
      <3> QED
        BY <1>2, <3>1, <3>4
    <2> QED
      BY <1>1, <2>1, <2>2
  <1>4. IInv /\ [Next]_vars /\ HungState /\ HungState' /\ WaitState /\ Waits /\ Hangs
          => [Claim]_vars
    BY <1>3
  <1>5. Spec => []HungState /\ []WaitState /\ [][Waits]_vars /\ [][Hangs]_vars
    BY WaitOfTheWhole, HungOfTheWhole, PTL
  <1> QED
    BY <1>4, <1>5, Invariant, PTL DEF Spec
=============================================================================
