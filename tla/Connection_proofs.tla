------------------------- MODULE Connection_proofs -------------------------
(***************************************************************************)
(* Proofs about Connection, for any set of threads and any bound on the    *)
(* queue: its types, and the safety invariants of the lifecycle.           *)
(*                                                                         *)
(* The invariants are not inductive: that disconnect leaves no thread      *)
(* behind depends on where in the teardown its caller is.  Ownership says  *)
(* who may be in connect or disconnect_impl in which state, Stage what the *)
(* threads, flags and functions are at each of its program points.         *)
(***************************************************************************)
EXTENDS Connection, TLAPS

\* libdbus queues the local Disconnected message on top of what it received.
QueueBound == is_open => incoming <= MaxIncoming

Types == TypeOK /\ QueueBound

IoRuns       == io_pc \notin {"none", "exited"}
DispatchRuns == dpc \notin {"none", "exited"}

NoThreads ==
  io_pc = "none" /\ dpc = "none" /\ stop_io_thread /\ stop_dispatch_thread

Running ==
  ctx /\ IoRuns /\ DispatchRuns /\ ~stop_io_thread /\ ~stop_dispatch_thread

\* A caller holds the mutex in connect only, and is inside connect or
\* disconnect_impl only in the state that this function sets.
Ownership(t) ==
  /\ pc[t] \in ConnectSteps => conn_state = "connecting" /\ conn_state_mutex = t
  /\ pc[t] \in TeardownSteps \cup {"threw"} => conn_state = "disconnecting"

\* What a caller at program point p has made so far, or not yet undone.
Stage(p) ==
  /\ p = "open" => ~ctx /\ ~hooks /\ ~private_connection /\ NoThreads
  /\ p = "start" => ctx /\ ~hooks /\ NoThreads
  /\ p = "start_dispatch" =>
       /\ ctx /\ hooks /\ IoRuns /\ ~stop_io_thread
       /\ dpc = "none" /\ stop_dispatch_thread
  /\ p \in {"cancel", "flush", "unhook"} =>
       IF hooks THEN Running ELSE NoThreads
  /\ p \in {"flush", "unhook"} => ctx
  /\ p \in {"unref", "clear", "stop_io"} => ~hooks /\ (Running \/ NoThreads)
  /\ p = "join_io" =>
       /\ ~hooks /\ stop_io_thread
       /\ \/ ctx /\ DispatchRuns /\ ~stop_dispatch_thread
          \/ NoThreads
  /\ p = "stop_dispatch" =>
       /\ ~hooks /\ stop_io_thread /\ io_pc = "none"
       /\ \/ ctx /\ DispatchRuns /\ ~stop_dispatch_thread
          \/ NoThreads
  /\ p \in {"join_dispatch", "threw"} =>
       ~hooks /\ stop_io_thread /\ io_pc = "none" /\ stop_dispatch_thread
  /\ p = "release" => ~hooks /\ NoThreads

Lifecycle ==
  /\ OneOwner
  /\ \A t \in Callers : Ownership(t)
  /\ \A t \in Callers : Stage(pc[t])
  /\ ConnectedIsComplete
  /\ DisconnectedIsClean
  /\ ThreadsUseLiveCtx

-----------------------------------------------------------------------------
\* The lemmas of this module whose names begin with Safe say what holds without
\* fairness; a composition that takes steps of Connection can cite them.  The
\* first: every variable keeps its type, and libdbus' queue its bound.
LEMMA SafeTypes == Init /\ [][Next]_vars => []Types
<1> USE MaxIncomingAssumption
<1>0. NoThread \notin Callers
  BY NoThreadAssumption DEF Callers
<1> USE <1>0
<1>1. Init => Types
  <2> SUFFICES ASSUME Init PROVE Types
    OBVIOUS
  <2>1. /\ ctx \in BOOLEAN /\ private_connection \in BOOLEAN
        /\ is_open \in BOOLEAN /\ hooks \in BOOLEAN
        /\ stop_io_thread \in BOOLEAN /\ stop_dispatch_thread \in BOOLEAN
    BY DEF Init
  <2>2. pc \in [Callers -> {"idle", "threw"} \cup ConnectSteps \cup TeardownSteps]
    BY DEF Init
  <2>3. \A t \in Callers : conn_state_mutex # t /\ pc[t] \notin ConnectSteps
    BY DEF Init, ConnectSteps
  <2> QED
    BY <2>1, <2>2, <2>3 DEF Init, Types, TypeOK, QueueBound, ConnStates, IoSteps, DispatchSteps
<1>2. ASSUME Types, [Next]_vars
      PROVE  Types'
  <2> USE <1>2 DEF Types, TypeOK, QueueBound, ConnStates, ConnectSteps,
                   TeardownSteps, IoSteps, DispatchSteps, Goto
  <2>1. ASSUME NEW t \in Callers, Connect(t)
        PROVE  Types'
    BY <2>1 DEF Connect, own, stop, libdbus
  <2>2. ASSUME NEW t \in Callers, IsConnected(t)
        PROVE  Types'
    BY <2>2 DEF IsConnected, own, stop, libdbus, BeginTeardown
  <2>3. ASSUME NEW t \in Callers, Disconnect(t)
        PROVE  Types'
    BY <2>3 DEF Disconnect, own, stop, libdbus, BeginTeardown
  <2>4. ASSUME NEW t \in Callers, NoPollFd(t)
        PROVE  Types'
    BY <2>4 DEF NoPollFd, own, stop, libdbus
  <2>5. ASSUME NEW t \in Callers, NoBus(t)
        PROVE  Types'
    BY <2>5 DEF NoBus, own, stop, libdbus, BeginTeardown
  <2>6. ASSUME NEW t \in Callers, OpenBus(t)
        PROVE  Types'
    BY <2>6 DEF OpenBus, own, stop, libdbus, BeginTeardown
  <2>7. ASSUME NEW t \in Callers, StartIo(t)
        PROVE  Types'
    BY ZenonT(40), <2>7 DEF StartIo, own, stop, libdbus
  <2>8. ASSUME NEW t \in Callers, StartDispatch(t)
        PROVE  Types'
    BY <2>8 DEF StartDispatch, own, stop, libdbus
  <2>9. ASSUME NEW t \in Callers, CancelPending(t)
        PROVE  Types'
    BY <2>9 DEF CancelPending, own, stop, libdbus
  <2>10. ASSUME NEW t \in Callers, Flush(t)
        PROVE  Types'
    <3>1. is_open' \in BOOLEAN
      BY <2>10 DEF Flush
    <3>2. incoming' \in 0..(MaxIncoming + 1) /\ (is_open' => incoming' <= MaxIncoming)
      <4>1. CASE ~is_open
        BY <4>1, <2>10 DEF Flush
      <4>2. CASE is_open
        <5>1. PICK n \in incoming..MaxIncoming :
                incoming' = IF private_connection THEN n + 1 ELSE n
          BY <4>2, <2>10 DEF Flush
        <5>2. is_open' = ~private_connection
          BY <4>2, <2>10 DEF Flush
        <5>3. CASE private_connection
          <6>1. ~is_open'
            BY <5>2, <5>3
          <6> QED
            BY <5>1, <5>3, <6>1
        <5>4. CASE ~private_connection
          BY <5>1, <5>4
        <5> QED
          BY <5>3, <5>4
      <4> QED
        BY <4>1, <4>2
    <3>3. dpc' \in DispatchSteps
      BY <2>10 DEF Flush, WakeMain, NotifyDispatcher
    <3>4. /\ UNCHANGED <<own, stop, io_pc, hooks>>
          /\ pc' = [pc EXCEPT ![t] = "unhook"]
      BY <2>10 DEF Flush
    <3>5. \A s \in Callers : conn_state_mutex' = s <=> pc'[s] \in ConnectSteps
      BY <2>10, <3>4 DEF Flush, own
    <3> QED
      BY <3>1, <3>2, <3>3, <3>4, <3>5 DEF own, stop
  <2>11. ASSUME NEW t \in Callers, Unhook(t)
        PROVE  Types'
    <3>1. hooks' \in BOOLEAN
      BY <2>11 DEF Unhook
    <3> QED
      BY <2>11, <3>1 DEF Unhook, own, stop, libdbus
  <2>12. ASSUME NEW t \in Callers, UnrefPending(t)
        PROVE  Types'
    BY <2>12 DEF UnrefPending, own, stop, libdbus
  <2>13. ASSUME NEW t \in Callers, ClearPending(t)
        PROVE  Types'
    BY <2>13 DEF ClearPending, own, stop, libdbus
  <2>14. ASSUME NEW t \in Callers, StopIo(t)
        PROVE  Types'
    BY <2>14 DEF StopIo, own, stop, libdbus
  <2>15. ASSUME NEW t \in Callers, JoinIo(t)
        PROVE  Types'
    BY <2>15 DEF JoinIo, own, stop, libdbus
  <2>16. ASSUME NEW t \in Callers, StopDispatch(t)
        PROVE  Types'
    BY <2>16 DEF StopDispatch, own, stop, libdbus, NotifyDispatcher
  <2>17. ASSUME NEW t \in Callers, JoinDispatch(t)
        PROVE  Types'
    BY <2>17 DEF JoinDispatch, own, stop, libdbus
  <2>18. ASSUME NEW t \in Callers, Release(t)
        PROVE  Types'
    <3>1. ctx' \in BOOLEAN /\ private_connection' \in BOOLEAN /\ is_open' \in BOOLEAN
      BY <2>18 DEF Release
    <3> QED
      BY <2>18, <3>1 DEF Release, own, stop, libdbus
  <2>19. CASE IoTest
    BY <2>19 DEF IoTest, own, stop, libdbus
  <2>20. CASE IoTimeout
    BY <2>20 DEF IoTimeout, own, stop, libdbus
  <2>21. CASE IoEvent
    BY <2>21 DEF IoEvent, own, stop, libdbus
  <2>22. CASE Receive
    BY <2>22 DEF Receive, own, stop, libdbus, WakeMain, NotifyDispatcher
  <2>23. CASE IoHandled
    BY <2>23 DEF IoHandled, own, stop, libdbus, WakeMain, NotifyDispatcher
  <2>24. CASE LoopTest
    BY <2>24 DEF LoopTest, own, stop, libdbus
  <2>25. CASE Predicate
    BY <2>25 DEF Predicate, own, stop, libdbus
  <2>26. CASE Park
    BY <2>26 DEF Park, own, stop, libdbus
  <2>27. CASE DrainTest
    BY <2>27 DEF DrainTest, own, stop, libdbus
  <2>28. CASE Dispatch
    BY <2>28 DEF Dispatch, own, stop, libdbus
  <2>29. CASE Handled
    BY <2>29 DEF Handled, own, stop, libdbus
  <2>30. CASE SpuriousWakeup
    BY <2>30 DEF SpuriousWakeup, own, stop, libdbus
  <2>31. CASE BusDrop
    <3>1. is_open' \in BOOLEAN
      BY <2>31 DEF BusDrop
    <3> QED
      BY <2>31, <3>1 DEF BusDrop, own, stop, libdbus, WakeMain, NotifyDispatcher
  <2>32. CASE FailPending
    BY <2>32 DEF FailPending, own, stop
  <2>33. CASE UNCHANGED vars
    BY <2>33 DEF vars, own, stop, libdbus
  <2> QED
    BY <1>2, <2>1, <2>2, <2>3, <2>4, <2>5, <2>6, <2>7, <2>8, <2>9, <2>10, <2>11,
       <2>12, <2>13, <2>14, <2>15, <2>16, <2>17, <2>18, <2>19, <2>20, <2>21,
       <2>22, <2>23, <2>24, <2>25, <2>26, <2>27, <2>28, <2>29, <2>30, <2>31,
       <2>32, <2>33
       DEF Next, Call, Connecting, TearingDown, IoThread, DispatchThread
<1> QED
  BY <1>1, <1>2, PTL

-----------------------------------------------------------------------------
\* A step of one caller, while every other caller is outside the connection.
LEMMA SoloStep ==
  ASSUME Types,
         NEW t \in Callers, NEW l,
         pc' = [pc EXCEPT ![t] = l],
         \A s \in Callers \ {t} : ~Busy(s),
         l \in ConnectSteps => conn_state' = "connecting" /\ conn_state_mutex' = t,
         l \in TeardownSteps \cup {"threw"} => conn_state' = "disconnecting",
         Stage(l)',
         conn_state' \in {"connected", "disconnected"} => l = "idle",
         conn_state' = "connected" => ctx' /\ hooks' /\ Running',
         conn_state' = "disconnected" =>
           ~ctx' /\ ~hooks' /\ ~private_connection' /\ NoThreads',
         ThreadsUseLiveCtx'
  PROVE  Lifecycle'
<1>1. pc'[t] = l /\ \A s \in Callers \ {t} : pc'[s] = "idle"
  BY DEF Types, TypeOK, Busy
<1>2. OneOwner'
  BY <1>1 DEF OneOwner, Busy
<1>3. \A s \in Callers : Ownership(s)'
  BY <1>1 DEF Ownership, ConnectSteps, TeardownSteps
<1>4. \A s \in Callers : Stage(pc[s])'
  <2> SUFFICES ASSUME NEW s \in Callers PROVE Stage(pc[s])'
    OBVIOUS
  <2>1. CASE s = t
    BY <2>1, <1>1 DEF Stage
  <2>2. CASE s # t
    BY <2>2, <1>1 DEF Stage
  <2> QED
    BY <2>1, <2>2
<1>5. ConnectedIsComplete'
  BY <1>1 DEF ConnectedIsComplete, Running, IoRuns, DispatchRuns, Busy
<1>6. DisconnectedIsClean'
  BY <1>1 DEF DisconnectedIsClean, NoThreads, Busy
<1> QED
  BY <1>2, <1>3, <1>4, <1>5, <1>6 DEF Lifecycle

\* A step of the I/O thread, the dispatch thread or libdbus: threads go on,
\* and end only when told to.
LEMMA QuietStep ==
  ASSUME Lifecycle,
         UNCHANGED <<own, pc, stop, hooks>>,
         io_pc' = "none" <=> io_pc = "none",
         dpc' = "none" <=> dpc = "none",
         IoRuns' => IoRuns,
         DispatchRuns' => DispatchRuns,
         IoRuns /\ ~stop_io_thread => IoRuns',
         DispatchRuns /\ ~stop_dispatch_thread => DispatchRuns'
  PROVE  Lifecycle'
<1> USE DEF own, stop, Lifecycle
<1>1. OneOwner'
  BY DEF OneOwner, Busy
<1>2. \A t \in Callers : Ownership(t)'
  BY DEF Ownership
<1>3. \A t \in Callers : Stage(pc[t])'
  <2> SUFFICES ASSUME NEW t \in Callers PROVE Stage(pc[t])'
    OBVIOUS
  <2>1. Stage(pc[t])
    OBVIOUS
  <2>2. (Running => Running') /\ (NoThreads => NoThreads')
    BY DEF Running, NoThreads
  <2> QED
    BY <2>1, <2>2 DEF Stage
<1>4. ConnectedIsComplete'
  BY DEF ConnectedIsComplete, Busy, IoRuns, DispatchRuns
<1>5. DisconnectedIsClean'
  BY DEF DisconnectedIsClean, Busy
<1>6. ThreadsUseLiveCtx'
  BY DEF ThreadsUseLiveCtx, IoRuns, DispatchRuns
<1> QED
  BY <1>1, <1>2, <1>3, <1>4, <1>5, <1>6

\* The constructor's state is a disconnected one.
LEMMA InitLifecycle == Init => Lifecycle
<1> SUFFICES ASSUME Init PROVE Lifecycle
  OBVIOUS
<1>1. \A t \in Callers : pc[t] = "idle"
  BY DEF Init
<1>2. OneOwner /\ \A t \in Callers : Ownership(t)
  BY <1>1 DEF OneOwner, Ownership, Busy, ConnectSteps, TeardownSteps
<1>3. \A t \in Callers : Stage(pc[t])
  BY <1>1 DEF Stage
<1>4. ConnectedIsComplete /\ DisconnectedIsClean /\ ThreadsUseLiveCtx
  BY <1>1 DEF Init, ConnectedIsComplete, DisconnectedIsClean, ThreadsUseLiveCtx, Busy
<1> QED
  BY <1>2, <1>3, <1>4 DEF Lifecycle

\* Lifecycle is inductive: one step per action.
LEMMA NextLifecycle ==
  ASSUME Types, Types', Lifecycle, [Next]_vars
  PROVE  Lifecycle'
<1> USE DEF Goto, own, stop, libdbus
\* Who is inside connect or disconnect_impl is alone there.
<1>a. ASSUME NEW t \in Callers, Busy(t)
      PROVE  \A s \in Callers \ {t} : ~Busy(s)
  BY <1>a DEF Lifecycle, OneOwner
<1>b. ASSUME conn_state \in {"connected", "disconnected"}
      PROVE  \A s \in Callers : ~Busy(s)
  BY <1>b DEF Lifecycle, ConnectedIsComplete, DisconnectedIsClean
<1>c. ASSUME NEW t \in Callers
      PROVE  Stage(pc[t]) /\ Ownership(t)
  BY DEF Lifecycle
<1>1. ASSUME NEW t \in Callers, Connect(t)
      PROVE  Lifecycle'
  <2>1. \A s \in Callers \ {t} : ~Busy(s)
    BY <1>b, <1>1 DEF Connect
  <2> QED
    BY <1>1, <1>c, <2>1, SoloStep
       DEF Connect, Lifecycle, DisconnectedIsClean,
           Stage, Ownership, ConnectSteps, TeardownSteps, NoThreads, Running,
           IoRuns, DispatchRuns, ThreadsUseLiveCtx
<1>2. ASSUME NEW t \in Callers, IsConnected(t)
      PROVE  Lifecycle'
  <2>1. \A s \in Callers \ {t} : ~Busy(s)
    BY <1>b, <1>2 DEF IsConnected
  <2> QED
    BY <1>2, <1>c, <2>1, SoloStep
       DEF IsConnected, BeginTeardown, Lifecycle, ConnectedIsComplete,
           Stage, Ownership, ConnectSteps, TeardownSteps, NoThreads, Running,
           IoRuns, DispatchRuns, ThreadsUseLiveCtx
<1>3. ASSUME NEW t \in Callers, Disconnect(t)
      PROVE  Lifecycle'
  <2>1. \A s \in Callers \ {t} : ~Busy(s)
    BY <1>b, <1>3 DEF Disconnect
  <2> QED
    BY <1>3, <1>c, <2>1, SoloStep
       DEF Disconnect, BeginTeardown, Lifecycle, ConnectedIsComplete,
           Stage, Ownership, ConnectSteps, TeardownSteps, NoThreads, Running,
           IoRuns, DispatchRuns, ThreadsUseLiveCtx
<1>4. ASSUME NEW t \in Callers, NoPollFd(t)
      PROVE  Lifecycle'
  <2>1. \A s \in Callers \ {t} : ~Busy(s)
    BY <1>a, <1>4 DEF NoPollFd, Busy
  <2> QED
    BY <1>4, <1>c, <2>1, SoloStep
       DEF NoPollFd, Lifecycle,
           Stage, Ownership, ConnectSteps, TeardownSteps, NoThreads, Running,
           IoRuns, DispatchRuns, ThreadsUseLiveCtx
<1>5. ASSUME NEW t \in Callers, NoBus(t)
      PROVE  Lifecycle'
  <2>1. \A s \in Callers \ {t} : ~Busy(s)
    BY <1>a, <1>5 DEF NoBus, Busy
  <2> QED
    BY <1>5, <1>c, <2>1, SoloStep
       DEF NoBus, BeginTeardown, Lifecycle,
           Stage, Ownership, ConnectSteps, TeardownSteps, NoThreads, Running,
           IoRuns, DispatchRuns, ThreadsUseLiveCtx
<1>6. ASSUME NEW t \in Callers, OpenBus(t)
      PROVE  Lifecycle'
  <2>1. \A s \in Callers \ {t} : ~Busy(s)
    BY <1>a, <1>6 DEF OpenBus, Busy
  <2> QED
    BY <1>6, <1>c, <2>1, SoloStep
       DEF OpenBus, BeginTeardown, Lifecycle,
           Stage, Ownership, ConnectSteps, TeardownSteps, NoThreads, Running,
           IoRuns, DispatchRuns, ThreadsUseLiveCtx
<1>7. ASSUME NEW t \in Callers, StartIo(t)
      PROVE  Lifecycle'
  <2>1. \A s \in Callers \ {t} : ~Busy(s)
    BY <1>a, <1>7 DEF StartIo, Busy
  <2> QED
    BY <1>7, <1>c, <2>1, SoloStep
       DEF StartIo, Lifecycle,
           Stage, Ownership, ConnectSteps, TeardownSteps, NoThreads, Running,
           IoRuns, DispatchRuns, ThreadsUseLiveCtx
<1>8. ASSUME NEW t \in Callers, StartDispatch(t)
      PROVE  Lifecycle'
  <2>1. \A s \in Callers \ {t} : ~Busy(s)
    BY <1>a, <1>8 DEF StartDispatch, Busy
  <2> QED
    BY <1>8, <1>c, <2>1, SoloStep
       DEF StartDispatch, Lifecycle,
           Stage, Ownership, ConnectSteps, TeardownSteps, NoThreads, Running,
           IoRuns, DispatchRuns, ThreadsUseLiveCtx
<1>9. ASSUME NEW t \in Callers, CancelPending(t)
      PROVE  Lifecycle'
  <2>1. \A s \in Callers \ {t} : ~Busy(s)
    BY <1>a, <1>9 DEF CancelPending, Busy
  <2> QED
    BY <1>9, <1>c, <2>1, SoloStep
       DEF CancelPending, Lifecycle,
           Stage, Ownership, ConnectSteps, TeardownSteps, NoThreads, Running,
           IoRuns, DispatchRuns, ThreadsUseLiveCtx
<1>10. ASSUME NEW t \in Callers, Flush(t)
      PROVE  Lifecycle'
  <2>1. \A s \in Callers \ {t} : ~Busy(s)
    BY <1>a, <1>10 DEF Flush, Busy
  <2> QED
    BY <1>10, <1>c, <2>1, SoloStep
       DEF Flush, WakeMain, NotifyDispatcher, Lifecycle,
           Stage, Ownership, ConnectSteps, TeardownSteps, NoThreads, Running,
           IoRuns, DispatchRuns, ThreadsUseLiveCtx
<1>11. ASSUME NEW t \in Callers, Unhook(t)
      PROVE  Lifecycle'
  <2>1. \A s \in Callers \ {t} : ~Busy(s)
    BY <1>a, <1>11 DEF Unhook, Busy
  <2> QED
    BY <1>11, <1>c, <2>1, SoloStep
       DEF Unhook, Lifecycle,
           Stage, Ownership, ConnectSteps, TeardownSteps, NoThreads, Running,
           IoRuns, DispatchRuns, ThreadsUseLiveCtx
<1>12. ASSUME NEW t \in Callers, UnrefPending(t)
      PROVE  Lifecycle'
  <2>1. \A s \in Callers \ {t} : ~Busy(s)
    BY <1>a, <1>12 DEF UnrefPending, Busy
  <2> QED
    BY <1>12, <1>c, <2>1, SoloStep
       DEF UnrefPending, Lifecycle,
           Stage, Ownership, ConnectSteps, TeardownSteps, NoThreads, Running,
           IoRuns, DispatchRuns, ThreadsUseLiveCtx
<1>13. ASSUME NEW t \in Callers, ClearPending(t)
      PROVE  Lifecycle'
  <2>1. \A s \in Callers \ {t} : ~Busy(s)
    BY <1>a, <1>13 DEF ClearPending, Busy
  <2> QED
    BY <1>13, <1>c, <2>1, SoloStep
       DEF ClearPending, Lifecycle,
           Stage, Ownership, ConnectSteps, TeardownSteps, NoThreads, Running,
           IoRuns, DispatchRuns, ThreadsUseLiveCtx
<1>14. ASSUME NEW t \in Callers, StopIo(t)
      PROVE  Lifecycle'
  <2>1. \A s \in Callers \ {t} : ~Busy(s)
    BY <1>a, <1>14 DEF StopIo, Busy
  <2> QED
    BY <1>14, <1>c, <2>1, SoloStep
       DEF StopIo, Lifecycle,
           Stage, Ownership, ConnectSteps, TeardownSteps, NoThreads, Running,
           IoRuns, DispatchRuns, ThreadsUseLiveCtx
<1>15. ASSUME NEW t \in Callers, JoinIo(t)
      PROVE  Lifecycle'
  <2>1. \A s \in Callers \ {t} : ~Busy(s)
    BY <1>a, <1>15 DEF JoinIo, Busy
  <2> QED
    BY <1>15, <1>c, <2>1, SoloStep
       DEF JoinIo, Lifecycle,
           Stage, Ownership, ConnectSteps, TeardownSteps, NoThreads, Running,
           IoRuns, DispatchRuns, ThreadsUseLiveCtx
<1>16. ASSUME NEW t \in Callers, StopDispatch(t)
      PROVE  Lifecycle'
  <2>1. \A s \in Callers \ {t} : ~Busy(s)
    BY <1>a, <1>16 DEF StopDispatch, Busy
  <2> QED
    BY <1>16, <1>c, <2>1, SoloStep
       DEF StopDispatch, NotifyDispatcher, Lifecycle,
           Stage, Ownership, ConnectSteps, TeardownSteps, NoThreads, Running,
           IoRuns, DispatchRuns, ThreadsUseLiveCtx
<1>17. ASSUME NEW t \in Callers, JoinDispatch(t)
      PROVE  Lifecycle'
  <2>1. \A s \in Callers \ {t} : ~Busy(s)
    BY <1>a, <1>17 DEF JoinDispatch, Busy
  <2> QED
    BY <1>17, <1>c, <2>1, SoloStep
       DEF JoinDispatch, Lifecycle,
           Stage, Ownership, ConnectSteps, TeardownSteps, NoThreads, Running,
           IoRuns, DispatchRuns, ThreadsUseLiveCtx
<1>18. ASSUME NEW t \in Callers, Release(t)
      PROVE  Lifecycle'
  <2>1. \A s \in Callers \ {t} : ~Busy(s)
    BY <1>a, <1>18 DEF Release, Busy
  <2> QED
    BY <1>18, <1>c, <2>1, SoloStep
       DEF Release, Lifecycle,
           Stage, Ownership, ConnectSteps, TeardownSteps, NoThreads, Running,
           IoRuns, DispatchRuns, ThreadsUseLiveCtx
<1>19. CASE IoTest
  BY <1>19, QuietStep DEF IoTest, IoRuns, DispatchRuns
<1>20. CASE IoTimeout
  BY <1>20, QuietStep DEF IoTimeout, IoRuns, DispatchRuns
<1>21. CASE IoEvent
  BY <1>21, QuietStep DEF IoEvent, IoRuns, DispatchRuns
<1>22. CASE Receive
  BY <1>22, QuietStep DEF Receive, IoRuns, DispatchRuns, WakeMain, NotifyDispatcher
<1>23. CASE IoHandled
  BY <1>23, QuietStep DEF IoHandled, IoRuns, DispatchRuns, WakeMain, NotifyDispatcher
<1>24. CASE LoopTest
  BY <1>24, QuietStep DEF LoopTest, IoRuns, DispatchRuns
<1>25. CASE Predicate
  BY <1>25, QuietStep DEF Predicate, IoRuns, DispatchRuns
<1>26. CASE Park
  BY <1>26, QuietStep DEF Park, IoRuns, DispatchRuns
<1>27. CASE DrainTest
  BY <1>27, QuietStep DEF DrainTest, IoRuns, DispatchRuns
<1>28. CASE Dispatch
  BY <1>28, QuietStep DEF Dispatch, IoRuns, DispatchRuns
<1>29. CASE Handled
  BY <1>29, QuietStep DEF Handled, IoRuns, DispatchRuns
<1>30. CASE SpuriousWakeup
  BY <1>30, QuietStep DEF SpuriousWakeup, IoRuns, DispatchRuns
<1>31. CASE BusDrop
  BY <1>31, QuietStep DEF BusDrop, IoRuns, DispatchRuns, WakeMain, NotifyDispatcher
<1>32. CASE FailPending
  BY <1>32, QuietStep DEF FailPending, IoRuns, DispatchRuns
<1>33. CASE UNCHANGED vars
  BY <1>33, QuietStep DEF vars, IoRuns, DispatchRuns
<1> QED
  BY <1>1, <1>2, <1>3, <1>4, <1>5, <1>6, <1>7, <1>8, <1>9, <1>10, <1>11, <1>12,
     <1>13, <1>14, <1>15, <1>16, <1>17, <1>18, <1>19, <1>20, <1>21, <1>22,
     <1>23, <1>24, <1>25, <1>26, <1>27, <1>28, <1>29, <1>30, <1>31, <1>32, <1>33
     DEF Next, Call, Connecting, TearingDown, IoThread, DispatchThread

\* The inductive invariant of the lifecycle holds in every state.
LEMMA SafeLifecycle == Init /\ [][Next]_vars => []Lifecycle
<1>1. Types /\ Types' /\ Lifecycle /\ [Next]_vars => Lifecycle'
  BY NextLifecycle
<1> QED
  BY InitLifecycle, SafeTypes, <1>1, PTL

\* The same of the specification.
THEOREM LifecycleHolds == Spec => []Lifecycle
  BY SafeLifecycle, PTL DEF Spec

\* Type correctness: every variable keeps its type, and libdbus' queue its bound.
THEOREM TypeCorrect == Spec => []Types
  BY SafeTypes, PTL DEF Spec

\* The part of it that a run checks: every variable keeps its type.
THEOREM TypeOKHolds == Spec => []TypeOK
<1>1. Types => TypeOK
  BY DEF Types
<1> QED
  BY TypeCorrect, <1>1, PTL

\* At most one caller at a time is inside connect or disconnect_impl.
THEOREM OneOwnerHolds == Spec => []OneOwner
<1>1. Lifecycle => OneOwner
  BY DEF Lifecycle
<1> QED
  BY LifecycleHolds, <1>1, PTL

\* No thread of the connection outlives the ctx it works on.
THEOREM ThreadsUseLiveCtxHolds == Spec => []ThreadsUseLiveCtx
<1>1. Lifecycle => ThreadsUseLiveCtx
  BY DEF Lifecycle
<1> QED
  BY LifecycleHolds, <1>1, PTL

\* A connected connection is complete, a disconnected one has nothing left.
THEOREM RestStatesHold == Spec => []RestStates
<1>1. Lifecycle => RestStates
  BY DEF Lifecycle, RestStates
<1> QED
  BY LifecycleHolds, <1>1, PTL

\* What the thread saw when it looked, while it parks and while it sleeps: no stop
\* and, as long as libdbus' functions are in place, no message.
NothingToDo == ~stop_dispatch_thread /\ (hooks => incoming = 0)

SleepInv == dpc \in {"park", "asleep"} => NothingToDo

\* What changes the queue or the stop flag notifies, and that moves a thread that
\* parks or sleeps to another label.
LEMMA NextSleep ==
  ASSUME Types, Lifecycle, SleepInv, [Next]_vars
  PROVE  SleepInv'
<1> USE DEF SleepInv, NothingToDo, own, stop, libdbus
<1>1. CASE UNCHANGED vars
  BY <1>1 DEF vars
<1>2. ASSUME NEW t \in Callers, Call(t)
      PROVE  SleepInv'
  BY <1>2 DEF Call, Connect, IsConnected, Disconnect
<1>3. ASSUME NEW t \in Callers, Connecting(t)
      PROVE  SleepInv'
  \* The dispatch thread does not run yet, or has not looked yet.
  <2>1. Stage(pc[t])
    BY DEF Lifecycle
  <2>2. dpc = "none"
    BY <1>3, <2>1 DEF Connecting, NoPollFd, NoBus, OpenBus, StartIo, StartDispatch, Stage,
                      NoThreads
  <2>3. dpc' \in {"none", "loop"}
    BY <1>3, <2>2 DEF Connecting, NoPollFd, NoBus, OpenBus, StartIo, StartDispatch
  <2> QED
    BY <2>3
<1>4. ASSUME NEW t \in Callers, TearingDown(t)
      PROVE  SleepInv'
  <2>1. CASE Flush(t)
    <3>1. incoming' > incoming \/ incoming' = incoming
      <4>1. CASE is_open
        <5>1. PICK n \in incoming..MaxIncoming :
                incoming' = IF private_connection THEN n + 1 ELSE n
          BY <2>1, <4>1 DEF Flush
        <5>2. incoming \in Nat /\ n \in Nat /\ n >= incoming
          BY MaxIncomingAssumption DEF Types, TypeOK
        <5> QED
          BY <5>1, <5>2
      <4> QED
        BY <2>1, <4>1 DEF Flush
    <3>2. CASE incoming' = incoming
      BY <2>1, <3>2 DEF Flush, WakeMain, NotifyDispatcher
    <3>3. CASE incoming' > incoming
      BY <2>1, <3>3 DEF Flush, WakeMain, NotifyDispatcher
    <3> QED
      BY <3>1, <3>2, <3>3
  <2>2. CASE StopDispatch(t)
    BY <2>2 DEF StopDispatch, NotifyDispatcher
  <2>3. CASE Release(t)
    BY <2>3 DEF Release
  <2>4. CASE ~(Flush(t) \/ StopDispatch(t) \/ Release(t))
    BY <1>4, <2>4 DEF TearingDown, CancelPending, Unhook, UnrefPending, ClearPending, StopIo,
                      JoinIo, JoinDispatch
  <2> QED
    BY <2>1, <2>2, <2>3, <2>4
<1>5. CASE IoThread \/ SpuriousWakeup
  BY <1>5 DEF IoThread, IoTest, IoTimeout, IoEvent, Receive, IoHandled, SpuriousWakeup,
              WakeMain, NotifyDispatcher
<1>6. CASE BusDrop
  <2>1. CASE incoming = 0
    BY <1>6, <2>1 DEF BusDrop, WakeMain, NotifyDispatcher
  <2>2. CASE incoming # 0
    BY <1>6, <2>2 DEF BusDrop
  <2> QED
    BY <2>1, <2>2
<1>7. CASE DispatchThread
  <2>1. incoming > 0 \/ incoming = 0
    BY DEF Types, TypeOK
  <2> QED
    BY <1>7, <2>1 DEF DispatchThread, LoopTest, Predicate, Park, DrainTest, Dispatch,
                      FailPending, Handled
<1> QED
  BY <1>1, <1>2, <1>3, <1>4, <1>5, <1>6, <1>7 DEF Next

LEMMA SafeSleep == Init /\ [][Next]_vars => []SleepsOnlyWithoutWork
<1>1. Init => SleepInv
  BY DEF Init, SleepInv
<1>2. Types /\ Lifecycle /\ SleepInv /\ [Next]_vars => SleepInv'
  BY NextSleep
<1>3. SleepInv => SleepsOnlyWithoutWork
  BY DEF SleepInv, NothingToDo, SleepsOnlyWithoutWork
<1> QED
  BY SafeTypes, SafeLifecycle, <1>1, <1>2, <1>3, PTL

\* A dispatch thread that sleeps, and missed no notify between its predicate and
\* its sleep, has nothing to dispatch and has not been told to stop.
THEOREM SleepsOnlyWithoutWorkHolds == Spec => []SleepsOnlyWithoutWork
  BY SafeSleep, PTL DEF Spec

-----------------------------------------------------------------------------
(* Two ways in which a teardown never ends: TeardownEnds has to except them. *)

\* A dispatch thread that is told to stop is waited for: only the caller that
\* told it has a reason to be where it is, and it goes on when it has exited.
Stopping ==
  DispatchRuns /\ stop_dispatch_thread =>
    \E t \in Callers : pc[t] \in {"join_dispatch", "threw"}

\* Only the teardown sets stop_dispatch_thread, and only a join ends its wait.
LEMMA NextStopping ==
  ASSUME Types, Lifecycle, Stopping, [Next]_vars
  PROVE  Stopping'
<1> USE DEF Stopping, DispatchRuns, own, stop, libdbus, Goto
<1>1. pc \in [Callers -> {"idle", "threw"} \cup ConnectSteps \cup TeardownSteps]
  BY DEF Types, TypeOK
<1>2. \A s, t \in Callers : pc[s] # "idle" /\ pc[t] # "idle" => s = t
  BY DEF Lifecycle, OneOwner, Busy
\* A step of a caller at any other point: no caller waits for the thread.
<1>3. ASSUME NEW t \in Callers, NEW l, pc' = [pc EXCEPT ![t] = l],
             UNCHANGED stop_dispatch_thread, DispatchRuns' => DispatchRuns,
             pc[t] \notin {"join_dispatch", "threw"}
      PROVE  Stopping'
  <2>1. CASE pc[t] # "idle"
    BY <1>1, <1>2, <1>3, <2>1
  <2>2. CASE pc[t] = "idle"
    <3>1. \A s \in Callers : pc[s] \in {"join_dispatch", "threw"} => pc'[s] = pc[s]
      BY <1>1, <1>3, <2>2
    <3> QED
      BY <1>3, <3>1
  <2> QED
    BY <2>1, <2>2
<1>4. ASSUME NEW t \in Callers, Call(t)
      PROVE  Stopping'
  BY <1>3, <1>4 DEF Call, Connect, IsConnected, Disconnect, CanCall, BeginTeardown
<1>5. ASSUME NEW t \in Callers, Connecting(t)
      PROVE  Stopping'
  <2>1. CASE StartDispatch(t)
    BY <2>1 DEF StartDispatch
  <2>2. CASE ~StartDispatch(t)
    BY <1>3, <1>5, <2>2 DEF Connecting, NoPollFd, NoBus, OpenBus, StartIo, BeginTeardown
  <2> QED
    BY <2>1, <2>2
<1>6. ASSUME NEW t \in Callers, TearingDown(t)
      PROVE  Stopping'
  <2>1. CASE StopDispatch(t)
    <3>1. pc'[t] = "join_dispatch"
      BY <1>1, <2>1 DEF StopDispatch
    <3> QED
      BY <3>1
  <2>2. CASE JoinDispatch(t)
    <3>1. CASE t = Dispatcher
      <4>1. pc'[t] = "threw"
        BY <1>1, <2>2, <3>1 DEF JoinDispatch
      <4> QED
        BY <4>1
    <3>2. CASE t # Dispatcher
      BY <2>2, <3>2 DEF JoinDispatch
    <3> QED
      BY <3>1, <3>2
  <2>3. CASE Flush(t)
    BY <1>3, <2>3 DEF Flush, WakeMain, NotifyDispatcher
  <2>4. CASE ~(StopDispatch(t) \/ JoinDispatch(t) \/ Flush(t))
    BY <1>3, <1>6, <2>4 DEF TearingDown, CancelPending, Unhook, UnrefPending, ClearPending,
                            StopIo, JoinIo, Release
  <2> QED
    BY <2>1, <2>2, <2>3, <2>4
<1>7. CASE IoThread \/ SpuriousWakeup \/ BusDrop
  BY <1>7 DEF IoThread, IoTest, IoTimeout, IoEvent, Receive, IoHandled, SpuriousWakeup,
              BusDrop, WakeMain, NotifyDispatcher
<1>8. CASE DispatchThread
  BY <1>8 DEF DispatchThread, LoopTest, Predicate, Park, DrainTest, Dispatch, FailPending, Handled
<1>9. CASE UNCHANGED vars
  BY <1>9 DEF vars
<1> QED
  BY <1>4, <1>5, <1>6, <1>7, <1>8, <1>9 DEF Next

LEMMA SafeStopping == Init /\ [][Next]_vars => []Stopping
<1>1. Init => Stopping
  BY DEF Init, Stopping, DispatchRuns
<1>2. Types /\ Lifecycle /\ Stopping /\ [Next]_vars => Stopping'
  BY NextStopping
<1> QED
  BY SafeTypes, SafeLifecycle, <1>1, <1>2, PTL

\* The dispatch thread sleeps through its stop, or it has joined itself.
Hung == SleepsThroughStop \/ pc[Dispatcher] = "threw"

\* Where the teardown then is.
LEMMA WhereItHangs ==
  ASSUME Lifecycle, Stopping, Hung
  PROVE  \E t \in Callers : /\ pc[t] = "threw" \/ (pc[t] = "join_dispatch" /\ SleepsThroughStop)
                            /\ conn_state = "disconnecting" /\ ~hooks
                            /\ \A s \in Callers \ {t} : pc[s] = "idle"
<1>1. PICK t \in Callers : pc[t] = "threw" \/ (pc[t] = "join_dispatch" /\ SleepsThroughStop)
  BY DEF Hung, SleepsThroughStop, Stopping, DispatchRuns, Callers
<1>2. conn_state = "disconnecting" /\ ~hooks
  BY <1>1 DEF Lifecycle, Ownership, Stage, TeardownSteps
<1>3. \A s \in Callers \ {t} : pc[s] = "idle"
  BY <1>1 DEF Lifecycle, OneOwner, Busy
<1> QED
  BY <1>1, <1>2, <1>3

\* libdbus has no function any more by which it could notify the thread, and
\* the only other notify_one is over.
LEMMA NobodyHelps ==
  ASSUME Types, Lifecycle, Stopping, Hung, [Next]_vars, ~SpuriousWakeup
  PROVE  Hung'
<1> USE DEF own, stop, libdbus, Goto, Hung, SleepsThroughStop
<1>1. PICK t \in Callers : /\ pc[t] = "threw" \/ (pc[t] = "join_dispatch" /\ SleepsThroughStop)
                           /\ conn_state = "disconnecting" /\ ~hooks
                           /\ \A s \in Callers \ {t} : pc[s] = "idle"
  BY WhereItHangs
<1>2. DOMAIN pc = Callers /\ Dispatcher \in Callers
  BY DEF Types, TypeOK, Callers
<1>3. ASSUME NEW s \in Callers, Call(s) \/ Connecting(s) \/ TearingDown(s)
      PROVE  Hung'
  <2>1. ~Call(s)
    BY <1>1 DEF Call, Connect, IsConnected, Disconnect
  <2>2. JoinDispatch(s) /\ s = t /\ pc[t] = "join_dispatch"
    BY <1>1, <1>3, <2>1 DEF Connecting, NoPollFd, NoBus, OpenBus, StartIo, StartDispatch,
         TearingDown, CancelPending, Flush, Unhook, UnrefPending, ClearPending, StopIo, JoinIo,
         StopDispatch, JoinDispatch, Release
  <2>3. t = Dispatcher /\ pc' = [pc EXCEPT ![t] = "threw"]
    BY <1>1, <2>2 DEF JoinDispatch
  <2> QED
    BY <1>2, <2>3
<1>4. CASE IoThread \/ BusDrop
  BY <1>1, <1>4 DEF IoThread, IoTest, IoTimeout, IoEvent, Receive, IoHandled, BusDrop, WakeMain
<1>5. CASE DispatchThread
  BY <1>5 DEF DispatchThread, LoopTest, Predicate, Park, DrainTest, Dispatch, FailPending, Handled
<1>6. CASE UNCHANGED vars
  BY <1>6 DEF vars
<1> QED
  BY <1>3, <1>4, <1>5, <1>6 DEF Next

LEMMA SafeHung ==
  Init /\ [][Next]_vars => /\ [](Hung => conn_state = "disconnecting")
                           /\ [][Hung /\ ~SpuriousWakeup => Hung']_vars
<1>1. Lifecycle /\ Stopping => (Hung => conn_state = "disconnecting")
  BY WhereItHangs
<1>2. Types /\ Lifecycle /\ Stopping /\ [Next]_vars => [Hung /\ ~SpuriousWakeup => Hung']_vars
  BY NobodyHelps
<1> QED
  BY SafeTypes, SafeLifecycle, SafeStopping, <1>1, <1>2, PTL

\* A teardown whose notify_one (497) fell between the predicate and the sleep of
\* the dispatch thread, or that runs on the dispatch thread, is never over:
\* conn_state stays disconnecting, so every later connect returns without one,
\* and nothing the program, the bus or the threads do changes that.
THEOREM HungForGood ==
  Spec => /\ [](Hung => conn_state = "disconnecting")
          /\ [][Hung /\ ~SpuriousWakeup => Hung']_vars
  BY SafeHung, PTL DEF Spec

=============================================================================
