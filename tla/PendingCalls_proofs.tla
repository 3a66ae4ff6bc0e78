------------------------ MODULE PendingCalls_proofs ------------------------
(***************************************************************************)
(* Proofs about PendingCalls and CallsHistory, for any set of calls: types, *)
(* safety invariants, and that the calls implement CallProtocol.           *)
(*                                                                         *)
(* CallInv relates, for one call, where its sender is to what libdbus, the *)
(* map and the sets of outcomes hold of it; DispatchInv says what the      *)
(* dispatch thread knows of the call in its hand.  Together with the types *)
(* they are inductive.                                                     *)
(***************************************************************************)
EXTENDS CallsHistory, TLAPS

\* The sender has put the entry into the map, and given up pending_mutex.
Emplaced(c) == spc[c] \in WaitSteps \cup {"returned"}

CallInv(c) ==
  /\ spc[c] \in SendSteps <=> pending_mutex = c
  /\ ~Emplaced(c) =>
       c \notin pending_messages \cup answered \cup swept /\ unrefs[c] = 0
  /\ spc[c] \in {"new", "checked", "locked", "refused", "undefined"} => pending[c] = "none"
  /\ c \in notify_set => spc[c] = "notified" \/ Emplaced(c)
  /\ Emplaced(c) =>
       c \in pending_messages \cup swept \cup answered \/ (opc = "invoke" /\ cur = c)
  /\ c \in pending_messages =>
       /\ c \notin answered \cup swept
       /\ unrefs[c] <= 1
       /\ phase # "clear" => unrefs[c] = 0
  /\ c \in answered => c \notin swept /\ pending[c] = "completed"
  /\ c \in got_reply <=> c \in answered \cap SyncCalls
  /\ c \in SyncCalls /\ spc[c] = "returned" => c \in answered

DispatchInv ==
  /\ opc \in {"idle", "overslept", "callback"} <=> cur = NoCall
  /\ cur \in Calls => pending[cur] = "completed"
  /\ opc = "lock" => cur \in notify_set
  /\ opc \in {"notify", "lock", "invoke"} => cur \notin answered
  /\ opc = "invoke" =>
       Emplaced(cur) /\ cur \notin pending_messages \cup swept /\ unrefs[cur] <= 1
  /\ opc = "wake" => cur \in SyncCalls \cap answered

IInv == TypeOK /\ (\A c \in Calls : CallInv(c)) /\ DispatchInv

-----------------------------------------------------------------------------
\* The invariant holds at the start and is kept by every action: of the types,
\* of each call, and of what the dispatch thread knows.
LEMMA InitInv == Init => IInv
<1> SUFFICES ASSUME Init PROVE IInv
  OBVIOUS
<1> USE CallsAssumption DEF Init, SendSteps, WaitSteps
<1>1. TypeOK
  <2>1. ctx \in BOOLEAN
    OBVIOUS
  <2> QED
    BY <2>1 DEF TypeOK, Phases
<1>2. ASSUME NEW c \in Calls PROVE CallInv(c)
  BY DEF CallInv, Emplaced
<1>3. DispatchInv
  BY DEF DispatchInv
<1> QED
  BY <1>1, <1>2, <1>3 DEF IInv

\* Every action keeps the invariant, of the acting call and of every other.
LEMMA NextInv == IInv /\ [Next]_vars => IInv'
<1> SUFFICES ASSUME IInv, [Next]_vars PROVE IInv'
  OBVIOUS
<1> USE CallsAssumption
    DEF IInv, Goto, Unref, SendSteps, WaitSteps, send_vars, disp_vars, conn_vars, history
<1>1. ASSUME NEW c \in Calls, Check(c)
      PROVE  IInv'
  <2>1. TypeOK'
    BY <1>1 DEF Check, TypeOK, Phases
  <2>2. ASSUME NEW d \in Calls PROVE CallInv(d)'
    BY <1>1 DEF Check, TypeOK, CallInv, DispatchInv, Emplaced
  <2>3. DispatchInv'
    BY <1>1 DEF Check, TypeOK, CallInv, DispatchInv, Emplaced
  <2> QED
    BY <2>1, <2>2, <2>3
<1>2. ASSUME NEW c \in Calls, SendLock(c)
      PROVE  IInv'
  <2>1. TypeOK'
    BY <1>2 DEF SendLock, TypeOK, Phases
  <2>2. ASSUME NEW d \in Calls PROVE CallInv(d)'
    BY <1>2 DEF SendLock, TypeOK, CallInv, DispatchInv, Emplaced
  <2>3. DispatchInv'
    BY <1>2 DEF SendLock, TypeOK, CallInv, DispatchInv, Emplaced
  <2> QED
    BY <2>1, <2>2, <2>3
<1>3. ASSUME NEW c \in Calls, SendWithReply(c)
      PROVE  IInv'
  <2>1. TypeOK'
    BY <1>3 DEF SendWithReply, TypeOK, Phases
  <2>2. ASSUME NEW d \in Calls PROVE CallInv(d)'
    BY <1>3 DEF SendWithReply, TypeOK, CallInv, DispatchInv, Emplaced
  <2>3. DispatchInv'
    BY <1>3 DEF SendWithReply, TypeOK, CallInv, DispatchInv, Emplaced
  <2> QED
    BY <2>1, <2>2, <2>3
<1>4. ASSUME NEW c \in Calls, SendRefused(c)
      PROVE  IInv'
  <2>1. TypeOK'
    BY <1>4 DEF SendRefused, TypeOK, Phases
  <2>2. ASSUME NEW d \in Calls PROVE CallInv(d)'
    BY <1>4 DEF SendRefused, TypeOK, CallInv, DispatchInv, Emplaced
  <2>3. DispatchInv'
    BY <1>4 DEF SendRefused, TypeOK, CallInv, DispatchInv, Emplaced
  <2> QED
    BY <2>1, <2>2, <2>3
<1>5. ASSUME NEW c \in Calls, SetNotify(c)
      PROVE  IInv'
  <2>1. TypeOK'
    BY <1>5 DEF SetNotify, TypeOK, Phases
  <2>2. ASSUME NEW d \in Calls PROVE CallInv(d)'
    BY <1>5 DEF SetNotify, TypeOK, CallInv, DispatchInv, Emplaced
  <2>3. DispatchInv'
    BY <1>5 DEF SetNotify, TypeOK, CallInv, DispatchInv, Emplaced
  <2> QED
    BY <2>1, <2>2, <2>3
<1>6. ASSUME NEW c \in Calls, Emplace(c)
      PROVE  IInv'
  <2>1. TypeOK'
    BY <1>6 DEF Emplace, TypeOK, Phases
  <2>2. ASSUME NEW d \in Calls PROVE CallInv(d)'
    BY <1>6 DEF Emplace, TypeOK, CallInv, DispatchInv, Emplaced
  <2>3. DispatchInv'
    BY <1>6 DEF Emplace, TypeOK, CallInv, DispatchInv, Emplaced
  <2> QED
    BY <2>1, <2>2, <2>3
<1>7. ASSUME NEW c \in Calls, WaitTest(c)
      PROVE  IInv'
  <2>1. TypeOK'
    BY <1>7 DEF WaitTest, TypeOK, Phases
  <2>2. ASSUME NEW d \in Calls PROVE CallInv(d)'
    BY <1>7 DEF WaitTest, TypeOK, CallInv, DispatchInv, Emplaced
  <2>3. DispatchInv'
    BY <1>7 DEF WaitTest, TypeOK, CallInv, DispatchInv, Emplaced
  <2> QED
    BY <2>1, <2>2, <2>3
<1>8. ASSUME NEW c \in Calls, WaitPark(c)
      PROVE  IInv'
  <2>1. TypeOK'
    BY <1>8 DEF WaitPark, TypeOK, Phases
  <2>2. ASSUME NEW d \in Calls PROVE CallInv(d)'
    BY <1>8 DEF WaitPark, TypeOK, CallInv, DispatchInv, Emplaced
  <2>3. DispatchInv'
    BY <1>8 DEF WaitPark, TypeOK, CallInv, DispatchInv, Emplaced
  <2> QED
    BY <2>1, <2>2, <2>3
<1>9. ASSUME NEW c \in Calls, SpuriousWakeup(c)
      PROVE  IInv'
  <2>1. TypeOK'
    BY <1>9 DEF SpuriousWakeup, TypeOK, Phases
  <2>2. ASSUME NEW d \in Calls PROVE CallInv(d)'
    BY <1>9 DEF SpuriousWakeup, TypeOK, CallInv, DispatchInv, Emplaced
  <2>3. DispatchInv'
    BY <1>9 DEF SpuriousWakeup, TypeOK, CallInv, DispatchInv, Emplaced
  <2> QED
    BY <2>1, <2>2, <2>3
<1>10. ASSUME NEW c \in Calls, Reply(c)
      PROVE  IInv'
  <2>1. TypeOK'
    BY <1>10 DEF Reply, Unnoticed, TypeOK, Phases
  <2>2. ASSUME NEW d \in Calls PROVE CallInv(d)'
    BY <1>10 DEF Reply, Unnoticed, TypeOK, CallInv, DispatchInv, Emplaced
  <2>3. DispatchInv'
    BY <1>10 DEF Reply, Unnoticed, TypeOK, CallInv, DispatchInv, Emplaced
  <2> QED
    BY <2>1, <2>2, <2>3
<1>11. ASSUME NEW c \in Calls, Dispatch(c)
      PROVE  IInv'
  <2>1. TypeOK'
    BY <1>11 DEF Dispatch, TypeOK, Phases
  <2>2. ASSUME NEW d \in Calls PROVE CallInv(d)'
    BY <1>11 DEF Dispatch, TypeOK, CallInv, DispatchInv, Emplaced
  <2>3. DispatchInv'
    BY <1>11 DEF Dispatch, TypeOK, CallInv, DispatchInv, Emplaced
  <2> QED
    BY <2>1, <2>2, <2>3
<1>12. ASSUME DispatchOther
      PROVE  IInv'
  <2>1. TypeOK'
    BY <1>12 DEF DispatchOther, TypeOK, Phases
  <2>2. ASSUME NEW d \in Calls PROVE CallInv(d)'
    BY <1>12 DEF DispatchOther, TypeOK, CallInv, DispatchInv, Emplaced
  <2>3. DispatchInv'
    BY <1>12 DEF DispatchOther, TypeOK, CallInv, DispatchInv, Emplaced
  <2> QED
    BY <2>1, <2>2, <2>3
<1>13. ASSUME ReadNotify
      PROVE  IInv'
  <2>1. TypeOK'
    BY <1>13 DEF ReadNotify, TypeOK, Phases
  <2>2. ASSUME NEW d \in Calls PROVE CallInv(d)'
    BY <1>13 DEF ReadNotify, TypeOK, CallInv, DispatchInv, Emplaced
  <2>3. DispatchInv'
    BY <1>13 DEF ReadNotify, TypeOK, CallInv, DispatchInv, Emplaced
  <2> QED
    BY <2>1, <2>2, <2>3
<1>14. ASSUME OnPendingCall
      PROVE  IInv'
  <2>1. TypeOK'
    <3>1. \A c \in Calls : unrefs[c] \in 0..2 /\ unrefs'[c] \in 0..2
      BY <1>14 DEF OnPendingCall, TypeOK, CallInv, DispatchInv
    <3>2. unrefs' \in [Calls -> 0..2]
      BY <1>14, <3>1 DEF OnPendingCall, TypeOK
    <3> QED
      BY <1>14, <3>2 DEF OnPendingCall, TypeOK, Phases
  <2>2. ASSUME NEW d \in Calls PROVE CallInv(d)'
    BY <1>14 DEF OnPendingCall, TypeOK, CallInv, DispatchInv, Emplaced
  <2>3. DispatchInv'
    BY <1>14 DEF OnPendingCall, TypeOK, CallInv, DispatchInv, Emplaced
  <2> QED
    BY <2>1, <2>2, <2>3
<1>15. ASSUME Invoke
      PROVE  IInv'
  <2>1. TypeOK'
    <3>1. \A c \in Calls : unrefs[c] \in 0..2 /\ unrefs'[c] \in 0..2
      BY <1>15 DEF Invoke, TypeOK, CallInv, DispatchInv
    <3>2. unrefs' \in [Calls -> 0..2]
      BY <1>15, <3>1 DEF Invoke, TypeOK
    <3>3. cur \in Calls
      BY <1>15 DEF Invoke, TypeOK, DispatchInv
    <3> QED
      BY <1>15, <3>2, <3>3 DEF Invoke, TypeOK, Phases
  <2>2. ASSUME NEW d \in Calls PROVE CallInv(d)'
    BY <1>15 DEF Invoke, TypeOK, CallInv, DispatchInv, Emplaced
  <2>3. DispatchInv'
    BY <1>15 DEF Invoke, TypeOK, CallInv, DispatchInv, Emplaced
  <2> QED
    BY <2>1, <2>2, <2>3
<1>16. ASSUME Wake
      PROVE  IInv'
  <2>1. TypeOK'
    BY <1>16 DEF Wake, TypeOK, Phases
  <2>2. ASSUME NEW d \in Calls PROVE CallInv(d)'
    BY <1>16 DEF Wake, TypeOK, CallInv, DispatchInv, Emplaced
  <2>3. DispatchInv'
    BY <1>16 DEF Wake, TypeOK, CallInv, DispatchInv, Emplaced
  <2> QED
    BY <2>1, <2>2, <2>3
<1>17. ASSUME CallbackReturns
      PROVE  IInv'
  <2>1. TypeOK'
    BY <1>17 DEF CallbackReturns, TypeOK, Phases
  <2>2. ASSUME NEW d \in Calls PROVE CallInv(d)'
    BY <1>17 DEF CallbackReturns, TypeOK, CallInv, DispatchInv, Emplaced
  <2>3. DispatchInv'
    BY <1>17 DEF CallbackReturns, TypeOK, CallInv, DispatchInv, Emplaced
  <2> QED
    BY <2>1, <2>2, <2>3
<1>18. ASSUME Open
      PROVE  IInv'
  <2>1. TypeOK'
    BY <1>18 DEF Open, TypeOK, Phases
  <2>2. ASSUME NEW d \in Calls PROVE CallInv(d)'
    BY <1>18 DEF Open, TypeOK, CallInv, DispatchInv, Emplaced
  <2>3. DispatchInv'
    BY <1>18 DEF Open, TypeOK, CallInv, DispatchInv, Emplaced
  <2> QED
    BY <2>1, <2>2, <2>3
<1>19. ASSUME Connected
      PROVE  IInv'
  <2>1. TypeOK'
    BY <1>19 DEF Connected, TypeOK, Phases
  <2>2. ASSUME NEW d \in Calls PROVE CallInv(d)'
    BY <1>19 DEF Connected, TypeOK, CallInv, DispatchInv, Emplaced
  <2>3. DispatchInv'
    BY <1>19 DEF Connected, TypeOK, CallInv, DispatchInv, Emplaced
  <2> QED
    BY <2>1, <2>2, <2>3
<1>20. ASSUME ConnectFails
      PROVE  IInv'
  <2>1. TypeOK'
    BY <1>20 DEF ConnectFails, TypeOK, Phases
  <2>2. ASSUME NEW d \in Calls PROVE CallInv(d)'
    BY <1>20 DEF ConnectFails, TypeOK, CallInv, DispatchInv, Emplaced
  <2>3. DispatchInv'
    BY <1>20 DEF ConnectFails, TypeOK, CallInv, DispatchInv, Emplaced
  <2> QED
    BY <2>1, <2>2, <2>3
<1>21. ASSUME Leave
      PROVE  IInv'
  <2>1. TypeOK'
    BY <1>21 DEF Leave, TypeOK, Phases
  <2>2. ASSUME NEW d \in Calls PROVE CallInv(d)'
    BY <1>21 DEF Leave, TypeOK, CallInv, DispatchInv, Emplaced
  <2>3. DispatchInv'
    BY <1>21 DEF Leave, TypeOK, CallInv, DispatchInv, Emplaced
  <2> QED
    BY <2>1, <2>2, <2>3
<1>22. ASSUME CancelAll
      PROVE  IInv'
  <2>1. TypeOK'
    BY <1>22 DEF CancelAll, TypeOK, Phases
  <2>2. ASSUME NEW d \in Calls PROVE CallInv(d)'
    BY <1>22 DEF CancelAll, TypeOK, CallInv, DispatchInv, Emplaced
  <2>3. DispatchInv'
    BY <1>22 DEF CancelAll, TypeOK, CallInv, DispatchInv, Emplaced
  <2> QED
    BY <2>1, <2>2, <2>3
<1>23. ASSUME SkipCancel
      PROVE  IInv'
  <2>1. TypeOK'
    BY <1>23 DEF SkipCancel, TypeOK, Phases
  <2>2. ASSUME NEW d \in Calls PROVE CallInv(d)'
    BY <1>23 DEF SkipCancel, TypeOK, CallInv, DispatchInv, Emplaced
  <2>3. DispatchInv'
    BY <1>23 DEF SkipCancel, TypeOK, CallInv, DispatchInv, Emplaced
  <2> QED
    BY <2>1, <2>2, <2>3
<1>24. ASSUME UnrefAll
      PROVE  IInv'
  <2>1. TypeOK'
    <3>1. \A c \in Calls : unrefs[c] \in 0..2 /\ unrefs'[c] \in 0..2
      BY <1>24 DEF UnrefAll, TypeOK, CallInv, DispatchInv
    <3>2. unrefs' \in [Calls -> 0..2]
      BY <1>24, <3>1 DEF UnrefAll, TypeOK
    <3> QED
      BY <1>24, <3>2 DEF UnrefAll, TypeOK, Phases
  <2>2. ASSUME NEW d \in Calls PROVE CallInv(d)'
    BY <1>24 DEF UnrefAll, TypeOK, CallInv, DispatchInv, Emplaced
  <2>3. DispatchInv'
    BY <1>24 DEF UnrefAll, TypeOK, CallInv, DispatchInv, Emplaced
  <2> QED
    BY <2>1, <2>2, <2>3
<1>25. ASSUME ClearAll
      PROVE  IInv'
  <2>1. TypeOK'
    BY <1>25 DEF ClearAll, TypeOK, Phases
  <2>2. ASSUME NEW d \in Calls PROVE CallInv(d)'
    BY <1>25 DEF ClearAll, TypeOK, CallInv, DispatchInv, Emplaced
  <2>3. DispatchInv'
    BY <1>25 DEF ClearAll, TypeOK, CallInv, DispatchInv, Emplaced
  <2> QED
    BY <2>1, <2>2, <2>3
<1>26. ASSUME Release
      PROVE  IInv'
  <2>1. TypeOK'
    BY <1>26 DEF Release, TypeOK, Phases
  <2>2. ASSUME NEW d \in Calls PROVE CallInv(d)'
    BY <1>26 DEF Release, TypeOK, CallInv, DispatchInv, Emplaced
  <2>3. DispatchInv'
    BY <1>26 DEF Release, TypeOK, CallInv, DispatchInv, Emplaced
  <2> QED
    BY <2>1, <2>2, <2>3
<1>27. ASSUME NEW c \in Calls, SendWithoutCtx(c)
      PROVE  IInv'
  <2>1. TypeOK'
    BY <1>27 DEF SendWithoutCtx, TypeOK, Phases
  <2>2. ASSUME NEW d \in Calls PROVE CallInv(d)'
    BY <1>27 DEF SendWithoutCtx, TypeOK, CallInv, DispatchInv, Emplaced
  <2>3. DispatchInv'
    BY <1>27 DEF SendWithoutCtx, TypeOK, CallInv, DispatchInv, Emplaced
  <2> QED
    BY <2>1, <2>2, <2>3
<1>28. ASSUME Rouse
      PROVE  IInv'
  <2>1. TypeOK'
    BY <1>28 DEF Rouse, TypeOK, Phases
  <2>2. ASSUME NEW d \in Calls PROVE CallInv(d)'
    BY <1>28 DEF Rouse, TypeOK, CallInv, DispatchInv, Emplaced
  <2>3. DispatchInv'
    BY <1>28 DEF Rouse, TypeOK, CallInv, DispatchInv, Emplaced
  <2> QED
    BY <2>1, <2>2, <2>3
<1>29. ASSUME UNCHANGED vars
      PROVE  IInv'
  BY <1>29 DEF vars, TypeOK, Phases, CallInv, DispatchInv, Emplaced
<1> QED
  BY <1>1, <1>2, <1>3, <1>4, <1>5, <1>6, <1>7, <1>8, <1>9, <1>10, <1>11, <1>12,
     <1>13, <1>14, <1>15, <1>16, <1>17, <1>18, <1>19, <1>20, <1>21, <1>22,
     <1>23, <1>24, <1>25, <1>26, <1>27, <1>28, <1>29
     DEF Next, Sending, Dispatching, TearingDown

\* The inductive invariant of the calls holds in every state, without fairness
\* (as a composition that takes steps of PendingCalls needs it).
LEMMA SafeInvariant == Init /\ [][Next]_vars => []IInv
  BY InitInv, NextInv, PTL

\* The same of the specification.
THEOREM Invariant == Spec => []IInv
  BY SafeInvariant, PTL DEF Spec

-----------------------------------------------------------------------------
\* Type correctness of every variable, the unref counts included.
THEOREM TypeCorrect == Spec => []TypeOK
<1>1. IInv => TypeOK
  BY DEF IInv
<1> QED
  BY Invariant, <1>1, PTL

\* What the invariant says to the callers.
LEMMA InvFacts ==
  ASSUME IInv
  PROVE  EntryFound /\ FrameAliveAtReply /\ SweptIsSilent
<1>1. EntryFound
  BY CallsAssumption DEF IInv, TypeOK, DispatchInv, CallInv, EntryFound, Emplaced
<1>2. FrameAliveAtReply
  BY CallsAssumption DEF IInv, TypeOK, DispatchInv, CallInv, FrameAliveAtReply, Emplaced
<1>3. SweptIsSilent
  BY DEF IInv, TypeOK, CallInv, SweptIsSilent
<1> QED
  BY <1>1, <1>2, <1>3

\* on_pending_call finds the entry of the call it is told of, unless clear ()
\* removed it: send is never so late that the reply overtakes the entry.
THEOREM EntryFoundHolds == Spec => []EntryFound
<1>1. IInv => EntryFound
  BY InvFacts
<1> QED
  BY Invariant, <1>1, PTL

\* The callback of send_and_wait finds the frame it writes to.
THEOREM FrameAliveAtReplyHolds == Spec => []FrameAliveAtReply
<1>1. IInv => FrameAliveAtReply
  BY InvFacts
<1> QED
  BY Invariant, <1>1, PTL

\* A call that disconnect swept away is not answered later.
THEOREM SweptIsSilentHolds == Spec => []SweptIsSilent
<1>1. IInv => SweptIsSilent
  BY InvFacts
<1> QED
  BY Invariant, <1>1, PTL

-----------------------------------------------------------------------------
\* PendingCalls implements CallProtocol: no step of the code gives a call a
\* second outcome, answers one that was refused or given up, or lets send_and_wait
\* return without an answer.

\* Steps that change nothing a caller can tell.
LEMMA NoNews ==
  ASSUME \A c \in Calls : Status(c)' = Status(c), returned' = returned
  PROVE  UNCHANGED Promise!vars
BY DEF status, Promise!vars

\* Steps that change the status of a single call.
LEMMA OneCall ==
  ASSUME NEW c \in Calls, NEW s, Status(c)' = s,
         \A d \in Calls \ {c} : Status(d)' = Status(d),
         returned' = returned
  PROVE  Promise!Become(c, s) /\ UNCHANGED returned
BY DEF status, Promise!Become

\* Steps after which some pending calls will never be answered.
LEMMA SomeDropped ==
  ASSUME \A c \in Calls : \/ Status(c)' = Status(c)
                          \/ Status(c) = "pending" /\ Status(c)' = "dropped",
         returned' = returned
  PROVE  Promise!Next
<1> DEFINE S == {c \in Calls : Status(c) = "pending" /\ Status(c)' = "dropped"}
<1>1. \A c \in S : status[c] = "pending"
  BY DEF status
<1>2. status' = [c \in Calls |-> IF c \in S THEN "dropped" ELSE status[c]]
  BY DEF status
<1> QED
  BY <1>1, <1>2 DEF Promise!Next, Promise!Drop

\* A step that neither moves a sender nor answers can only drop a call.
LEMMA StillSilent ==
  ASSUME NEW c \in Calls, spc' = spc, answered' = answered, Dropped(c) => Dropped(c)'
  PROVE  \/ Status(c)' = Status(c)
         \/ Status(c) = "pending" /\ Status(c)' = "dropped"
<1>1. CASE spc[c] \in {"new", "checked", "locked", "refused", "undefined"} \/ c \in answered
  BY <1>1 DEF Status
<1>2. CASE ~(spc[c] \in {"new", "checked", "locked", "refused", "undefined"} \/ c \in answered)
  <2>1. CASE Dropped(c)
    BY <1>2, <2>1 DEF Status
  <2>2. CASE ~Dropped(c)
    <3>1. Status(c) = "pending"
      BY <1>2, <2>2 DEF Status
    <3>2. Status(c)' = IF Dropped(c)' THEN "dropped" ELSE "pending"
      BY <1>2 DEF Status
    <3> QED
      BY <3>1, <3>2
  <2> QED
    BY <2>1, <2>2
<1> QED
  BY <1>1, <1>2

\* Every action is a step of CallProtocol under the mapping, or a stutter.
LEMMA NextKeepsPromise ==
  ASSUME IInv, IInv', [Next]_vars
  PROVE  [Promise!Next]_(Promise!vars)
<1> USE CallsAssumption
    DEF Goto, Unref, SendSteps, WaitSteps, send_vars, disp_vars, conn_vars, history,
        Status, Dropped, returned
<1>inv. /\ TypeOK /\ DispatchInv /\ (\A c \in Calls : CallInv(c))
        /\ TypeOK' /\ DispatchInv' /\ (\A c \in Calls : CallInv(c)')
  BY DEF IInv
<1>1. ASSUME NEW c \in Calls, SendLock(c)
      PROVE  UNCHANGED Promise!vars
  <2>1. \A d \in Calls : Status(d)' = Status(d)
    BY <1>1, <1>inv DEF SendLock, TypeOK, CallInv, DispatchInv, Emplaced
  <2>2. returned' = returned
    BY <1>1, <1>inv DEF SendLock, TypeOK
  <2> QED
    BY <2>1, <2>2, NoNews
<1>2. ASSUME NEW c \in Calls, SetNotify(c)
      PROVE  UNCHANGED Promise!vars
  <2>1. \A d \in Calls : Status(d)' = Status(d)
    BY <1>2, <1>inv DEF SetNotify, TypeOK, CallInv, DispatchInv, Emplaced
  <2>2. returned' = returned
    BY <1>2, <1>inv DEF SetNotify, TypeOK
  <2> QED
    BY <2>1, <2>2, NoNews
<1>3. ASSUME NEW c \in Calls, WaitPark(c)
      PROVE  UNCHANGED Promise!vars
  <2>1. \A d \in Calls : Status(d)' = Status(d)
    BY <1>3, <1>inv DEF WaitPark, TypeOK, CallInv, DispatchInv, Emplaced
  <2>2. returned' = returned
    BY <1>3, <1>inv DEF WaitPark, TypeOK
  <2> QED
    BY <2>1, <2>2, NoNews
<1>4. ASSUME NEW c \in Calls, SpuriousWakeup(c)
      PROVE  UNCHANGED Promise!vars
  <2>1. \A d \in Calls : Status(d)' = Status(d)
    BY <1>4, <1>inv DEF SpuriousWakeup, TypeOK, CallInv, DispatchInv, Emplaced
  <2>2. returned' = returned
    BY <1>4, <1>inv DEF SpuriousWakeup, TypeOK
  <2> QED
    BY <2>1, <2>2, NoNews
<1>5. ASSUME NEW c \in Calls, Reply(c)
      PROVE  UNCHANGED Promise!vars
  <2>1. \A d \in Calls : Status(d)' = Status(d)
    BY <1>5, <1>inv DEF Reply, Unnoticed, TypeOK, CallInv, DispatchInv, Emplaced
  <2>2. returned' = returned
    BY <1>5, <1>inv DEF Reply, Unnoticed, TypeOK
  <2> QED
    BY <2>1, <2>2, NoNews
<1>6. ASSUME NEW c \in Calls, Dispatch(c)
      PROVE  UNCHANGED Promise!vars
  <2>1. \A d \in Calls : Status(d)' = Status(d)
    BY <1>6, <1>inv DEF Dispatch, TypeOK, CallInv, DispatchInv, Emplaced
  <2>2. returned' = returned
    BY <1>6, <1>inv DEF Dispatch, TypeOK
  <2> QED
    BY <2>1, <2>2, NoNews
<1>7. ASSUME DispatchOther
      PROVE  UNCHANGED Promise!vars
  <2>1. \A d \in Calls : Status(d)' = Status(d)
    BY <1>7, <1>inv DEF DispatchOther, TypeOK, CallInv, DispatchInv, Emplaced
  <2>2. returned' = returned
    BY <1>7, <1>inv DEF DispatchOther, TypeOK
  <2> QED
    BY <2>1, <2>2, NoNews
<1>8. ASSUME Wake
      PROVE  UNCHANGED Promise!vars
  <2>1. \A d \in Calls : Status(d)' = Status(d)
    BY <1>8, <1>inv DEF Wake, TypeOK, CallInv, DispatchInv, Emplaced
  <2>2. returned' = returned
    BY <1>8, <1>inv DEF Wake, TypeOK
  <2> QED
    BY <2>1, <2>2, NoNews
<1>9. ASSUME CallbackReturns
      PROVE  UNCHANGED Promise!vars
  <2>1. \A d \in Calls : Status(d)' = Status(d)
    BY <1>9, <1>inv DEF CallbackReturns, TypeOK, CallInv, DispatchInv, Emplaced
  <2>2. returned' = returned
    BY <1>9, <1>inv DEF CallbackReturns, TypeOK
  <2> QED
    BY <2>1, <2>2, NoNews
<1>10. ASSUME Open
      PROVE  UNCHANGED Promise!vars
  <2>1. \A d \in Calls : Status(d)' = Status(d)
    BY <1>10, <1>inv DEF Open, TypeOK, CallInv, DispatchInv, Emplaced
  <2>2. returned' = returned
    BY <1>10, <1>inv DEF Open, TypeOK
  <2> QED
    BY <2>1, <2>2, NoNews
<1>11. ASSUME Connected
      PROVE  UNCHANGED Promise!vars
  <2>1. \A d \in Calls : Status(d)' = Status(d)
    BY <1>11, <1>inv DEF Connected, TypeOK, CallInv, DispatchInv, Emplaced
  <2>2. returned' = returned
    BY <1>11, <1>inv DEF Connected, TypeOK
  <2> QED
    BY <2>1, <2>2, NoNews
<1>12. ASSUME ConnectFails
      PROVE  UNCHANGED Promise!vars
  <2>1. \A d \in Calls : Status(d)' = Status(d)
    BY <1>12, <1>inv DEF ConnectFails, TypeOK, CallInv, DispatchInv, Emplaced
  <2>2. returned' = returned
    BY <1>12, <1>inv DEF ConnectFails, TypeOK
  <2> QED
    BY <2>1, <2>2, NoNews
<1>13. ASSUME Leave
      PROVE  UNCHANGED Promise!vars
  <2>1. \A d \in Calls : Status(d)' = Status(d)
    BY <1>13, <1>inv DEF Leave, TypeOK, CallInv, DispatchInv, Emplaced
  <2>2. returned' = returned
    BY <1>13, <1>inv DEF Leave, TypeOK
  <2> QED
    BY <2>1, <2>2, NoNews
<1>14. ASSUME SkipCancel
      PROVE  UNCHANGED Promise!vars
  <2>1. \A d \in Calls : Status(d)' = Status(d)
    BY <1>14, <1>inv DEF SkipCancel, TypeOK, CallInv, DispatchInv, Emplaced
  <2>2. returned' = returned
    BY <1>14, <1>inv DEF SkipCancel, TypeOK
  <2> QED
    BY <2>1, <2>2, NoNews
<1>15. ASSUME UnrefAll
      PROVE  UNCHANGED Promise!vars
  <2>1. \A d \in Calls : Status(d)' = Status(d)
    BY <1>15, <1>inv DEF UnrefAll, TypeOK, CallInv, DispatchInv, Emplaced
  <2>2. returned' = returned
    BY <1>15, <1>inv DEF UnrefAll, TypeOK
  <2> QED
    BY <2>1, <2>2, NoNews
<1>16. ASSUME ReadNotify
      PROVE  Promise!Next
  <2>1. \A d \in Calls : \/ Status(d)' = Status(d)
                         \/ Status(d) = "pending" /\ Status(d)' = "dropped"
    <3> TAKE d \in Calls
    <3>1. Dropped(d) => Dropped(d)'
      BY <1>16, <1>inv DEF ReadNotify, TypeOK, CallInv, DispatchInv, Emplaced
    <3>2. spc' = spc /\ answered' = answered
      BY <1>16 DEF ReadNotify
    <3> HIDE DEF Status, Dropped
    <3> QED
      BY <3>1, <3>2, StillSilent
  <2>2. returned' = returned
    BY <1>16, <1>inv DEF ReadNotify, TypeOK
  <2> QED
    BY <2>1, <2>2, SomeDropped
<1>17. ASSUME CancelAll
      PROVE  Promise!Next
  <2>1. \A d \in Calls : \/ Status(d)' = Status(d)
                         \/ Status(d) = "pending" /\ Status(d)' = "dropped"
    <3> TAKE d \in Calls
    <3>1. Dropped(d) => Dropped(d)'
      BY <1>17, <1>inv DEF CancelAll, TypeOK, CallInv, DispatchInv, Emplaced
    <3>2. spc' = spc /\ answered' = answered
      BY <1>17 DEF CancelAll
    <3> HIDE DEF Status, Dropped
    <3> QED
      BY <3>1, <3>2, StillSilent
  <2>2. returned' = returned
    BY <1>17, <1>inv DEF CancelAll, TypeOK
  <2> QED
    BY <2>1, <2>2, SomeDropped
<1>18. ASSUME ClearAll
      PROVE  Promise!Next
  <2>1. \A d \in Calls : \/ Status(d)' = Status(d)
                         \/ Status(d) = "pending" /\ Status(d)' = "dropped"
    <3> TAKE d \in Calls
    <3>1. Dropped(d) => Dropped(d)'
      BY <1>18, <1>inv DEF ClearAll, TypeOK, CallInv, DispatchInv, Emplaced
    <3>2. spc' = spc /\ answered' = answered
      BY <1>18 DEF ClearAll
    <3> HIDE DEF Status, Dropped
    <3> QED
      BY <3>1, <3>2, StillSilent
  <2>2. returned' = returned
    BY <1>18, <1>inv DEF ClearAll, TypeOK
  <2> QED
    BY <2>1, <2>2, SomeDropped
<1>19. ASSUME Release
      PROVE  Promise!Next
  <2>1. \A d \in Calls : \/ Status(d)' = Status(d)
                         \/ Status(d) = "pending" /\ Status(d)' = "dropped"
    <3> TAKE d \in Calls
    <3>1. Dropped(d) => Dropped(d)'
      BY <1>19, <1>inv DEF Release, TypeOK, CallInv, DispatchInv, Emplaced
    <3>2. spc' = spc /\ answered' = answered
      BY <1>19 DEF Release
    <3> HIDE DEF Status, Dropped
    <3> QED
      BY <3>1, <3>2, StillSilent
  <2>2. returned' = returned
    BY <1>19, <1>inv DEF Release, TypeOK
  <2> QED
    BY <2>1, <2>2, SomeDropped
<1>20. ASSUME NEW c \in Calls, SendWithReply(c)
      PROVE  Promise!Next
  <2>1. Status(c) = "new" /\ Status(c)' = "pending"
    BY <1>20, <1>inv DEF SendWithReply, TypeOK, CallInv, DispatchInv, Emplaced
  <2>2. \A d \in Calls \ {c} : Status(d)' = Status(d)
    BY <1>20, <1>inv DEF SendWithReply, TypeOK, CallInv, DispatchInv, Emplaced
  <2>3. returned' = returned
    BY <1>20, <1>inv DEF SendWithReply, TypeOK
  <2> QED
    BY <2>1, <2>2, <2>3, OneCall DEF status, Promise!Next, Promise!Accept
<1>21. ASSUME NEW c \in Calls, SendRefused(c)
      PROVE  Promise!Next
  <2>1. Status(c) = "new" /\ Status(c)' = "refused"
    BY <1>21, <1>inv DEF SendRefused, TypeOK, CallInv, DispatchInv, Emplaced
  <2>2. \A d \in Calls \ {c} : Status(d)' = Status(d)
    BY <1>21, <1>inv DEF SendRefused, TypeOK, CallInv, DispatchInv, Emplaced
  <2>3. returned' = returned
    BY <1>21, <1>inv DEF SendRefused, TypeOK
  <2> QED
    BY <2>1, <2>2, <2>3, OneCall DEF status, Promise!Next, Promise!Refuse
<1>22. ASSUME NEW c \in Calls, Check(c)
      PROVE  Promise!Next \/ UNCHANGED Promise!vars
  <2>1. \A d \in Calls \ {c} : Status(d)' = Status(d)
    BY <1>22, <1>inv DEF Check, TypeOK
  <2>2. returned' = returned
    BY <1>22, <1>inv DEF Check, TypeOK
  <2>3. CASE phase = "up"
    <3>1. Status(c)' = Status(c)
      BY <1>22, <1>inv, <2>3 DEF Check, TypeOK
    <3> QED
      BY <2>1, <2>2, <3>1, NoNews
  <2>4. CASE phase # "up"
    <3>1. spc[c] = "new" /\ spc'[c] = "refused"
      BY <1>22, <1>inv, <2>4 DEF Check, TypeOK
    <3>2. Status(c) = "new" /\ Status(c)' = "refused"
      BY <3>1
    <3> QED
      BY <2>1, <2>2, <3>2, OneCall DEF status, Promise!Next, Promise!Refuse
  <2> QED
    BY <2>3, <2>4
<1>23. ASSUME NEW c \in Calls, Emplace(c)
      PROVE  Promise!Next
  <2>1. \A d \in Calls \ {c} : Status(d)' = Status(d)
    BY <1>23, <1>inv DEF Emplace, TypeOK
  <2>2. Status(c) = "pending" /\ Status(c)' \in {"pending", "dropped"}
    BY <1>23, <1>inv DEF Emplace, TypeOK, CallInv, DispatchInv, Emplaced
  <2>3. returned' = returned
    BY <1>23, <1>inv DEF Emplace, TypeOK
  <2> QED
    BY <2>1, <2>2, <2>3, SomeDropped
<1>24. ASSUME NEW c \in Calls, WaitTest(c)
      PROVE  Promise!Next \/ UNCHANGED Promise!vars
  <2>1. \A d \in Calls : Status(d)' = Status(d)
    BY <1>24, <1>inv DEF WaitTest, TypeOK, CallInv, DispatchInv, Emplaced
  <2>2. CASE c \in got_reply
    <3>1. Status(c) = "answered"
      BY <1>24, <1>inv, <2>2 DEF WaitTest, CallInv
    <3>2. c \in SyncCalls \ returned /\ returned' = returned \cup {c}
      BY <1>24, <1>inv, <2>2 DEF WaitTest, TypeOK
    <3> QED
      BY <2>1, <3>1, <3>2 DEF status, Promise!Next, Promise!Return
  <2>3. CASE c \notin got_reply
    <3>1. returned' = returned
      BY <1>24, <1>inv, <2>3 DEF WaitTest, TypeOK
    <3> QED
      BY <2>1, <3>1, NoNews
  <2> QED
    BY <2>2, <2>3
<1>25. ASSUME Invoke
      PROVE  Promise!Next
  <2> PICK c \in Calls : c = cur
    BY <1>25, <1>inv DEF Invoke, TypeOK, DispatchInv
  <2>1. Status(c) = "pending" /\ Status(c)' = "answered"
    <3>1. Status(c) = "pending"
      BY <1>25, <1>inv DEF Invoke, DispatchInv, Emplaced
    <3>2. c \in answered' /\ spc'[c] \in WaitSteps \cup {"returned"}
      BY <1>25, <1>inv DEF Invoke, DispatchInv, Emplaced
    <3>3. Status(c)' = "answered"
      BY <3>2
    <3> QED
      BY <3>1, <3>3
  <2>2. \A d \in Calls \ {c} : Status(d)' = Status(d)
    BY <1>25, <1>inv DEF Invoke, TypeOK, CallInv, DispatchInv, Emplaced
  <2>3. returned' = returned
    BY <1>25, <1>inv DEF Invoke, TypeOK
  <2> QED
    BY <2>1, <2>2, <2>3, OneCall DEF status, Promise!Next, Promise!Answer
<1>26. ASSUME OnPendingCall
      PROVE  Promise!Next \/ UNCHANGED Promise!vars
  <2> PICK c \in Calls : c = cur
    BY <1>26, <1>inv DEF OnPendingCall, TypeOK, DispatchInv
  <2>0. Emplaced(c) /\ spc' = spc
    BY <1>26, <1>inv DEF OnPendingCall, CallInv, DispatchInv, Emplaced
  <2>1. \A d \in Calls \ {c} : Status(d)' = Status(d)
    BY <1>26, <1>inv DEF OnPendingCall, TypeOK, CallInv, DispatchInv, Emplaced
  <2>2. returned' = returned
    BY <2>0
  <2>3. CASE c \in pending_messages \cap SilentCalls
    <3>1. Status(c) = "pending"
      BY <1>26, <1>inv, <2>0, <2>3 DEF OnPendingCall, CallInv, DispatchInv, Emplaced
    <3>2. c \in answered'
      BY <1>26, <2>3 DEF OnPendingCall
    <3>3. Status(c)' = "answered"
      BY <2>0, <3>2 DEF Emplaced
    <3> QED
      BY <2>1, <2>2, <3>1, <3>3, OneCall DEF status, Promise!Next, Promise!Answer
  <2>4. CASE c \in pending_messages \ SilentCalls
    <3>1. Status(c) = "pending"
      BY <1>26, <1>inv, <2>0, <2>4 DEF OnPendingCall, CallInv, DispatchInv, Emplaced
    <3>2. Status(c)' = "pending"
      <4>1. c \notin answered' /\ opc' = "invoke" /\ cur' = c
        BY <1>26, <1>inv, <2>4 DEF OnPendingCall, DispatchInv
      <4> QED
        BY <2>0, <4>1 DEF Emplaced
    <3> QED
      BY <2>1, <2>2, <3>1, <3>2, NoNews
  <2>5. CASE c \notin pending_messages
    <3>1. c \in swept /\ c \in swept' /\ c \notin answered /\ c \notin answered'
      BY <1>26, <1>inv, <2>0, <2>5 DEF OnPendingCall, CallInv, DispatchInv
    <3>2. opc = "lock" /\ opc' = "idle"
      BY <1>26, <2>5 DEF OnPendingCall
    <3>3. Status(c) = "dropped" /\ Status(c)' = "dropped"
      BY <2>0, <3>1, <3>2 DEF Emplaced
    <3> QED
      BY <2>1, <2>2, <3>3, NoNews
  <2> QED
    BY <2>3, <2>4, <2>5
<1>27. ASSUME NEW c \in Calls, SendWithoutCtx(c)
      PROVE  UNCHANGED Promise!vars
  <2>1. \A d \in Calls : Status(d)' = Status(d)
    BY <1>27, <1>inv DEF SendWithoutCtx, TypeOK, CallInv, DispatchInv, Emplaced
  <2>2. returned' = returned
    BY <1>27, <1>inv DEF SendWithoutCtx, TypeOK
  <2> QED
    BY <2>1, <2>2, NoNews
<1>28. ASSUME Rouse
      PROVE  UNCHANGED Promise!vars
  <2>1. \A d \in Calls : Status(d)' = Status(d)
    BY <1>28, <1>inv DEF Rouse, TypeOK, CallInv, DispatchInv, Emplaced
  <2>2. returned' = returned
    BY <1>28, <1>inv DEF Rouse, TypeOK
  <2> QED
    BY <2>1, <2>2, NoNews
<1>29. ASSUME UNCHANGED vars
      PROVE  UNCHANGED Promise!vars
  <2>1. (\A d \in Calls : Status(d)' = Status(d)) /\ returned' = returned
    BY <1>29 DEF vars
  <2> QED
    BY <2>1, NoNews
<1> QED
  BY <1>1, <1>2, <1>3, <1>4, <1>5, <1>6, <1>7, <1>8, <1>9, <1>10, <1>11, <1>12,
     <1>13, <1>14, <1>15, <1>16, <1>17, <1>18, <1>19, <1>20, <1>21, <1>22,
     <1>23, <1>24, <1>25, <1>26, <1>27, <1>28, <1>29
     DEF Next, Sending, Dispatching, TearingDown

\* The calls implement the protocol that their callers are promised, without
\* fairness.
LEMMA SafePromise == Init /\ [][Next]_vars => KeepsPromise
<1>1. ASSUME Init
      PROVE  Promise!Init
  <2>1. \A c \in Calls : Status(c) = "new"
    BY <1>1 DEF Init, Status
  <2>2. returned = {}
    BY <1>1, CallsAssumption DEF Init, returned
  <2> QED
    BY <2>1, <2>2 DEF Promise!Init, status
<1>2. IInv /\ IInv' /\ [Next]_vars => [Promise!Next]_(Promise!vars)
  BY NextKeepsPromise
<1> QED
  BY SafeInvariant, <1>1, <1>2, PTL DEF KeepsPromise, Promise!Spec

\* The same of the specification.
THEOREM PromiseKept == Spec => KeepsPromise
  BY SafePromise, PTL DEF Spec

-----------------------------------------------------------------------------
\* Without a teardown every pending call is unref'd exactly when it is answered.
\* A connect that fails does run disconnect_impl, but before anything was sent.
UnusedUnlessUp == phase # "up" => \A c \in Calls : spc[c] \in {"new", "refused"}

Steady == ~MayDisconnect => UnusedUnlessUp /\ UnrefdOnce

\* Every action keeps the reference counts in step with the answers.
LEMMA NextSteady ==
  ASSUME IInv, Steady, [Next]_vars, ~MayDisconnect
  PROVE  UnusedUnlessUp' /\ UnrefdOnce'
<1> USE CallsAssumption
    DEF Goto, Unref, SendSteps, WaitSteps, send_vars, disp_vars, conn_vars, history,
        UnusedUnlessUp, UnrefdOnce
<1>inv. /\ TypeOK /\ DispatchInv /\ (\A c \in Calls : CallInv(c))
        /\ UnusedUnlessUp /\ UnrefdOnce
  BY DEF IInv, Steady
<1>1. ASSUME NEW c \in Calls, Check(c) \/ Sending(c) \/ SpuriousWakeup(c)
      PROVE  UnusedUnlessUp' /\ UnrefdOnce'
  <2>1. UnusedUnlessUp'
    BY <1>1, <1>inv DEF Sending, Check, SendLock, SendWithReply, SendRefused, SendWithoutCtx, SetNotify,
                        Emplace, WaitTest, WaitPark, SpuriousWakeup, TypeOK
  <2>2. UnrefdOnce'
    BY <1>1, <1>inv DEF Sending, Check, SendLock, SendWithReply, SendRefused, SendWithoutCtx, SetNotify,
                        Emplace, WaitTest, WaitPark, SpuriousWakeup
  <2> QED
    BY <2>1, <2>2
<1>2. ASSUME NEW c \in Calls, Reply(c) \/ Dispatch(c)
      PROVE  UnusedUnlessUp' /\ UnrefdOnce'
  BY <1>2, <1>inv DEF Reply, Dispatch
<1>3. ASSUME DispatchOther \/ Rouse \/ ReadNotify \/ CallbackReturns \/ Connected
               \/ Open \/ ConnectFails \/ Leave
      PROVE  UnusedUnlessUp' /\ UnrefdOnce'
  BY <1>3, <1>inv DEF DispatchOther, Rouse, ReadNotify, CallbackReturns, Connected, Open,
                      ConnectFails, Leave
<1>4. ASSUME OnPendingCall
      PROVE  UnusedUnlessUp' /\ UnrefdOnce'
  BY <1>4, <1>inv DEF OnPendingCall, TypeOK, CallInv, DispatchInv
<1>5. ASSUME Invoke
      PROVE  UnusedUnlessUp' /\ UnrefdOnce'
  <2>1. UnusedUnlessUp'
    BY <1>5, <1>inv DEF Invoke
  <2>2. \A c \in Calls : unrefs'[c] = IF c \in answered' THEN 1 ELSE 0
    BY <1>5, <1>inv DEF Invoke, TypeOK, DispatchInv
  <2> QED
    BY <2>1, <2>2
<1>6. ASSUME Wake
      PROVE  UnusedUnlessUp' /\ UnrefdOnce'
  BY <1>6, <1>inv DEF Wake, TypeOK
<1>7. ASSUME CancelAll \/ SkipCancel \/ ClearAll \/ Release
      PROVE  UnusedUnlessUp' /\ UnrefdOnce'
  BY <1>7, <1>inv DEF CancelAll, SkipCancel, ClearAll, Release
<1>8. ASSUME UnrefAll
      PROVE  UnusedUnlessUp' /\ UnrefdOnce'
  <2>1. pending_messages = {}
    BY <1>8, <1>inv DEF UnrefAll, TypeOK, CallInv, Emplaced
  <2> QED
    BY <1>8, <1>inv, <2>1 DEF UnrefAll
<1>9. ASSUME UNCHANGED vars
      PROVE  UnusedUnlessUp' /\ UnrefdOnce'
  BY <1>9, <1>inv DEF vars
<1> QED
  BY <1>1, <1>2, <1>3, <1>4, <1>5, <1>6, <1>7, <1>8, <1>9
     DEF Next, Dispatching, TearingDown

\* on_pending_call drops the reference of send exactly once per answered call.
THEOREM UnrefdOnceHolds == Spec => []UnrefdOnce
<1>1. Init => Steady
  BY CallsAssumption DEF Init, Steady, UnusedUnlessUp, UnrefdOnce
<1>2. IInv /\ Steady /\ [Next]_vars => Steady'
  BY NextSteady DEF Steady
<1>3. Steady => UnrefdOnce
  BY DEF Steady, UnrefdOnce
<1> QED
  BY Invariant, <1>1, <1>2, <1>3, PTL DEF Spec

-----------------------------------------------------------------------------
(* Three ways in which send_and_wait never returns. *)

\* Its call was cancelled or swept, or its notification came too early: its
\* thread is in the wait loop, and nobody will hand a reply to it.
LeftBehind(c) == spc[c] \in WaitSteps /\ Status(c) = "dropped"

\* No step of CallProtocol takes back that a call was dropped.
LEMMA DroppedStays ==
  ASSUME NEW c \in Calls, [Promise!Next]_(Promise!vars), Status(c) = "dropped"
  PROVE  Status(c)' = "dropped"
<1>1. /\ status[c] = "dropped" /\ status'[c] = Status(c)'
      /\ status = [d \in Calls |-> status[d]]
  BY DEF status
<1> HIDE DEF status
<1>2. CASE UNCHANGED Promise!vars
  BY <1>1, <1>2 DEF Promise!vars
<1>3. CASE Promise!Next
  <2>1. ASSUME NEW d \in Calls, \/ Promise!Refuse(d) \/ Promise!Accept(d)
                                \/ Promise!Answer(d) \/ Promise!Return(d)
        PROVE  status'[c] = "dropped"
    BY <1>1, <2>1 DEF Promise!Refuse, Promise!Accept, Promise!Answer, Promise!Return,
                      Promise!Become
  <2>2. ASSUME NEW S \in SUBSET Calls, Promise!Drop(S)
        PROVE  status'[c] = "dropped"
    BY <1>1, <2>2 DEF Promise!Drop
  <2> QED
    BY <1>1, <1>3, <2>1, <2>2 DEF Promise!Next
<1> QED
  BY <1>2, <1>3

LEMMA SafeLeftBehind ==
  Init /\ [][Next]_vars => [][\A c \in SyncCalls : LeftBehind(c) => LeftBehind(c)']_vars
<1>1. ASSUME IInv, IInv', [Next]_vars, NEW c \in SyncCalls, LeftBehind(c)
      PROVE  LeftBehind(c)'
  <2>1. c \in Calls /\ [Promise!Next]_(Promise!vars)
    BY <1>1, CallsAssumption, NextKeepsPromise
  <2>2. Status(c)' = "dropped"
    BY <1>1, <2>1, DroppedStays DEF LeftBehind
  <2>3. (spc[c] \in WaitSteps)'
    \* It returns with a reply only, and a dropped call has none.
    <3>1. (c \notin answered /\ Dropped(c))'
      BY <2>2 DEF Status
    <3>2. CallInv(c)'
      BY <1>1, <2>1 DEF IInv
    <3> QED
      BY <3>1, <3>2 DEF CallInv, Dropped
  <2> QED
    BY <2>2, <2>3 DEF LeftBehind
<1>2. IInv /\ IInv' /\ [Next]_vars => [\A c \in SyncCalls : LeftBehind(c) => LeftBehind(c)']_vars
  BY <1>1
<1> QED
  BY SafeInvariant, <1>2, PTL

\* A send_and_wait whose call was dropped, by a teardown or by a reply that came
\* before dbus_pending_call_set_notify, waits for ever, although
\* connection.hpp:126-128 lets it return at the timeout: no reply, error,
\* wakeup or reconnect gets it out of its loop.
THEOREM LeftBehindForGood ==
  Spec => [][\A c \in SyncCalls : LeftBehind(c) => LeftBehind(c)']_vars
  BY SafeLeftBehind, PTL DEF Spec

\* Its reply is there and it sleeps, and the notify_one that was to wake it is over.
NobodyWakes(c) == c \in got_reply /\ spc[c] = "asleep" /\ ~(opc = "wake" /\ cur = c)

\* Only the handler that hands over the reply could wake it, and that ran once.
LEMMA WakeupsEnd ==
  ASSUME IInv, [Next]_vars, NEW c \in SyncCalls, NobodyWakes(c), ~SpuriousWakeup(c)
  PROVE  NobodyWakes(c)'
<1>inv. c \in Calls /\ TypeOK /\ DispatchInv /\ CallInv(c)
  BY CallsAssumption DEF IInv
<1> USE DEF NobodyWakes, send_vars, disp_vars, conn_vars, history
<1>1. CASE UNCHANGED vars
  BY <1>1 DEF vars
<1>2. ASSUME NEW d \in Calls, Check(d) \/ Sending(d) \/ SpuriousWakeup(d)
      PROVE  NobodyWakes(c)'
  <2>1. d # c
    BY <1>2 DEF Check, Sending, SendLock, SendWithReply, SendRefused, SendWithoutCtx, SetNotify, Emplace,
                WaitTest, WaitPark
  <2>2. UNCHANGED disp_vars /\ \E label : Goto(d, label)
    BY <1>2 DEF Check, Sending, SendLock, SendWithReply, SendRefused, SendWithoutCtx, SetNotify, Emplace,
                WaitTest, WaitPark, SpuriousWakeup
  <2> QED
    BY <1>inv, <2>1, <2>2 DEF Goto, TypeOK
<1>3. ASSUME NEW d \in Calls, Reply(d) \/ Dispatch(d)
      PROVE  NobodyWakes(c)'
  BY <1>3 DEF Reply, Dispatch
<1>4. CASE Invoke
  <2>1. cur # c
    BY <1>4, <1>inv DEF Invoke, CallInv, DispatchInv
  <2> QED
    BY <1>4, <2>1 DEF Invoke
<1>5. CASE Wake
  <2>1. cur # c
    BY <1>5 DEF Wake
  <2> QED
    BY <1>5, <1>inv, <2>1 DEF Wake, Goto, TypeOK
<1>6. CASE DispatchOther \/ Rouse \/ ReadNotify \/ OnPendingCall \/ CallbackReturns
  BY <1>6 DEF DispatchOther, Rouse, ReadNotify, OnPendingCall, CallbackReturns
<1>7. CASE TearingDown \/ Open \/ Connected \/ ConnectFails \/ Leave
  BY <1>7 DEF TearingDown, CancelAll, SkipCancel, UnrefAll, ClearAll, Release, Open, Connected,
              ConnectFails, Leave
<1> QED
  BY <1>1, <1>2, <1>3, <1>4, <1>5, <1>6, <1>7 DEF Next, Dispatching

LEMMA SafeWakeups ==
  Init /\ [][Next]_vars =>
    [][\A c \in SyncCalls : NobodyWakes(c) /\ ~SpuriousWakeup(c) => NobodyWakes(c)']_vars
<1>1. IInv /\ [Next]_vars =>
        [\A c \in SyncCalls : NobodyWakes(c) /\ ~SpuriousWakeup(c) => NobodyWakes(c)']_vars
  BY WakeupsEnd
<1> QED
  BY SafeInvariant, <1>1, PTL

\* The wakeup that send_and_wait lost, because cond.wait and notify_one do not
\* share cond_mutex with got_reply, does not come again: its thread sleeps on the
\* reply it has until it happens to wake up by itself.
THEOREM LostWakeupForGood ==
  Spec => [][\A c \in SyncCalls : NobodyWakes(c) /\ ~SpuriousWakeup(c) => NobodyWakes(c)']_vars
  BY SafeWakeups, PTL DEF Spec

\* While a call that was made from a callback is in progress, the dispatch thread is
\* in that callback; so nobody hands a reply to its send_and_wait.
CallbackInv ==
  \A c \in CallbackCalls :
    /\ InProgress(c) => opc = "callback"
    /\ c \in SyncCalls => c \notin answered

\* A step of a sender begins a call of a callback in the callback only.
LEMMA SenderKeepsCallback ==
  ASSUME IInv, CallbackInv, NEW d \in Calls, Check(d) \/ Sending(d) \/ SpuriousWakeup(d)
  PROVE  CallbackInv'
<1>1. /\ UNCHANGED disp_vars /\ \E label : Goto(d, label)
      /\ spc[d] \in {"returned", "refused"} => FALSE
      /\ spc[d] = "new" => (d \in CallbackCalls => opc = "callback")
  BY DEF Check, Sending, SendLock, SendWithReply, SendRefused, SendWithoutCtx, SetNotify, Emplace,
         WaitTest, WaitPark, SpuriousWakeup, disp_vars
<1>2. spc \in [Calls -> {"new", "checked", "returned", "refused"} \cup SendSteps \cup WaitSteps]
  BY DEF IInv, TypeOK
<1>3. \A c \in CallbackCalls : InProgress(c)' => InProgress(c) \/ c = d
  BY <1>1, <1>2, CallsAssumption DEF Goto, InProgress
<1>4. d \in CallbackCalls => opc = "callback"
  BY <1>1 DEF CallbackInv, InProgress
<1> QED
  BY <1>1, <1>3, <1>4 DEF CallbackInv, disp_vars

LEMMA NextCallback ==
  ASSUME IInv, CallbackInv, [Next]_vars
  PROVE  CallbackInv'
<1>inv. TypeOK /\ DispatchInv /\ \A c \in Calls : CallInv(c)
  BY DEF IInv
<1> USE DEF CallbackInv, InProgress, send_vars, disp_vars, conn_vars, history
<1>1. CASE UNCHANGED vars
  BY <1>1 DEF vars
<1>2. ASSUME NEW d \in Calls, Check(d) \/ Sending(d) \/ SpuriousWakeup(d)
      PROVE  CallbackInv'
  BY <1>2, SenderKeepsCallback
<1>3. ASSUME NEW d \in Calls, Reply(d) \/ Dispatch(d)
      PROVE  CallbackInv'
  BY <1>3 DEF Reply, Unnoticed, Dispatch
<1>4. CASE DispatchOther \/ Rouse \/ ReadNotify \/ CallbackReturns
  BY <1>4 DEF DispatchOther, Rouse, ReadNotify, CallbackReturns
<1>5. CASE OnPendingCall
  <2>1. answered' \subseteq answered \cup SilentCalls /\ spc' = spc /\ opc = "lock"
    BY <1>5 DEF OnPendingCall
  <2> QED
    BY <2>1, CallsAssumption
<1>6. CASE Invoke
  <2>1. cur \notin SyncCalls \cap CallbackCalls
    BY <1>6, <1>inv, CallsAssumption
       DEF Invoke, TypeOK, CallInv, DispatchInv, Emplaced, WaitSteps
  <2>2. answered' = answered \cup {cur} /\ spc' = spc /\ opc = "invoke"
    BY <1>6 DEF Invoke
  <2> QED
    BY <2>1, <2>2
<1>7. CASE Wake
  <2>1. /\ answered' = answered /\ opc = "wake"
        /\ spc' = spc \/ (spc[cur] = "asleep" /\ spc' = [spc EXCEPT ![cur] = "test"])
    BY <1>7 DEF Wake, Goto
  <2>2. \A c \in CallbackCalls : ~InProgress(c)
    BY <2>1
  <2>3. spc[cur] = "asleep" => cur \notin CallbackCalls
    BY <2>2
  <2> QED
    BY <1>inv, <2>1, <2>2, <2>3, CallsAssumption DEF TypeOK
<1>8. CASE TearingDown \/ Open \/ Connected \/ ConnectFails \/ Leave
  BY <1>8 DEF TearingDown, CancelAll, SkipCancel, UnrefAll, ClearAll, Release, Open, Connected,
              ConnectFails, Leave
<1> QED
  BY <1>1, <1>2, <1>3, <1>4, <1>5, <1>6, <1>7, <1>8 DEF Next, Dispatching

LEMMA SafeCallback == Init /\ [][Next]_vars => []CallbackInv
<1>1. ASSUME Init, NEW c \in CallbackCalls
      PROVE  spc[c] = "new" /\ answered = {}
  BY <1>1, CallsAssumption DEF Init
<1>3. Init => CallbackInv
  BY <1>1 DEF CallbackInv, InProgress
<1>2. IInv /\ CallbackInv /\ [Next]_vars => CallbackInv'
  BY NextCallback
<1> QED
  BY SafeInvariant, <1>3, <1>2, PTL

\* send_and_wait in a callback never returns: the dispatch thread, which alone
\* could hand it the reply or the error of its timeout, is the one that waits.
NeverReturns == \A c \in SyncCalls \cap CallbackCalls : spc[c] # "returned"

LEMMA CallbackFacts ==
  ASSUME IInv, CallbackInv
  PROVE  NeverReturns
<1> SUFFICES ASSUME NEW c \in SyncCalls \cap CallbackCalls
             PROVE  spc[c] # "returned"
  BY DEF NeverReturns
<1>1. c \in Calls /\ CallInv(c) /\ c \notin answered
  BY CallsAssumption DEF IInv, CallbackInv
<1> QED
  BY <1>1 DEF CallInv

THEOREM CallbackNeverReturns == Spec => []NeverReturns
<1>1. IInv /\ CallbackInv => NeverReturns
  BY CallbackFacts
<1> QED
  BY SafeInvariant, SafeCallback, <1>1, PTL DEF Spec

\* Once such a send_and_wait waits, the dispatch thread dispatches nothing more.
WaitsForItself == \E c \in SyncCalls \cap CallbackCalls : spc[c] \in WaitSteps

LEMMA WaitGoesOn ==
  ASSUME IInv, IInv', CallbackInv, CallbackInv', [Next]_vars,
         NEW c \in SyncCalls \cap CallbackCalls, spc[c] \in WaitSteps
  PROVE  spc'[c] \in WaitSteps /\ opc' = "callback"
<1>type. /\ c \in Calls /\ CallInv(c)
         /\ spc \in [Calls -> {"new", "checked", "returned", "refused"} \cup SendSteps \cup WaitSteps]
  BY CallsAssumption DEF IInv, TypeOK
<1>inv. /\ c \in Calls /\ c \notin got_reply /\ opc = "callback" /\ DOMAIN spc = Calls
  BY <1>type DEF CallInv, CallbackInv, InProgress, WaitSteps
<1> USE DEF WaitSteps
<1>1. ASSUME UNCHANGED vars
      PROVE  spc'[c] \in WaitSteps
  BY <1>1 DEF vars, send_vars
<1>2. ASSUME NEW d \in Calls, Check(d) \/ Sending(d) \/ SpuriousWakeup(d)
      PROVE  spc'[c] \in WaitSteps
  <2>1. CASE d = c
    BY <1>inv, <1>2, <2>1 DEF Check, Sending, SendLock, SendWithReply, SendRefused, SendWithoutCtx, SetNotify,
           Emplace, WaitTest, WaitPark, SpuriousWakeup, Goto
  <2>2. CASE d # c
    <3>1. \E label : Goto(d, label)
      BY <1>2 DEF Check, Sending, SendLock, SendWithReply, SendRefused, SendWithoutCtx, SetNotify, Emplace,
             WaitTest, WaitPark, SpuriousWakeup
    <3> QED
      BY <1>inv, <2>2, <3>1 DEF Goto
  <2> QED
    BY <2>1, <2>2
<1>3. ASSUME Next, ~(\E d \in Calls : Check(d) \/ Sending(d) \/ SpuriousWakeup(d))
      PROVE  spc'[c] \in WaitSteps
  <2>1. spc' = spc \/ opc = "wake"
    BY <1>3 DEF Next, Reply, Dispatching, Dispatch, DispatchOther, Rouse, ReadNotify, OnPendingCall, Invoke,
           Wake, CallbackReturns, TearingDown, CancelAll, SkipCancel, UnrefAll, ClearAll, Release,
           Open, Connected, ConnectFails, Leave, send_vars
  <2> QED
    BY <1>inv, <2>1
<1>4. spc'[c] \in WaitSteps
  BY <1>1, <1>2, <1>3 DEF Next
<1> QED
  BY <1>4 DEF CallbackInv, InProgress

LEMMA SafeWait ==
  Init /\ [][Next]_vars => [][WaitsForItself => WaitsForItself' /\ opc' = "callback"]_vars
<1>1. IInv /\ IInv' /\ CallbackInv /\ CallbackInv' /\ [Next]_vars =>
        [WaitsForItself => WaitsForItself' /\ opc' = "callback"]_vars
  BY WaitGoesOn DEF WaitsForItself
<1> QED
  BY SafeInvariant, SafeCallback, <1>1, PTL

\* So it is for good: no reply, timeout or teardown of another thread ends the
\* callback, and no message is dispatched on that connection any more.
THEOREM WaitsForItselfForGood ==
  Spec => [][WaitsForItself => WaitsForItself' /\ opc' = "callback"]_vars
  BY SafeWait, PTL DEF Spec

-----------------------------------------------------------------------------
(* CallsHistory: what a teardown that overtakes a send does. *)

\* While the connection is not up, whoever is in send was overtaken; a connection
\* that is opening or up has its ctx; and what the map holds after clear () came too late.
OvertakenInv ==
  /\ phase \in {"opening", "up"} => ctx
  /\ \A c \in Calls :
       /\ phase # "up" /\ InSend(c) => c \in overtaken
       /\ spc[c] = "undefined" => c \in overtaken
       /\ phase \in {"join", "down", "opening"} /\ c \in pending_messages => c \in overtaken

\* A sender moves on within send, or enters it while the connection is up.
LEMMA NextOvertaken ==
  ASSUME IInv, OvertakenInv, [HNext]_hvars
  PROVE  OvertakenInv'
<1>type. spc \in [Calls -> {"new", "checked", "returned", "refused"} \cup SendSteps \cup WaitSteps]
  BY DEF IInv, TypeOK
<1> USE DEF OvertakenInv, InSend, Goto, SendSteps, WaitSteps, send_vars, disp_vars, conn_vars,
            history
<1>1. CASE UNCHANGED hvars
  BY <1>1 DEF hvars, vars
<1>2. ASSUME NEW d \in Calls, HNext, Check(d) \/ Sending(d) \/ SpuriousWakeup(d)
      PROVE  OvertakenInv'
  <2>1. UNCHANGED <<phase, ctx, overtaken>>
    BY <1>2 DEF HNext, Check, Sending, SendLock, SendWithReply, SendRefused, SendWithoutCtx,
                SetNotify, Emplace, WaitTest, WaitPark, SpuriousWakeup
  <2>2. CASE Check(d)
    BY <1>type, <2>1, <2>2 DEF Check
  <2>3. CASE Emplace(d)
    BY <1>type, <2>1, <2>3 DEF Emplace
  <2>4. CASE SendWithoutCtx(d)
    BY <1>type, <2>1, <2>4 DEF SendWithoutCtx
  <2>5. CASE SendLock(d) \/ SendWithReply(d) \/ SendRefused(d) \/ SetNotify(d)
    BY <1>type, <2>1, <2>5 DEF SendLock, SendWithReply, SendRefused, SetNotify
  <2>6. CASE WaitTest(d) \/ WaitPark(d) \/ SpuriousWakeup(d)
    BY <1>type, <2>1, <2>6 DEF WaitTest, WaitPark, SpuriousWakeup
  <2> QED
    BY <1>2, <2>2, <2>3, <2>4, <2>5, <2>6 DEF Sending
<1>3. ASSUME NEW d \in Calls, HNext, Reply(d) \/ Dispatch(d)
      PROVE  OvertakenInv'
  BY <1>3 DEF HNext, Reply, Dispatch
<1>4. CASE HNext /\ (DispatchOther \/ Rouse \/ ReadNotify \/ OnPendingCall \/ Invoke \/ CallbackReturns)
  <2>1. /\ UNCHANGED <<phase, ctx, overtaken, spc>>
        /\ pending_messages' \subseteq pending_messages
    BY <1>4 DEF HNext, DispatchOther, Rouse, ReadNotify, OnPendingCall, Invoke, CallbackReturns
  <2> QED
    BY <2>1
<1>5. CASE HNext /\ Wake
  <2>1. UNCHANGED <<phase, ctx, overtaken, pending_messages>>
    BY <1>5 DEF HNext, Wake
  <2>2. \A c \in Calls : spc'[c] # spc[c] => spc'[c] = "test"
    BY <1>5, <1>type DEF Wake
  <2> QED
    BY <2>1, <2>2
<1>6. CASE HNext /\ Leave
  <2>1. /\ phase = "up" /\ phase' = "cancel"
        /\ UNCHANGED <<spc, pending_messages>>
    BY <1>6 DEF Leave
  <2>2. overtaken' = overtaken \cup {c \in Calls : InSend(c)}
    BY <1>6, <2>1 DEF HNext
  <2> QED
    BY <2>1, <2>2
<1>7. CASE HNext /\ (Open \/ Connected \/ ConnectFails)
  BY <1>7 DEF HNext, Open, Connected, ConnectFails
<1>8. CASE HNext /\ TearingDown
  BY <1>8 DEF HNext, TearingDown, CancelAll, SkipCancel, UnrefAll, ClearAll, Release
<1> QED
  BY <1>1, <1>2, <1>3, <1>4, <1>5, <1>6, <1>7, <1>8 DEF HNext, Next, Dispatching

\* Only a send that a teardown overtook goes on without a ctx, or leaves its entry in
\* the map of a connection that is down.
THEOREM OnlyOvertakenGoWrongHolds == HSpec => []OnlyOvertakenGoWrong
<1>1. Init /\ overtaken = {} => OvertakenInv
  BY DEF Init, OvertakenInv, InSend, SendSteps
<1>2. IInv /\ OvertakenInv /\ [HNext]_hvars => OvertakenInv'
  BY NextOvertaken
<1>3. OvertakenInv => OnlyOvertakenGoWrong
  BY DEF OvertakenInv, OnlyOvertakenGoWrong
<1>4. [HNext]_hvars => [Next]_vars
  BY DEF HNext, hvars
<1> QED
  BY SafeInvariant, <1>1, <1>2, <1>3, <1>4, PTL DEF HSpec, HInit

=============================================================================
