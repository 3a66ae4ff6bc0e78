---------------------------- MODULE PendingCalls ----------------------------
(***************************************************************************)
(* The calls an ultrabus::connection has outstanding: send() with a reply  *)
(* callback, send_and_wait() on top of it, on_pending_call() on the        *)
(* dispatch thread, and what disconnect_impl does to pending_messages.     *)
(*                                                                         *)
(* A call stands for one message that is sent once, by a thread of its own *)
(* or from a callback on the dispatch thread.  A call of SyncCalls is made *)
(* by send_and_wait; its callback writes to the frame of the waiting       *)
(* thread.  A call of SilentCalls has an empty reply callback.             *)
(*                                                                         *)
(* libdbus is external: a pending call is attached until its reply (which  *)
(* may be the error that libdbus makes up after the timeout or when the    *)
(* bus is gone) is queued, completed when the dispatch thread takes the    *)
(* reply from the queue, and detached when it is cancelled or when its     *)
(* private connection is closed.  Only then is its notify function read,   *)
(* so one that is set later is never called.                               *)
(***************************************************************************)
EXTENDS Naturals

CONSTANTS Calls,
          SyncCalls,         \* calls of send_and_wait
          SilentCalls,       \* calls of send with an empty callback
          CallbackCalls,     \* calls made from a callback
          NoCall,
          MayDisconnect      \* is the connection ever torn down?

ASSUME CallsAssumption ==
  /\ SyncCalls \subseteq Calls
  /\ SilentCalls \subseteq Calls \ SyncCalls
  /\ CallbackCalls \subseteq Calls
  /\ NoCall \notin Calls
  /\ MayDisconnect \in BOOLEAN

VARIABLES spc,               \* where each call's sender is
          pending_mutex,     \* the call whose sender holds it, or NoCall
          pending_messages,  \* calls with an entry in the map of that name
          pending,           \* libdbus: the state of each DBusPendingCall
          notify_set,        \* libdbus: calls whose notify function is set
          opc,               \* where the dispatch thread is
          cur,               \* the call whose reply it is handling
          answered,          \* calls whose reply was handed over (or discarded)
          got_reply,         \* got_reply of the frames of send_and_wait
          unrefs,            \* dbus_pending_call_unref's of each call
          phase,             \* where the connection is, as the calls see it
          ctx,               \* is connection::ctx set?
          swept              \* history: calls whose entry clear () removed

send_vars == <<spc, pending_mutex, pending_messages, notify_set>>
disp_vars == <<opc, cur, answered, got_reply>>
history   == <<swept>>
conn_vars == <<phase, ctx>>
vars == <<send_vars, pending, disp_vars, unrefs, conn_vars, history>>

SendSteps   == {"locked", "sent", "notified", "undefined"}  \* pending_mutex is held
WaitSteps   == {"test", "park", "asleep"}              \* in the wait loop
Phases      == {"down", "opening", "up", "cancel", "unref", "clear", "join"}

TypeOK ==
  /\ spc \in [Calls -> {"new", "checked", "returned", "refused"}
                         \cup SendSteps \cup WaitSteps]
  /\ pending_mutex \in Calls \cup {NoCall}
  /\ pending_messages \subseteq Calls
  /\ pending \in [Calls -> {"none", "attached", "replied", "completed", "detached"}]
  /\ notify_set \subseteq Calls
  /\ opc \in {"idle", "overslept", "notify", "lock", "invoke", "wake", "callback"}
  /\ cur \in Calls \cup {NoCall}
  /\ answered \subseteq Calls
  /\ got_reply \subseteq SyncCalls
  /\ unrefs \in [Calls -> 0..2]
  /\ phase \in Phases
  /\ ctx \in BOOLEAN
  /\ swept \subseteq Calls

Init ==
  /\ spc = [c \in Calls |-> "new"]
  /\ pending_mutex = NoCall
  /\ pending_messages = {}
  /\ pending = [c \in Calls |-> "none"]
  /\ notify_set = {}
  /\ opc = "idle"
  /\ cur = NoCall
  /\ answered = {}
  /\ got_reply = {}
  /\ unrefs = [c \in Calls |-> 0]
  /\ phase = "down"
  /\ ctx = FALSE
  /\ swept = {}

Goto(c, label) == spc' = [spc EXCEPT ![c] = label]
Unref(S) == unrefs' = [c \in Calls |-> IF c \in S THEN unrefs[c] + 1 ELSE unrefs[c]]

InProgress(c) == spc[c] \notin {"new", "returned", "refused"}

-----------------------------------------------------------------------------
(* send () and send_and_wait () in the calling thread. *)

\* Mutant of Check: a connection that is being torn down counts as connected.
Check_any_state(c) ==
  /\ spc[c] = "new"
  /\ c \in CallbackCalls =>
       opc = "callback" /\ \A d \in CallbackCalls : ~InProgress(d)
  /\ Goto(c, IF ctx THEN "checked" ELSE "refused")
  /\ UNCHANGED <<pending_mutex, pending_messages, notify_set, pending,
                 disp_vars, unrefs, conn_vars, history>>

\* is_connected (), which send and send_and_wait consult before anything else.
Check(c) ==
  /\ spc[c] = "new"
  /\ c \in CallbackCalls =>
       opc = "callback" /\ \A d \in CallbackCalls : ~InProgress(d)
  /\ Goto(c, IF phase = "up" THEN "checked" ELSE "refused")
  /\ UNCHANGED <<pending_mutex, pending_messages, notify_set, pending,
                 disp_vars, unrefs, conn_vars, history>>

SendLock(c) ==
  /\ spc[c] = "checked"
  /\ pending_mutex = NoCall
  /\ pending_mutex' = c
  /\ Goto(c, "locked")
  /\ UNCHANGED <<pending_messages, notify_set, pending, disp_vars, unrefs,
                 conn_vars, history>>

\* dbus_connection_send_with_reply gives a pending call.
SendWithReply(c) ==
  /\ spc[c] = "locked"
  /\ ctx
  /\ pending' = [pending EXCEPT ![c] = "attached"]
  /\ Goto(c, "sent")
  /\ UNCHANGED <<pending_mutex, pending_messages, notify_set, disp_vars, unrefs,
                 conn_vars, history>>

\* Mutant of SendRefused: the early return leaves pending_mutex locked.
SendRefused_locked(c) ==
  /\ spc[c] = "locked"
  /\ ctx
  /\ Goto(c, "refused")
  /\ UNCHANGED <<pending_mutex, pending_messages, notify_set, pending, disp_vars,
                 unrefs, conn_vars, history>>

\* It gives none: out of memory, or the bus is gone.
SendRefused(c) ==
  /\ spc[c] = "locked"
  /\ ctx
  /\ pending_mutex' = NoCall
  /\ Goto(c, "refused")
  /\ UNCHANGED <<pending_messages, notify_set, pending, disp_vars, unrefs,
                 conn_vars, history>>

\* It is called with a ctx that is null, or that a teardown released meanwhile: a
\* failed check of libdbus, which aborts, or a use after free.  Nothing good comes
\* of this call any more, and nobody gets the mutex.
SendWithoutCtx(c) ==
  /\ spc[c] = "locked"
  /\ ~ctx
  /\ Goto(c, "undefined")
  /\ UNCHANGED <<pending_mutex, pending_messages, notify_set, pending, disp_vars,
                 unrefs, conn_vars, history>>

\* Mutant of SetNotify: pending_mutex is given up before the emplace.
SetNotify_unlocks(c) ==
  /\ spc[c] = "sent"
  /\ notify_set' = notify_set \cup {c}
  /\ pending_mutex' = NoCall
  /\ Goto(c, "notified")
  /\ UNCHANGED <<pending_messages, pending, disp_vars, unrefs, conn_vars, history>>

SetNotify(c) ==
  /\ spc[c] = "sent"
  /\ notify_set' = notify_set \cup {c}
  /\ Goto(c, "notified")
  /\ UNCHANGED <<pending_mutex, pending_messages, pending, disp_vars, unrefs,
                 conn_vars, history>>

\* pending_messages.emplace, and the lock_guard ends; send_and_wait goes on to
\* its wait loop.
Emplace(c) ==
  /\ spc[c] = "notified"
  /\ pending_messages' = pending_messages \cup {c}
  /\ pending_mutex' = NoCall
  /\ Goto(c, IF c \in SyncCalls THEN "test" ELSE "returned")
  /\ UNCHANGED <<notify_set, pending, disp_vars, unrefs, conn_vars, history>>

\* while (!got_reply): neither this test nor the write it waits for holds
\* cond_mutex.
WaitTest(c) ==
  /\ spc[c] = "test"
  /\ Goto(c, IF c \in got_reply THEN "returned" ELSE "park")
  /\ UNCHANGED <<pending_mutex, pending_messages, notify_set, pending, disp_vars,
                 unrefs, conn_vars, history>>

\* cond.wait (lock) puts the thread to sleep.
WaitPark(c) ==
  /\ spc[c] = "park"
  /\ Goto(c, "asleep")
  /\ UNCHANGED <<pending_mutex, pending_messages, notify_set, pending, disp_vars,
                 unrefs, conn_vars, history>>

\* Mutant of SpuriousWakeup: if (!got_reply) cond.wait () instead of a loop.
SpuriousWakeup_returns(c) ==
  /\ spc[c] = "asleep"
  /\ Goto(c, "returned")
  /\ UNCHANGED <<pending_mutex, pending_messages, notify_set, pending, disp_vars,
                 unrefs, conn_vars, history>>

SpuriousWakeup(c) ==
  /\ spc[c] = "asleep"
  /\ Goto(c, "test")
  /\ UNCHANGED <<pending_mutex, pending_messages, notify_set, pending, disp_vars,
                 unrefs, conn_vars, history>>

-----------------------------------------------------------------------------
(* libdbus and on_pending_call () on the dispatch thread. *)

\* The dispatch thread has nothing queued and is between its predicate and its
\* sleep, where a notify is lost (see Park of Connection), or it sleeps and
\* disconnect_impl has removed the functions that would notify it.
Unnoticed ==
  /\ opc = "idle"
  /\ phase \notin {"down", "opening"}
  /\ \A c \in Calls : pending[c] # "replied"

\* The reply, or the error that stands for it, is queued, and the dispatch thread
\* notified: it misses that, or wakes up if it overslept before.
Reply(c) ==
  /\ pending[c] = "attached"
  /\ ctx
  /\ pending' = [pending EXCEPT ![c] = "replied"]
  /\ \/ opc # "overslept" /\ UNCHANGED opc
     \/ Unnoticed /\ opc' = "overslept"
     \/ opc = "overslept" /\ opc' = "idle"
     \/ opc = "overslept" /\ phase \in {"unref", "clear", "join"} /\ UNCHANGED opc
  /\ UNCHANGED <<send_vars, cur, answered, got_reply, unrefs, conn_vars, history>>

\* What else wakes a dispatch thread that overslept: another message, the notify of
\* a teardown (497) unless that is missed too, or nothing at all.
Rouse ==
  /\ opc = "overslept"
  /\ opc' = "idle"
  /\ UNCHANGED <<send_vars, pending, cur, answered, got_reply, unrefs, conn_vars, history>>

\* dbus_connection_dispatch takes the reply from the queue.
Dispatch(c) ==
  /\ opc = "idle"
  /\ phase \notin {"down", "opening"}
  /\ pending[c] = "replied"
  /\ pending' = [pending EXCEPT ![c] = "completed"]
  /\ opc' = "notify"
  /\ cur' = c
  /\ UNCHANGED <<send_vars, answered, got_reply, unrefs, conn_vars, history>>

\* dbus_connection_dispatch takes another message and runs a callback.
DispatchOther ==
  /\ opc = "idle"
  /\ phase \notin {"down", "opening"}
  /\ opc' = "callback"
  /\ UNCHANGED <<send_vars, pending, cur, answered, got_reply, unrefs, conn_vars, history>>

\* libdbus calls static_pending_call_cb if it was given by now.
ReadNotify ==
  /\ opc = "notify"
  /\ IF cur \in notify_set
     THEN opc' = "lock" /\ UNCHANGED cur
     ELSE opc' = "idle" /\ cur' = NoCall
  /\ UNCHANGED <<send_vars, pending, answered, got_reply, unrefs, conn_vars, history>>

\* Mutant of OnPendingCall: the pending call is unref'd when it is found, too.
OnPendingCall_unrefs_twice ==
  /\ opc = "lock"
  /\ pending_mutex = NoCall
  /\ pending_messages' = pending_messages \ {cur}
  /\ Unref({cur} \cap pending_messages)
  /\ IF cur \in pending_messages \ SilentCalls
     THEN opc' = "invoke" /\ UNCHANGED <<cur, answered>>
     ELSE /\ opc' = "idle"
          /\ cur' = NoCall
          /\ answered' = answered \cup ({cur} \cap pending_messages)
  /\ UNCHANGED <<spc, pending_mutex, notify_set, pending, got_reply, conn_vars, history>>

\* Mutant of OnPendingCall: the entry is erased and its callback dropped.
OnPendingCall_drops ==
  /\ opc = "lock"
  /\ pending_mutex = NoCall
  /\ pending_messages' = pending_messages \ {cur}
  /\ opc' = "idle"
  /\ cur' = NoCall
  /\ Unref({cur} \cap pending_messages)
  /\ UNCHANGED <<spc, pending_mutex, notify_set, pending, answered, got_reply,
                 conn_vars, history>>

\* Mutant of OnPendingCall: the callback is run whether or not there is an entry.
OnPendingCall_unchecked ==
  /\ opc = "lock"
  /\ pending_mutex = NoCall
  /\ pending_messages' = pending_messages \ {cur}
  /\ opc' = "invoke"
  /\ UNCHANGED <<spc, pending_mutex, notify_set, pending, cur, answered, got_reply,
                 unrefs, conn_vars, history>>

\* The critical section of on_pending_call, and for an empty callback its end.
OnPendingCall ==
  /\ opc = "lock"
  /\ pending_mutex = NoCall
  /\ pending_messages' = pending_messages \ {cur}
  /\ IF cur \in pending_messages \ SilentCalls
     THEN opc' = "invoke" /\ UNCHANGED <<cur, answered, unrefs>>
     ELSE /\ opc' = "idle"
          /\ cur' = NoCall
          /\ Unref({cur} \cap pending_messages)
          /\ answered' = answered \cup ({cur} \cap pending_messages)
  /\ UNCHANGED <<spc, pending_mutex, notify_set, pending, got_reply, conn_vars, history>>

\* Unref the pending call and run the callback: that of send_and_wait moves the
\* reply into the waiting frame and sets got_reply.
Invoke ==
  /\ opc = "invoke"
  /\ Unref({cur})
  /\ answered' = answered \cup {cur}
  /\ IF cur \in SyncCalls
     THEN /\ got_reply' = got_reply \cup {cur}
          /\ opc' = "wake"
          /\ UNCHANGED cur
     ELSE /\ opc' = "callback"
          /\ cur' = NoCall
          /\ UNCHANGED got_reply
  /\ UNCHANGED <<send_vars, pending, conn_vars, history>>

\* cond.notify_one () of send_and_wait's callback, without cond_mutex.
Wake ==
  /\ opc = "wake"
  /\ opc' = "idle"
  /\ cur' = NoCall
  /\ IF spc[cur] = "asleep" THEN Goto(cur, "test") ELSE UNCHANGED spc
  /\ UNCHANGED <<pending_mutex, pending_messages, notify_set, pending, answered,
                 got_reply, unrefs, conn_vars, history>>

\* A callback of the program returns, once its own calls have.
CallbackReturns ==
  /\ opc = "callback"
  /\ \A c \in CallbackCalls : ~InProgress(c)
  /\ opc' = "idle"
  /\ UNCHANGED <<send_vars, pending, cur, answered, got_reply, unrefs, conn_vars, history>>

-----------------------------------------------------------------------------
(* What connect () and disconnect_impl () mean for the calls. *)

\* connect () got ctx, and then the threads run.
Open ==
  /\ phase = "down"
  /\ phase' = "opening"
  /\ ctx' = TRUE
  /\ UNCHANGED <<send_vars, pending, disp_vars, unrefs, history>>

Connected ==
  /\ phase = "opening"
  /\ phase' = "up"
  /\ UNCHANGED <<send_vars, pending, disp_vars, unrefs, ctx, history>>

\* connect () fails before it has ctx, or after, and tears down what it has.
ConnectFails ==
  /\ phase = "down"
  /\ phase' = "cancel"
  /\ ctx' \in BOOLEAN
  /\ UNCHANGED <<send_vars, pending, disp_vars, unrefs, history>>

\* disconnect (), or is_connected () that finds the bus gone.
Leave ==
  /\ MayDisconnect
  /\ phase = "up"
  /\ phase' = "cancel"
  /\ UNCHANGED <<send_vars, pending, disp_vars, unrefs, ctx, history>>

\* dbus_pending_call_cancel for every entry, under pending_mutex.  It detaches
\* a call that is not completed; a reply already queued is then ignored.
CancelAll ==
  /\ phase = "cancel"
  /\ ctx
  /\ pending_mutex = NoCall
  /\ phase' = "unref"
  /\ pending' = [c \in Calls |->
                   IF c \in pending_messages /\ pending[c] \in {"attached", "replied"}
                   THEN "detached" ELSE pending[c]]
  /\ UNCHANGED <<send_vars, disp_vars, unrefs, ctx, history>>

\* The bus is gone, or there is no ctx: nothing is cancelled.
SkipCancel ==
  /\ phase = "cancel"
  /\ phase' = "unref"
  /\ UNCHANGED <<send_vars, pending, disp_vars, unrefs, ctx, history>>

\* Unref every entry; pending_mutex is not taken.
UnrefAll ==
  /\ phase = "unref"
  /\ phase' = "clear"
  /\ Unref(pending_messages)
  /\ UNCHANGED <<send_vars, pending, disp_vars, ctx, history>>

\* Mutant of ClearAll: the unref'd entries stay in the map.
ClearAll_keeps ==
  /\ phase = "clear"
  /\ phase' = "join"
  /\ swept' = swept \cup pending_messages
  /\ UNCHANGED <<send_vars, pending, disp_vars, unrefs, ctx>>

\* pending_messages.clear (), without pending_mutex as well.
ClearAll ==
  /\ phase = "clear"
  /\ phase' = "join"
  /\ swept' = swept \cup pending_messages
  /\ pending_messages' = {}
  /\ UNCHANGED <<spc, pending_mutex, notify_set, pending, disp_vars, unrefs, ctx>>

\* The dispatch thread has ended; ctx is released.  A private connection takes
\* its pending calls with it, a shared one keeps them.
Release ==
  /\ phase = "join"
  /\ opc = "idle"
  /\ phase' = "down"
  /\ ctx' = FALSE
  /\ \/ UNCHANGED pending
     \/ pending' = [c \in Calls |->
                      IF pending[c] \in {"attached", "replied"}
                      THEN "detached" ELSE pending[c]]
  /\ UNCHANGED <<send_vars, disp_vars, unrefs, history>>

-----------------------------------------------------------------------------
Sending(c) ==
  \/ SendLock(c) \/ SendWithReply(c) \/ SendRefused(c) \/ SendWithoutCtx(c)
  \/ SetNotify(c) \/ Emplace(c) \/ WaitTest(c) \/ WaitPark(c)

Dispatching ==
  \/ \E c \in Calls : Dispatch(c)
  \/ ReadNotify \/ OnPendingCall \/ Invoke \/ Wake \/ CallbackReturns

TearingDown ==
  CancelAll \/ SkipCancel \/ UnrefAll \/ ClearAll \/ Release

Next ==
  \/ \E c \in Calls : Check(c) \/ Sending(c) \/ SpuriousWakeup(c) \/ Reply(c)
  \/ Dispatching
  \/ DispatchOther \/ Rouse
  \/ TearingDown
  \/ Open \/ Connected \/ ConnectFails \/ Leave

\* Threads are scheduled, a call times out if nobody answers it, and a dispatch
\* thread that is awake keeps dispatching until its queue is empty: the queue is
\* first in first out, so other messages cannot keep a reply in it forever.  One
\* that overslept a reply is not woken by any fairness.  A dispatch thread that is
\* told to stop lets the teardown release ctx, whatever it still dispatches first.
\* Spurious wakeups are not fair.
Fairness ==
  /\ \A c \in Calls : WF_vars(Sending(c)) /\ WF_vars(Reply(c))
  /\ \A c \in Calls : SF_vars(Dispatch(c))
  /\ WF_vars(Dispatching)
  /\ WF_vars(Connected \/ TearingDown)
  /\ SF_vars(Release)

Spec == Init /\ [][Next]_vars /\ Fairness

-----------------------------------------------------------------------------
(* Properties. *)

\* When on_pending_call gets pending_mutex, its entry is there, and "Pending call
\* not found !?!" (1469) is never printed, unless clear () took the entry: send
\* holds the mutex from before the reply can come until the entry is in the map.
EntryFound ==
  opc = "lock" /\ pending_mutex = NoCall => cur \in pending_messages \cup swept

\* The callback of send_and_wait writes to a frame that still exists: the
\* waiting thread does not leave the frame before got_reply is set.
FrameAliveAtReply ==
  opc = "invoke" /\ cur \in SyncCalls => spc[cur] \in WaitSteps

\* A call whose entry clear () removed is never answered afterwards.
SweptIsSilent == swept \cap answered = {}

\* As long as nothing tears the connection down, a pending call is unref'd once,
\* when its reply is handed over, and not before.
UnrefdOnce ==
  ~MayDisconnect => \A c \in Calls : unrefs[c] = IF c \in answered THEN 1 ELSE 0

\* The reply came before dbus_pending_call_set_notify: nobody was told, and the
\* entry stays in the map.
NotifyMissed(c) ==
  pending[c] = "completed" /\ cur # c /\ c \in pending_messages

\* A call that send accepted is answered, unless its notification was missed, a
\* teardown cancelled it, swept it or left nobody to dispatch its reply, the
\* dispatch thread sleeps on for ever after a notify that it missed (1376), or a
\* send without ctx never gives pending_mutex back.
AcceptedIsAnswered ==
  \A c \in Calls :
    c \in pending_messages
      ~> \/ c \in answered
         \/ NotifyMissed(c)
         \/ c \in swept \/ pending[c] = "detached" \/ phase = "down"
         \/ [](opc = "overslept")
         \/ \E d \in Calls : spc[d] = "undefined"

\* connection.hpp:126-128: send_and_wait blocks "until the reply or timeout".
\* Its reply is there, so it returns.
RepliedReturns == \A c \in SyncCalls : c \in got_reply ~> spc[c] = "returned"

-----------------------------------------------------------------------------
(* What a caller is promised: CallProtocol, under this mapping. *)

\* Nobody will hand over this call's reply any more.
Dropped(c) ==
  /\ spc[c] \in WaitSteps \cup {"returned"}
  /\ ~(opc = "invoke" /\ cur = c)
  /\ \/ c \in swept
     \/ pending[c] = "detached"
     \/ pending[c] = "completed" /\ cur # c

Status(c) ==
  IF spc[c] \in {"new", "checked", "locked", "undefined"} THEN "new"
  ELSE IF spc[c] = "refused" THEN "refused"
  ELSE IF c \in answered THEN "answered"
  ELSE IF Dropped(c) THEN "dropped"
  ELSE "pending"

status == [c \in Calls |-> Status(c)]

returned == {c \in SyncCalls : spc[c] = "returned"}

Promise == INSTANCE CallProtocol

\* Every behaviour of the calls is one that CallProtocol allows.
KeepsPromise == Promise!Spec

=============================================================================
