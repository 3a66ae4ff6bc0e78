------------------------------ MODULE Objects ------------------------------
(***************************************************************************)
(* Object handlers.  Each has a map of the object paths it serves; libdbus *)
(* has a tree of the paths of all of them, with a pointer to the map entry *)
(* that the dispatch thread follows when a method call comes.              *)
(*                                                                         *)
(* opaths_lock protects the map, and libdbus its tree, but the dispatch    *)
(* thread has neither lock when it takes the pointer to dbus_on_message.   *)
(***************************************************************************)
EXTENDS Naturals, Sequences

CONSTANTS Handlers, Threads, Dispatcher, Paths,
          NoEntry,
          Above,       \* for each path, the paths above it, nearest first
          MaxEntries, MaxCloses  \* bounds: entries made and disconnects

VARIABLES
  phase,        \* "up", "closing" (a teardown, the dispatch thread still runs) or "down"
  entries,      \* the entries in the maps
  registered,   \* what libdbus has for each path
  opaths_lock,  \* of each handler, its owner or "free"
  gone,         \* the handlers that are destroyed
  op,           \* what each thread is doing
  dispatch,     \* the method call being dispatched
  forgotten,    \* history: entries whose paths libdbus forgot in a disconnect,
  abandoned,    \*   those of handlers destroyed without a connection,
  raced,        \*   and those erased under the dispatch thread
  made, closes  \* how many there were
vars == <<phase, entries, registered, opaths_lock, gone, op, dispatch, forgotten, abandoned, raced, made, closes>>

Callers == Threads \cup {Dispatcher}
Entry == [of : Handlers, path : Paths, fallback : BOOLEAN, id : 1..MaxEntries]
NoOp == [at |-> "idle", entry |-> NoEntry]
NoMessage == [at |-> "idle", paths |-> <<>>, first |-> TRUE, entry |-> NoEntry]
Nothing == [p \in Paths |-> NoEntry]

ASSUME ObjectsAssumption ==
  /\ Dispatcher \notin Threads /\ NoEntry \notin Entry /\ "free" \notin Callers
  /\ Above \in [Paths -> Seq(Paths)]
  /\ {MaxEntries, MaxCloses} \subseteq Nat

EntriesOf(h) == {e \in entries : e.of = h}
At(h, p) == {e \in entries : e.of = h /\ e.path = p}

\* A map has one entry for a path.
TypeOK ==
  /\ phase \in {"up", "closing", "down"}
  /\ entries \subseteq Entry /\ \A e, f \in entries : (e.of = f.of /\ e.path = f.path) => e = f
  /\ registered \in [Paths -> Entry \cup {NoEntry}]
  /\ opaths_lock \in [Handlers -> Callers \cup {"free"}]
  /\ gone \subseteq Handlers
  /\ forgotten \cup abandoned \cup raced \subseteq Entry

Init ==
  /\ phase = "up" /\ entries = {} /\ registered = Nothing
  /\ opaths_lock = [h \in Handlers |-> "free"] /\ gone = {}
  /\ op = [t \in Callers |-> NoOp] /\ dispatch = NoMessage
  /\ forgotten = {} /\ abandoned = {} /\ raced = {} /\ made = 0 /\ closes = 0

-----------------------------------------------------------------------------
(* Calls of the handlers, by threads and by the callbacks they serve *)

MayCall(t, h) ==
  /\ op[t].at = "idle" /\ h \notin gone /\ opaths_lock[h] = "free"
  /\ t = Dispatcher => dispatch.at = "callback"
Lock(t, h, at, entry) ==
  /\ opaths_lock' = [opaths_lock EXCEPT ![h] = t]
  /\ op' = [op EXCEPT ![t] = [at |-> at, entry |-> entry]]
Unlock(t, h) ==
  /\ opaths_lock' = [opaths_lock EXCEPT ![h] = "free"]
  /\ op' = [op EXCEPT ![t] = NoOp]

\* The dispatch thread has the pointer to such an entry.
UnderDispatch(gone_entries) ==
  IF dispatch.at = "found" THEN gone_entries \cap {dispatch.entry} ELSE {}

\* A path that is in the map only gets another callback, registered or not;
\* without a connection there is nothing to register with.
RegisterObjectPath(t, h, p, fallback) ==
  /\ MayCall(t, h) /\ At(h, p) = {} /\ phase = "up" /\ made < MaxEntries
  /\ made' = made + 1
  /\ LET e == [of |-> h, path |-> p, fallback |-> fallback, id |-> made']
     IN  Lock(t, h, "register", e) /\ entries' = entries \cup {e}
  /\ UNCHANGED <<phase, registered, gone, dispatch, forgotten, abandoned, raced, closes>>

\* libdbus refuses a path that is registered, by any handler, and may be out
\* of memory; without ctx there is no libdbus to ask.
TryRegister(t) ==
  LET e == op[t].entry
  IN  /\ op[t].at = "register"
      /\ \/ /\ registered[e.path] = NoEntry /\ phase # "down"
            /\ registered' = [registered EXCEPT ![e.path] = e]
            /\ UNCHANGED entries
         \/ /\ entries' = entries \ {e}
            /\ UNCHANGED registered
      /\ Unlock(t, e.of)
      /\ UNCHANGED <<phase, gone, dispatch, forgotten, abandoned, raced, made, closes>>

UnregisterObjectPath(t, h, p) ==
  /\ MayCall(t, h) /\ phase = "up"
  /\ \E e \in At(h, p) : Lock(t, h, "unregister", e)
  /\ UNCHANGED <<phase, entries, registered, gone, dispatch, forgotten, abandoned, raced, made, closes>>

\* Mutant of Unregister: the entry is erased whatever libdbus answers.
Unregister_unchecked(t) ==
  LET e == op[t].entry
  IN  /\ op[t].at = "unregister"
      /\ entries' = entries \ {e}
      /\ raced' = raced \cup UnderDispatch({e})
      /\ registered' = IF phase # "down" THEN [registered EXCEPT ![e.path] = NoEntry] ELSE registered
      /\ Unlock(t, e.of)
      /\ UNCHANGED <<phase, gone, dispatch, forgotten, abandoned, made, closes>>

\* What is registered for the path is removed, whichever handler it is of.
Unregister(t) ==
  LET e == op[t].entry
  IN  /\ op[t].at = "unregister"
      /\ \/ /\ phase # "down"
            /\ registered' = [registered EXCEPT ![e.path] = NoEntry]
            /\ entries' = entries \ {e}
            /\ raced' = raced \cup UnderDispatch({e})
         \/ phase = "down" /\ UNCHANGED <<registered, entries, raced>>
      /\ Unlock(t, e.of)
      /\ UNCHANGED <<phase, gone, dispatch, forgotten, abandoned, made, closes>>

\* The destructor, when no other thread uses the handler.  If there is no
\* connection, it leaves libdbus as it is.
Destroy(t, h) ==
  /\ MayCall(t, h)
  /\ Lock(t, h, IF phase = "up" THEN "unregister_all" ELSE "destroy", [of |-> h])
  /\ gone' = gone \cup {h}
  /\ abandoned' = IF phase = "up" THEN abandoned ELSE abandoned \cup EntriesOf(h)
  /\ UNCHANGED <<phase, entries, registered, dispatch, forgotten, raced, made, closes>>

UnregisterAll(t) ==
  LET h == op[t].entry.of
  IN  /\ op[t].at = "unregister_all"
      /\ op' = [op EXCEPT ![t].at = "destroy"]
      /\ IF phase = "down"
         THEN abandoned' = abandoned \cup EntriesOf(h) /\ UNCHANGED registered
         ELSE /\ registered' = [p \in Paths |-> IF At(h, p) # {} THEN NoEntry ELSE registered[p]]
              /\ UNCHANGED abandoned
      /\ UNCHANGED <<phase, entries, opaths_lock, gone, dispatch, forgotten, raced, made, closes>>

DestroyMap(t) ==
  LET h == op[t].entry.of
  IN  /\ op[t].at = "destroy"
      /\ raced' = raced \cup UnderDispatch(EntriesOf(h))
      /\ entries' = entries \ EntriesOf(h)
      /\ Unlock(t, h)
      /\ UNCHANGED <<phase, registered, gone, dispatch, forgotten, abandoned, made, closes>>

-----------------------------------------------------------------------------
(* The dispatch thread *)

\* A method call for a path: libdbus tries the path, then the fallbacks above.
Message(p) ==
  /\ phase # "down" /\ dispatch.at = "idle"
  /\ dispatch' = [NoMessage EXCEPT !.at = "find", !.paths = <<p>> \o Above[p]]
  /\ UNCHANGED <<phase, entries, registered, opaths_lock, gone, op, forgotten, abandoned, raced, made, closes>>

\* libdbus takes the pointer, and gives its lock back.
Find ==
  /\ dispatch.at = "find"
  /\ dispatch' =
       IF dispatch.paths = <<>> THEN NoMessage
       ELSE LET e == registered[Head(dispatch.paths)]
                found == e # NoEntry /\ (dispatch.first \/ e.fallback)
            IN  [at |-> IF found THEN "found" ELSE "find", paths |-> Tail(dispatch.paths),
                 first |-> FALSE, entry |-> IF found THEN e ELSE NoEntry]
  /\ UNCHANGED <<phase, entries, registered, opaths_lock, gone, op, forgotten, abandoned, raced, made, closes>>

\* dbus_on_message takes the lock of the handler that the entry names, and the
\* callback out of the entry.  If the entry is gone (undefined), it may find
\* what was there; otherwise the program ends.
OnMessage ==
  /\ dispatch.at = "found" /\ opaths_lock[dispatch.entry.of] = "free"
  /\ dispatch' = [dispatch EXCEPT !.at = "callback"]
  /\ UNCHANGED <<phase, entries, registered, opaths_lock, gone, op, forgotten, abandoned, raced, made, closes>>

\* A callback that does not handle the call leaves it to the next.
CallbackReturns ==
  /\ dispatch.at = "callback" /\ op[Dispatcher].at = "idle"
  /\ dispatch' \in {NoMessage, [dispatch EXCEPT !.at = "find", !.entry = NoEntry]}
  /\ UNCHANGED <<phase, entries, registered, opaths_lock, gone, op, forgotten, abandoned, raced, made, closes>>

-----------------------------------------------------------------------------
(* The connection.  A teardown joins the dispatch thread.  The tree of a     *)
(* private DBusConnection goes with it; that of a shared one stays and is    *)
(* there again after the next connect.                                       *)

Close ==
  /\ phase = "up" /\ closes < MaxCloses
  /\ phase' = "closing" /\ closes' = closes + 1
  /\ UNCHANGED <<entries, registered, opaths_lock, gone, op, dispatch, forgotten, abandoned, raced, made>>

Closed ==
  /\ phase = "closing" /\ dispatch.at = "idle"
  /\ phase' = "down"
  /\ \/ registered' = Nothing /\ forgotten' = forgotten \cup entries
     \/ UNCHANGED <<registered, forgotten>>
  /\ UNCHANGED <<entries, opaths_lock, gone, op, dispatch, abandoned, raced, made, closes>>

Connect ==
  /\ phase = "down" /\ phase' = "up"
  /\ UNCHANGED <<entries, registered, opaths_lock, gone, op, dispatch, forgotten, abandoned, raced, made, closes>>

Next ==
  \/ \E t \in Callers :
       \/ TryRegister(t) \/ Unregister(t) \/ UnregisterAll(t) \/ DestroyMap(t)
       \/ \E h \in Handlers :
            \/ Destroy(t, h)
            \/ \E p \in Paths :
                 UnregisterObjectPath(t, h, p)
                   \/ \E fallback \in BOOLEAN : RegisterObjectPath(t, h, p, fallback)
  \/ \E p \in Paths : Message(p)
  \/ Find \/ OnMessage \/ CallbackReturns
  \/ Close \/ Closed \/ Connect

Spec == Init /\ [][Next]_vars

-----------------------------------------------------------------------------

\* libdbus points only to entries that exist, unless a handler was destroyed
\* while there was no connection: its destructor (45) then leaves its paths in
\* the tree of a shared DBusConnection, or of one that is being torn down.
RegisteredIsLive == \A p \in Paths : registered[p] \in entries \cup abandoned \cup {NoEntry}

\* A path in a map is registered, except while it is being registered or its
\* handler is busy, and except for a path that libdbus forgot in a disconnect.
\* Another handler may have registered such a path since: it loses it when the
\* first one unregisters it.
MapIsRegistered ==
  \A e \in entries :
    \/ registered[e.path] = e \/ opaths_lock[e.of] # "free"
    \/ \E f \in forgotten : f.path = e.path

\* The entry of which the dispatch thread has a pointer exists, unless it was
\* erased between the moment libdbus took the pointer and the lock (146).
DeadOnlyIfRaced ==
  dispatch.at = "found" => dispatch.entry \in entries \cup raced \cup abandoned

\* The maps and the tree of libdbus agree, and so does what was taken from it.
MapsAgree == RegisteredIsLive /\ MapIsRegistered /\ DeadOnlyIfRaced
=============================================================================
