--------------------------- MODULE Objects_proofs ---------------------------
(***************************************************************************)
(* For any handlers, threads, paths and bounds: types, and that the maps   *)
(* of the handlers and the tree of libdbus agree (MapsAgree).              *)
(***************************************************************************)
EXTENDS Objects, TLAPS

Steps == {"idle", "register", "unregister", "unregister_all", "destroy"}
Moments == {"idle", "find", "found", "callback"}

\* What the variables without a place in TypeOK range over.
Ranges ==
  /\ op \in [Callers -> [at : Steps, entry : Entry \cup [of : Handlers] \cup {NoEntry}]]
  /\ dispatch \in [at : Moments, paths : Seq(Paths), first : BOOLEAN, entry : Entry \cup {NoEntry}]
  /\ dispatch.at = "found" => dispatch.entry \in Entry
  /\ made \in 0..MaxEntries
  /\ \A e \in entries \cup abandoned \cup raced : e.id <= made

\* A thread in an operation has the lock of the handler it works on.
OpInv ==
  \A t \in Callers :
    /\ op[t].at \in {"register", "unregister"} => op[t].entry \in entries
    /\ op[t].at \in {"unregister_all", "destroy"} => op[t].entry \in [of : Handlers]
    /\ op[t].at # "idle" => opaths_lock[op[t].entry.of] = t

\* An entry that is being registered is nowhere yet.
NewInv ==
  \A t \in Callers : op[t].at = "register" =>
    /\ \A p \in Paths : registered[p] # op[t].entry
    /\ dispatch.at = "found" => dispatch.entry # op[t].entry

\* The entries of a handler are unregistered before they are destroyed.
OldInv ==
  \A t \in Callers : op[t].at = "destroy" =>
    \A p \in Paths : registered[p] \in EntriesOf(op[t].entry.of) => registered[p] \in abandoned

TreeInv ==
  /\ \A p \in Paths : registered[p] # NoEntry => registered[p].path = p
  /\ RegisteredIsLive

\* The paths that libdbus forgot; what was registered for them may be any.
Forgot(p) == \E f \in forgotten : f.path = p
Going(e) ==
  \E t \in Callers : \/ op[t].at = "register" /\ op[t].entry = e
                     \/ op[t].at = "destroy" /\ op[t].entry.of = e.of
MapInv == \A e \in entries : registered[e.path] = e \/ Forgot(e.path) \/ Going(e)

Inv == TypeOK /\ Ranges /\ OpInv /\ NewInv /\ OldInv /\ TreeInv /\ MapInv /\ DeadOnlyIfRaced

-----------------------------------------------------------------------------

\* Nothing is registered at first.
LEMMA InitInv == Init => Inv
<1> SUFFICES ASSUME Init PROVE Inv
  OBVIOUS
<1> USE ObjectsAssumption DEF Init, Callers, Nothing, NoOp, NoMessage
<1>1. TypeOK
  BY DEF TypeOK
<1>2. Ranges
  BY DEF Ranges, Steps, Moments
<1>3. OpInv /\ NewInv /\ OldInv /\ MapInv /\ DeadOnlyIfRaced
  BY DEF OpInv, NewInv, OldInv, MapInv, DeadOnlyIfRaced
<1>4. TreeInv
  BY DEF TreeInv, RegisteredIsLive
<1> QED
  BY <1>1, <1>2, <1>3, <1>4 DEF Inv

-----------------------------------------------------------------------------
(* The handlers' operations *)

\* A thread in an operation has the lock of a handler.
LEMMA Handling ==
  ASSUME TypeOK, Ranges, OpInv
  PROVE  \A u \in Callers : op[u].at # "idle" =>
           op[u].entry.of \in Handlers /\ opaths_lock[op[u].entry.of] = u
<1> SUFFICES ASSUME NEW u \in Callers, op[u].at # "idle"
             PROVE  op[u].entry.of \in Handlers /\ opaths_lock[op[u].entry.of] = u
  OBVIOUS
<1>1. op[u].at \in Steps \ {"idle"}
  BY DEF Ranges
<1>2. op[u].entry.of \in Handlers
  BY <1>1 DEF OpInv, TypeOK, Entry, Steps
<1> QED
  BY <1>1, <1>2 DEF OpInv

\* While a thread has the lock of a handler, or takes it, the others that are
\* in an operation are in one of other handlers.
LEMMA OthersKeep ==
  ASSUME TypeOK, Ranges, OpInv, NEW t \in Callers, NEW h \in Handlers,
         opaths_lock[h] = "free" \/ opaths_lock[h] = t,
         \A v \in Callers \ {t} : op'[v] = op[v],
         \A g \in Handlers \ {h} : opaths_lock'[g] = opaths_lock[g]
  PROVE  \A u \in Callers \ {t} : op'[u].at # "idle" =>
           /\ op'[u] = op[u]
           /\ op[u].entry.of \in Handlers \ {h}
           /\ opaths_lock[op[u].entry.of] = u /\ opaths_lock'[op[u].entry.of] = u
<1> SUFFICES ASSUME NEW u \in Callers \ {t}, op'[u].at # "idle"
             PROVE  /\ op[u].entry.of \in Handlers \ {h}
                    /\ opaths_lock[op[u].entry.of] = u
                    /\ opaths_lock'[op[u].entry.of] = u
  OBVIOUS
<1>1. op[u].entry.of \in Handlers /\ opaths_lock[op[u].entry.of] = u
  BY Handling
<1> QED
  BY <1>1, ObjectsAssumption

\* register_object_path up to the call of libdbus: the entry is new.
LEMMA RegisterInv ==
  ASSUME Inv, NEW t \in Callers, NEW h \in Handlers, NEW p \in Paths, NEW fallback \in BOOLEAN,
         RegisterObjectPath(t, h, p, fallback)
  PROVE  Inv'
<1> DEFINE e == [of |-> h, path |-> p, fallback |-> fallback, id |-> made + 1]
<1> USE ObjectsAssumption
<1>inv. TypeOK /\ Ranges /\ OpInv /\ NewInv /\ OldInv /\ TreeInv /\ MapInv /\ DeadOnlyIfRaced
  BY DEF Inv
<1>step. /\ MayCall(t, h) /\ At(h, p) = {} /\ made < MaxEntries /\ made' = made + 1
         /\ Lock(t, h, "register", e) /\ entries' = entries \cup {e}
         /\ UNCHANGED <<phase, registered, gone, dispatch, forgotten, abandoned, raced, closes>>
  BY DEF RegisterObjectPath
<1>e. e \in Entry /\ e.id = made + 1 /\ e.of = h /\ e.path = p
  BY <1>inv, <1>step DEF Entry, Ranges
<1>new. e \notin entries \cup abandoned \cup raced
  BY <1>inv, <1>e DEF Ranges, TypeOK, Entry
<1>op. /\ op' = [op EXCEPT ![t] = [at |-> "register", entry |-> e]]
       /\ opaths_lock' = [opaths_lock EXCEPT ![h] = t]
       /\ op[t].at = "idle" /\ opaths_lock[h] = "free"
  BY <1>step DEF Lock, MayCall
<1> HIDE DEF e
<1>others. \A u \in Callers \ {t} : op'[u].at # "idle" =>
             op'[u] = op[u] /\ opaths_lock'[op[u].entry.of] = u
  BY <1>inv, <1>op, OthersKeep DEF Ranges, TypeOK
<1>1. TypeOK'
  <2>1. \A x, y \in entries' : x.of = y.of /\ x.path = y.path => x = y
    BY <1>inv, <1>step, <1>e DEF TypeOK, At
  <2> QED
    BY <1>inv, <1>step, <1>e, <1>op, <2>1 DEF TypeOK
<1>2. Ranges'
  <2>1. op' \in [Callers -> [at : Steps, entry : Entry \cup [of : Handlers] \cup {NoEntry}]]
    BY <1>inv, <1>op, <1>e DEF Ranges, Steps
  <2>2. \A x \in (entries \cup abandoned \cup raced)' : x.id <= made'
    BY <1>inv, <1>step, <1>e DEF Ranges, TypeOK, Entry
  <2> QED
    BY <1>inv, <1>step, <1>e, <2>1, <2>2 DEF Ranges
<1>3. OpInv'
  <2> SUFFICES ASSUME NEW u \in Callers, op'[u].at # "idle"
               PROVE  /\ op'[u].at \in {"register", "unregister"} => op'[u].entry \in entries'
                      /\ op'[u].at \in {"unregister_all", "destroy"} => op'[u].entry \in [of : Handlers]
                      /\ opaths_lock'[op'[u].entry.of] = u
    BY DEF OpInv
  <2>1. CASE u = t
    BY <2>1, <1>inv, <1>step, <1>op, <1>e DEF Ranges, TypeOK
  <2>2. CASE u # t
    BY <2>2, <1>inv, <1>step, <1>others DEF OpInv
  <2> QED
    BY <2>1, <2>2
<1>4. NewInv'
  BY <1>inv, <1>step, <1>op, <1>e, <1>new DEF NewInv, TreeInv, RegisteredIsLive, DeadOnlyIfRaced, Ranges
<1>5. OldInv'
  BY <1>inv, <1>step, <1>op, <1>e, <1>new DEF OldInv, OpInv, EntriesOf, TreeInv, RegisteredIsLive, Ranges
<1>6. TreeInv'
  BY <1>inv, <1>step DEF TreeInv, RegisteredIsLive
<1>7. MapInv'
  <2> SUFFICES ASSUME NEW x \in entries'
               PROVE  (registered[x.path] = x \/ Forgot(x.path) \/ Going(x))'
    BY DEF MapInv
  <2>1. CASE x = e
    BY <2>1, <1>op, <1>inv DEF Going, Ranges
  <2>2. CASE x \in entries
    BY <2>2, <1>op, <1>inv, <1>step DEF MapInv, Going, Forgot, Ranges
  <2> QED
    BY <2>1, <2>2, <1>step
<1>8. DeadOnlyIfRaced'
  BY <1>inv, <1>step DEF DeadOnlyIfRaced
<1> QED
  BY <1>1, <1>2, <1>3, <1>4, <1>5, <1>6, <1>7, <1>8 DEF Inv

\* A call that only takes the lock of a handler: unregister_object_path, and
\* the destructor, which does no more if there is no connection.
LEMMA LocksInv ==
  ASSUME Inv, NEW t \in Callers, NEW h \in Handlers, MayCall(t, h),
         opaths_lock' = [opaths_lock EXCEPT ![h] = t],
         op' \in [Callers -> [at : Steps, entry : Entry \cup [of : Handlers] \cup {NoEntry}]],
         \A v \in Callers \ {t} : op'[v] = op[v],
         op'[t].entry.of = h,
         \/ op'[t].at = "unregister" /\ op'[t].entry \in entries
         \/ op'[t].at \in {"unregister_all", "destroy"} /\ op'[t].entry \in [of : Handlers],
         abandoned' \in {abandoned, abandoned \cup EntriesOf(h)},
         op'[t].at = "destroy" => abandoned' = abandoned \cup EntriesOf(h),
         gone' \in {gone, gone \cup {h}},
         UNCHANGED <<phase, entries, registered, dispatch, forgotten, raced, made>>
  PROVE  Inv'
<1> USE ObjectsAssumption
<1>inv. TypeOK /\ Ranges /\ OpInv /\ NewInv /\ OldInv /\ TreeInv /\ MapInv /\ DeadOnlyIfRaced
  BY DEF Inv
<1>op. op[t].at = "idle" /\ opaths_lock[h] = "free" /\ opaths_lock'[h] = t
  BY <1>inv DEF MayCall, TypeOK
<1>same. \A g \in Handlers \ {h} : opaths_lock'[g] = opaths_lock[g]
  BY <1>inv DEF TypeOK
<1>others. \A u \in Callers \ {t} : op'[u].at # "idle" =>
             op'[u] = op[u] /\ opaths_lock'[op[u].entry.of] = u
  <2> SUFFICES ASSUME NEW u \in Callers \ {t}, op[u].at # "idle"
               PROVE  opaths_lock'[op[u].entry.of] = u
    OBVIOUS
  <2>1. op[u].entry.of \in Handlers /\ opaths_lock[op[u].entry.of] = u
    BY <1>inv, Handling
  <2> QED
    BY <2>1, <1>op, <1>same DEF Callers
<1>1. TypeOK'
  BY <1>inv, <1>op DEF TypeOK, EntriesOf
<1>2. Ranges'
  BY <1>inv DEF Ranges, EntriesOf
<1>3. OpInv'
  <2> SUFFICES ASSUME NEW u \in Callers, op'[u].at # "idle"
               PROVE  /\ op'[u].at \in {"register", "unregister"} => op'[u].entry \in entries'
                      /\ op'[u].at \in {"unregister_all", "destroy"} => op'[u].entry \in [of : Handlers]
                      /\ opaths_lock'[op'[u].entry.of] = u
    BY DEF OpInv
  <2>1. CASE u = t
    BY <2>1, <1>op
  <2>2. CASE u # t
    BY <2>2, <1>inv, <1>others DEF OpInv
  <2> QED
    BY <2>1, <2>2
<1>4. NewInv'
  <2> SUFFICES ASSUME NEW u \in Callers, op'[u].at = "register"
               PROVE  /\ \A p \in Paths : registered[p] # op'[u].entry
                      /\ dispatch.at = "found" => dispatch.entry # op'[u].entry
    BY DEF NewInv
  <2>1. u # t /\ op'[u] = op[u]
    BY <1>others
  <2> QED
    BY <2>1, <1>inv DEF NewInv
<1>5. OldInv'
  <2> SUFFICES ASSUME NEW u \in Callers, op'[u].at = "destroy", NEW p \in Paths,
                      registered[p] \in EntriesOf(op'[u].entry.of)
               PROVE  registered[p] \in abandoned'
    BY DEF OldInv, EntriesOf
  <2>1. CASE u = t
    BY <2>1 DEF EntriesOf
  <2>2. CASE u # t
    <3>1. op[u].at = "destroy" /\ registered[p] \in EntriesOf(op[u].entry.of)
      BY <2>2, <1>others
    <3> QED
      BY <3>1, <1>inv DEF OldInv
  <2> QED
    BY <2>1, <2>2
<1>6. TreeInv'
  BY <1>inv DEF TreeInv, RegisteredIsLive
<1>7. MapInv'
  <2> SUFFICES ASSUME NEW x \in entries, Going(x) PROVE Going(x)'
    BY <1>inv DEF MapInv, Forgot
  <2>1. PICK u \in Callers : \/ op[u].at = "register" /\ op[u].entry = x
                             \/ op[u].at = "destroy" /\ op[u].entry.of = x.of
    BY DEF Going
  <2>2. u # t /\ op'[u] = op[u]
    BY <2>1, <1>op
  <2> QED
    BY <2>1, <2>2 DEF Going
<1>8. DeadOnlyIfRaced'
  BY <1>inv DEF DeadOnlyIfRaced
<1> QED
  BY <1>1, <1>2, <1>3, <1>4, <1>5, <1>6, <1>7, <1>8 DEF Inv

\* libdbus takes the new entry, or the map loses it again.
LEMMA TryRegisterInv ==
  ASSUME Inv, NEW t \in Callers, TryRegister(t)
  PROVE  Inv'
<1> DEFINE e == op[t].entry
<1> USE ObjectsAssumption
<1>inv. TypeOK /\ Ranges /\ OpInv /\ NewInv /\ OldInv /\ TreeInv /\ MapInv /\ DeadOnlyIfRaced
  BY DEF Inv
<1>op. /\ op' = [op EXCEPT ![t] = NoOp]
       /\ opaths_lock' = [opaths_lock EXCEPT ![e.of] = "free"]
  BY DEF TryRegister, Unlock
<1>e. /\ e \in entries /\ e \in Entry /\ e.of \in Handlers /\ e.path \in Paths
      /\ op[t].at = "register" /\ opaths_lock[e.of] = t
  BY <1>inv DEF TryRegister, OpInv, TypeOK, Entry
<1>mine. op'[t].at = "idle"
  BY <1>inv, <1>op DEF Ranges, NoOp
<1>others. \A u \in Callers \ {t} : op'[u].at # "idle" =>
             op'[u] = op[u] /\ op[u].entry.of # e.of /\ opaths_lock'[op[u].entry.of] = u
  BY <1>inv, <1>op, <1>e, OthersKeep DEF Ranges, TypeOK
<1> HIDE DEF e
<1>step. /\ \/ /\ registered[e.path] = NoEntry
               /\ registered' = [registered EXCEPT ![e.path] = e]
               /\ UNCHANGED entries
            \/ entries' = entries \ {e} /\ UNCHANGED registered
         /\ UNCHANGED <<phase, gone, dispatch, forgotten, abandoned, raced, made, closes>>
  BY DEF TryRegister, e
<1>new. /\ \A p \in Paths : registered[p] # e
        /\ dispatch.at = "found" => dispatch.entry # e
  BY <1>inv, <1>e DEF NewInv, e
<1>rest. /\ entries' \in {entries, entries \ {e}}
         /\ \A p \in Paths : registered'[p] \in {registered[p], e}
         /\ registered' \in [Paths -> Entry \cup {NoEntry}]
  <2>1. registered \in [Paths -> Entry \cup {NoEntry}]
    BY <1>inv DEF TypeOK
  <2>2. CASE registered' = [registered EXCEPT ![e.path] = e] /\ UNCHANGED entries
    BY <2>1, <2>2, <1>e
  <2>3. CASE entries' = entries \ {e} /\ UNCHANGED registered
    BY <2>1, <2>3
  <2> QED
    BY <2>2, <2>3, <1>step
<1>1. TypeOK'
  BY <1>inv, <1>step, <1>rest, <1>op, <1>e DEF TypeOK
<1>2. Ranges'
  <2>1. op' \in [Callers -> [at : Steps, entry : Entry \cup [of : Handlers] \cup {NoEntry}]]
    BY <1>inv, <1>op DEF Ranges, Steps, NoOp
  <2> QED
    BY <1>inv, <1>step, <2>1 DEF Ranges
<1>3. OpInv'
  <2> SUFFICES ASSUME NEW u \in Callers, op'[u].at # "idle"
               PROVE  /\ op'[u].at \in {"register", "unregister"} => op'[u].entry \in entries'
                      /\ op'[u].at \in {"unregister_all", "destroy"} => op'[u].entry \in [of : Handlers]
                      /\ opaths_lock'[op'[u].entry.of] = u
    BY DEF OpInv
  <2>1. u # t /\ op'[u] = op[u] /\ op[u].entry # e
    BY <1>mine, <1>others
  <2> QED
    BY <2>1, <1>inv, <1>rest, <1>others DEF OpInv
<1>4. NewInv'
  <2> SUFFICES ASSUME NEW u \in Callers, op'[u].at = "register"
               PROVE  /\ \A p \in Paths : registered'[p] # op'[u].entry
                      /\ dispatch.at = "found" => dispatch.entry # op'[u].entry
    BY <1>step DEF NewInv
  <2>1. u # t /\ op'[u] = op[u] /\ op[u].entry # e
    BY <1>mine, <1>others
  <2> QED
    BY <2>1, <1>inv, <1>rest DEF NewInv
<1>5. OldInv'
  <2> SUFFICES ASSUME NEW u \in Callers, op'[u].at = "destroy", NEW p \in Paths,
                      registered'[p] \in entries', registered'[p].of = op'[u].entry.of
               PROVE  registered'[p] \in abandoned
    BY <1>step DEF OldInv, EntriesOf
  <2>1. u # t /\ op'[u] = op[u] /\ op[u].entry.of # e.of
    BY <1>mine, <1>others
  <2>2. registered[p] \in EntriesOf(op[u].entry.of) /\ registered'[p] = registered[p]
    BY <2>1, <1>rest DEF EntriesOf
  <2> QED
    BY <2>1, <2>2, <1>inv DEF OldInv
<1>6. TreeInv'
  BY ZenonT(40), <1>inv, <1>step, <1>e, <1>new DEF TreeInv, RegisteredIsLive, TypeOK
<1>7. MapInv'
  <2> SUFFICES ASSUME NEW x \in entries', x # e
               PROVE  (registered[x.path] = x \/ Forgot(x.path) \/ Going(x))'
    BY <1>inv, <1>step, <1>e DEF MapInv, TypeOK
  <2>1. x \in entries /\ x.path \in Paths
    BY <1>inv, <1>step DEF TypeOK, Entry
  <2>2. CASE registered[x.path] = x
    BY <2>1, <2>2, <1>inv, <1>step, <1>e DEF TypeOK
  <2>3. CASE Forgot(x.path)
    BY <2>3, <1>step DEF Forgot
  <2>4. CASE Going(x)
    <3>1. PICK u \in Callers : \/ op[u].at = "register" /\ op[u].entry = x
                               \/ op[u].at = "destroy" /\ op[u].entry.of = x.of
      BY <2>4 DEF Going
    <3>2. u # t
      BY <3>1, <1>e DEF e
    <3>3. op'[u] = op[u]
      BY <3>2, <1>op, <1>inv DEF Ranges
    <3> QED
      BY <3>1, <3>3 DEF Going
  <2> QED
    BY <2>1, <2>2, <2>3, <2>4, <1>inv DEF MapInv
<1>8. DeadOnlyIfRaced'
  BY <1>inv, <1>step, <1>new DEF DeadOnlyIfRaced
<1> QED
  BY <1>1, <1>2, <1>3, <1>4, <1>5, <1>6, <1>7, <1>8 DEF Inv

\* unregister_object_path, what the destructor asks and what UnregisterAll asks
\* are of a handler whose lock the thread has: no other is registering with it.
LEMMA NotGoing ==
  ASSUME Inv, NEW t \in Callers, NEW x \in entries,
         opaths_lock[x.of] = t, op[t].at \in {"unregister", "unregister_all"}
  PROVE  registered[x.path] = x \/ Forgot(x.path)
<1>1. ~Going(x)
  <2> SUFFICES ASSUME NEW u \in Callers, op[u].at \in {"register", "destroy"}, op[u].entry.of = x.of
               PROVE  FALSE
    BY DEF Going
  <2>1. opaths_lock[op[u].entry.of] = u
    BY DEF Inv, OpInv
  <2> QED
    BY <2>1
<1> QED
  BY <1>1 DEF Inv, MapInv

\* The entry and what is registered for its path go together.
LEMMA UnregisterInv ==
  ASSUME Inv, NEW t \in Callers, Unregister(t), phase # "down"
  PROVE  Inv'
<1> DEFINE e == op[t].entry
<1> USE ObjectsAssumption
<1>inv. TypeOK /\ Ranges /\ OpInv /\ NewInv /\ OldInv /\ TreeInv /\ MapInv /\ DeadOnlyIfRaced
  BY DEF Inv
<1>op. /\ op' = [op EXCEPT ![t] = NoOp]
       /\ opaths_lock' = [opaths_lock EXCEPT ![e.of] = "free"]
  BY DEF Unregister, Unlock
<1>e. /\ e \in entries /\ e \in Entry /\ e.of \in Handlers /\ e.path \in Paths
      /\ op[t].at = "unregister" /\ opaths_lock[e.of] = t
  BY <1>inv DEF Unregister, OpInv, TypeOK, Entry
<1>mine. op'[t].at = "idle"
  BY <1>inv, <1>op DEF Ranges, NoOp
<1>others. \A u \in Callers \ {t} : op'[u].at # "idle" =>
             op'[u] = op[u] /\ op[u].entry.of # e.of /\ opaths_lock'[op[u].entry.of] = u
  BY <1>inv, <1>op, <1>e, OthersKeep DEF Ranges, TypeOK
<1> HIDE DEF e
<1>step. /\ registered' = [registered EXCEPT ![e.path] = NoEntry]
         /\ entries' = entries \ {e} /\ raced' = raced \cup UnderDispatch({e})
         /\ UNCHANGED <<phase, gone, dispatch, forgotten, abandoned, made, closes>>
  BY DEF Unregister, e
<1>raced. UnderDispatch({e}) \subseteq {e} /\ (dispatch.at = "found" /\ dispatch.entry = e => e \in raced')
  BY <1>step DEF UnderDispatch
<1>robbed. ASSUME NEW x \in entries, x # e, x.path = e.path PROVE registered[x.path] # x \/ Forgot(x.path)
  BY <1>robbed, <1>e, NotGoing
<1>1. TypeOK'
  BY <1>inv, <1>step, <1>op, <1>e, <1>raced DEF TypeOK
<1>2. Ranges'
  <2>1. op' \in [Callers -> [at : Steps, entry : Entry \cup [of : Handlers] \cup {NoEntry}]]
    BY <1>inv, <1>op DEF Ranges, Steps, NoOp
  <2> QED
    BY <1>inv, <1>step, <1>e, <1>raced, <2>1 DEF Ranges
<1>3. OpInv'
  <2> SUFFICES ASSUME NEW u \in Callers, op'[u].at # "idle"
               PROVE  /\ op'[u].at \in {"register", "unregister"} => op'[u].entry \in entries'
                      /\ op'[u].at \in {"unregister_all", "destroy"} => op'[u].entry \in [of : Handlers]
                      /\ opaths_lock'[op'[u].entry.of] = u
    BY DEF OpInv
  <2>1. u # t /\ op'[u] = op[u] /\ op[u].entry # e
    BY <1>mine, <1>others
  <2> QED
    BY <2>1, <1>inv, <1>step, <1>others DEF OpInv
<1>4. NewInv'
  <2> SUFFICES ASSUME NEW u \in Callers, op'[u].at = "register"
               PROVE  /\ \A p \in Paths : registered'[p] # op'[u].entry
                      /\ dispatch.at = "found" => dispatch.entry # op'[u].entry
    BY <1>step DEF NewInv
  <2>1. u # t /\ op'[u] = op[u]
    BY <1>mine, <1>others
  <2>2. op[u].entry # NoEntry
    BY <2>1, <1>inv DEF OpInv, TypeOK
  <2> QED
    BY <2>1, <2>2, <1>inv, <1>step DEF NewInv, TypeOK
<1>5. OldInv'
  <2> SUFFICES ASSUME NEW u \in Callers, op'[u].at = "destroy", NEW p \in Paths,
                      registered'[p] \in entries', registered'[p].of = op'[u].entry.of
               PROVE  registered'[p] \in abandoned
    BY <1>step DEF OldInv, EntriesOf
  <2>1. u # t /\ op'[u] = op[u]
    BY <1>mine, <1>others
  <2>2. registered[p] \in EntriesOf(op[u].entry.of) /\ registered'[p] = registered[p]
    BY <2>1, <1>inv, <1>step DEF EntriesOf, TypeOK
  <2> QED
    BY <2>1, <2>2, <1>inv DEF OldInv
<1>6. TreeInv'
  BY <1>inv, <1>step, <1>e DEF TreeInv, RegisteredIsLive, TypeOK
<1>7. MapInv'
  <2> SUFFICES ASSUME NEW x \in entries, x # e
               PROVE  (registered[x.path] = x \/ Forgot(x.path) \/ Going(x))'
    BY <1>step DEF MapInv
  <2>1. CASE registered[x.path] = x
    BY <2>1, <1>inv, <1>step, <1>robbed DEF TypeOK, Forgot, Entry
  <2>2. CASE Forgot(x.path)
    BY <2>2, <1>step DEF Forgot
  <2>3. CASE Going(x)
    <3>1. PICK u \in Callers : \/ op[u].at = "register" /\ op[u].entry = x
                               \/ op[u].at = "destroy" /\ op[u].entry.of = x.of
      BY <2>3 DEF Going
    <3>2. u # t
      BY <3>1, <1>e
    <3>3. op'[u] = op[u]
      BY <3>2, <1>op, <1>inv DEF Ranges
    <3> QED
      BY <3>1, <3>3 DEF Going
  <2> QED
    BY <2>1, <2>2, <2>3, <1>inv DEF MapInv
<1>8. DeadOnlyIfRaced'
  BY <1>inv, <1>step, <1>raced DEF DeadOnlyIfRaced
<1> QED
  BY <1>1, <1>2, <1>3, <1>4, <1>5, <1>6, <1>7, <1>8 DEF Inv

\* The destructor's calls of libdbus, for every path of the map.
LEMMA UnregisterAllInv ==
  ASSUME Inv, NEW t \in Callers, UnregisterAll(t)
  PROVE  Inv'
<1> DEFINE h == op[t].entry.of
<1> USE ObjectsAssumption
<1>inv. TypeOK /\ Ranges /\ OpInv /\ NewInv /\ OldInv /\ TreeInv /\ MapInv /\ DeadOnlyIfRaced
  BY DEF Inv
<1>h. h \in Handlers /\ op[t].at = "unregister_all" /\ op[t].entry \in [of : Handlers] /\ opaths_lock[h] = t
  BY <1>inv DEF UnregisterAll, OpInv
<1>op. /\ op' = [op EXCEPT ![t].at = "destroy"]
       /\ UNCHANGED <<phase, entries, opaths_lock, gone, dispatch, forgotten, raced, made, closes>>
  BY DEF UnregisterAll
<1>mine. op'[t].at = "destroy" /\ op'[t].entry = op[t].entry
  BY <1>inv, <1>op DEF Ranges
<1>others. \A u \in Callers \ {t} : op'[u] = op[u]
  BY <1>inv, <1>op DEF Ranges
<1>step. IF phase = "down"
         THEN abandoned' = abandoned \cup EntriesOf(h) /\ UNCHANGED registered
         ELSE /\ registered' = [p \in Paths |-> IF At(h, p) # {} THEN NoEntry ELSE registered[p]]
              /\ UNCHANGED abandoned
  BY DEF UnregisterAll, h
<1> HIDE DEF h
<1>tree. /\ registered' \in [Paths -> Entry \cup {NoEntry}]
         /\ \A p \in Paths : registered'[p] \in {registered[p], NoEntry}
         /\ abandoned \subseteq abandoned' /\ abandoned' \subseteq abandoned \cup entries
  BY <1>inv, <1>step DEF TypeOK, EntriesOf
<1>1. TypeOK'
  BY <1>inv, <1>op, <1>tree DEF TypeOK
<1>2. Ranges'
  <2>1. op' \in [Callers -> [at : Steps, entry : Entry \cup [of : Handlers] \cup {NoEntry}]]
    <3>1. op[t] \in [at : Steps, entry : Entry \cup [of : Handlers] \cup {NoEntry}]
      BY <1>inv DEF Ranges
    <3>2. [op[t] EXCEPT !.at = "destroy"] \in [at : Steps, entry : Entry \cup [of : Handlers] \cup {NoEntry}]
      BY <3>1 DEF Steps
    <3> QED
      BY <3>2, <1>inv, <1>op DEF Ranges
  <2> QED
    BY <1>inv, <1>op, <1>tree, <2>1 DEF Ranges
<1>3. OpInv'
  <2> SUFFICES ASSUME NEW u \in Callers, op'[u].at # "idle"
               PROVE  /\ op'[u].at \in {"register", "unregister"} => op'[u].entry \in entries'
                      /\ op'[u].at \in {"unregister_all", "destroy"} => op'[u].entry \in [of : Handlers]
                      /\ opaths_lock'[op'[u].entry.of] = u
    BY DEF OpInv
  <2>1. CASE u = t
    BY <2>1, <1>h, <1>mine, <1>op DEF h
  <2>2. CASE u # t
    <3>1. op'[u] = op[u]
      BY <2>2, <1>others
    <3>2. entries' = entries /\ opaths_lock' = opaths_lock
      BY <1>op
    <3>3. OpInv
      BY <1>inv
    <3> QED
      BY <3>1, <3>2, <3>3 DEF OpInv
  <2> QED
    BY <2>1, <2>2
<1>4. NewInv'
  <2> SUFFICES ASSUME NEW u \in Callers, op'[u].at = "register"
               PROVE  /\ \A p \in Paths : registered'[p] # op'[u].entry
                      /\ dispatch.at = "found" => dispatch.entry # op'[u].entry
    BY <1>op DEF NewInv
  <2>1. op'[u] = op[u]
    BY <1>mine, <1>others
  <2>2. op[u].entry # NoEntry
    BY <2>1, <1>inv DEF OpInv, TypeOK
  <2> QED
    BY <2>1, <2>2, <1>inv, <1>tree DEF NewInv
<1>5. OldInv'
  <2> SUFFICES ASSUME NEW u \in Callers, op'[u].at = "destroy", NEW p \in Paths,
                      registered'[p] \in entries, registered'[p].of = op'[u].entry.of
               PROVE  registered'[p] \in abandoned'
    BY <1>op DEF OldInv, EntriesOf
  <2>1. registered'[p] = registered[p] /\ registered[p] \in EntriesOf(op'[u].entry.of) /\ registered[p].path = p
    BY <1>inv, <1>tree DEF EntriesOf, TypeOK, TreeInv
  <2>2. CASE u = t /\ phase = "down"
    BY <2>1, <2>2, <1>mine, <1>step DEF h
  <2>3. CASE u = t /\ phase # "down"
    <3>1. registered[p] \in At(h, p)
      BY <2>1, <2>3, <1>mine DEF At, EntriesOf, h
    <3> QED
      BY <3>1, <2>1, <2>3, <1>step, <1>inv DEF TypeOK, EntriesOf
  <2>4. CASE u # t
    BY <2>1, <2>4, <1>inv, <1>others, <1>tree DEF OldInv
  <2> QED
    BY <2>2, <2>3, <2>4
<1>6. TreeInv'
  BY <1>inv, <1>op, <1>tree DEF TreeInv, RegisteredIsLive
<1>7. MapInv'
  <2> SUFFICES ASSUME NEW x \in entries
               PROVE  (registered[x.path] = x \/ Forgot(x.path) \/ Going(x))'
    BY <1>op DEF MapInv
  <2>0. x.path \in Paths
    BY <1>inv DEF TypeOK, Entry
  <2>1. CASE x.of = h
    BY <2>1, <1>mine DEF Going, h
  <2>2. CASE registered[x.path] = x /\ At(h, x.path) = {}
    BY <2>0, <2>2, <1>step
  <2>3. CASE x.of # h /\ At(h, x.path) # {}
    <3>1. PICK e \in entries : e.of = h /\ e.path = x.path
      BY <2>3 DEF At
    <3>2. registered[e.path] = e \/ Forgot(e.path)
      BY <3>1, <1>h, NotGoing
    <3>3. CASE Forgot(e.path)
      BY <3>1, <3>3, <1>op DEF Forgot
    <3>4. CASE registered[e.path] = e
      <4>1. Forgot(x.path) \/ Going(x)
        BY <2>3, <3>1, <3>4, <1>inv DEF MapInv
      <4> QED
        BY <4>1, <2>3, <1>op, <1>mine, <1>others, <1>h DEF Forgot, Going
    <3> QED
      BY <3>2, <3>3, <3>4
  <2>4. CASE Forgot(x.path) \/ Going(x)
    BY <2>4, <1>op, <1>mine, <1>others, <1>h DEF Forgot, Going
  <2> QED
    BY <2>1, <2>2, <2>3, <2>4, <1>inv DEF MapInv
<1>8. DeadOnlyIfRaced'
  BY <1>inv, <1>op, <1>tree DEF DeadOnlyIfRaced
<1> QED
  BY <1>1, <1>2, <1>3, <1>4, <1>5, <1>6, <1>7, <1>8 DEF Inv
\* The map of a handler goes, and nothing of it is registered any more.
LEMMA DestroyMapInv ==
  ASSUME Inv, NEW t \in Callers, DestroyMap(t)
  PROVE  Inv'
<1> DEFINE h == op[t].entry.of
<1> USE ObjectsAssumption
<1>inv. TypeOK /\ Ranges /\ OpInv /\ NewInv /\ OldInv /\ TreeInv /\ MapInv /\ DeadOnlyIfRaced
  BY DEF Inv
<1>h. h \in Handlers /\ op[t].at = "destroy" /\ opaths_lock[h] = t
  BY <1>inv DEF DestroyMap, OpInv
<1>op. /\ op' = [op EXCEPT ![t] = NoOp]
       /\ opaths_lock' = [opaths_lock EXCEPT ![h] = "free"]
  BY DEF DestroyMap, Unlock
<1>mine. op'[t].at = "idle"
  BY <1>inv, <1>op DEF Ranges, NoOp
<1>others. \A u \in Callers \ {t} : op'[u].at # "idle" =>
             op'[u] = op[u] /\ op[u].entry.of # h /\ opaths_lock'[op[u].entry.of] = u
  BY <1>inv, <1>op, <1>h, OthersKeep DEF Ranges, TypeOK
<1>step. /\ raced' = raced \cup UnderDispatch(EntriesOf(h)) /\ entries' = entries \ EntriesOf(h)
         /\ UNCHANGED <<phase, registered, gone, dispatch, forgotten, abandoned, made, closes>>
  BY DEF DestroyMap
<1>old. \A p \in Paths : registered[p] \in EntriesOf(h) => registered[p] \in abandoned
  BY <1>inv, <1>h DEF OldInv
<1> HIDE DEF h
<1>raced. /\ raced \subseteq raced' /\ raced' \subseteq raced \cup entries
          /\ dispatch.at = "found" /\ dispatch.entry \in EntriesOf(h) => dispatch.entry \in raced'
  BY <1>step DEF UnderDispatch, EntriesOf
<1>1. TypeOK'
  BY <1>inv, <1>step, <1>op, <1>h, <1>raced DEF TypeOK
<1>2. Ranges'
  <2>1. op' \in [Callers -> [at : Steps, entry : Entry \cup [of : Handlers] \cup {NoEntry}]]
    BY <1>inv, <1>op DEF Ranges, Steps, NoOp
  <2> QED
    BY <1>inv, <1>step, <1>raced, <2>1 DEF Ranges
<1>3. OpInv'
  <2> SUFFICES ASSUME NEW u \in Callers, op'[u].at # "idle"
               PROVE  /\ op'[u].at \in {"register", "unregister"} => op'[u].entry \in entries'
                      /\ op'[u].at \in {"unregister_all", "destroy"} => op'[u].entry \in [of : Handlers]
                      /\ opaths_lock'[op'[u].entry.of] = u
    BY DEF OpInv
  <2>1. u # t /\ op'[u] = op[u] /\ op[u].entry.of # h
    BY <1>mine, <1>others
  <2> QED
    BY <2>1, <1>inv, <1>step, <1>others DEF OpInv, EntriesOf
<1>4. NewInv'
  <2> SUFFICES ASSUME NEW u \in Callers, op'[u].at = "register"
               PROVE  /\ \A p \in Paths : registered[p] # op'[u].entry
                      /\ dispatch.at = "found" => dispatch.entry # op'[u].entry
    BY <1>step DEF NewInv
  <2>1. op'[u] = op[u]
    BY <1>mine, <1>others
  <2> QED
    BY <2>1, <1>inv DEF NewInv
<1>5. OldInv'
  <2> SUFFICES ASSUME NEW u \in Callers, op'[u].at = "destroy", NEW p \in Paths,
                      registered[p] \in entries, registered[p].of = op'[u].entry.of
               PROVE  registered[p] \in abandoned
    BY <1>step DEF OldInv, EntriesOf
  <2>1. op'[u] = op[u]
    BY <1>mine, <1>others
  <2> QED
    BY <2>1, <1>inv DEF OldInv, EntriesOf
<1>6. TreeInv'
  BY <1>inv, <1>step, <1>old DEF TreeInv, RegisteredIsLive
<1>7. MapInv'
  <2> SUFFICES ASSUME NEW x \in entries, x.of # h
               PROVE  (registered[x.path] = x \/ Forgot(x.path) \/ Going(x))'
    BY <1>step DEF MapInv, EntriesOf
  <2>1. CASE registered[x.path] = x \/ Forgot(x.path)
    BY <2>1, <1>step DEF Forgot
  <2>2. CASE Going(x)
    <3>1. PICK u \in Callers : \/ op[u].at = "register" /\ op[u].entry = x
                               \/ op[u].at = "destroy" /\ op[u].entry.of = x.of
      BY <2>2 DEF Going
    <3>2. u # t
      BY <3>1, <1>h DEF h
    <3>3. op'[u] = op[u]
      BY <3>2, <1>op, <1>inv DEF Ranges
    <3> QED
      BY <3>1, <3>3 DEF Going
  <2> QED
    BY <2>1, <2>2, <1>inv DEF MapInv
<1>8. DeadOnlyIfRaced'
  BY <1>inv, <1>step, <1>raced DEF DeadOnlyIfRaced
<1> QED
  BY <1>1, <1>2, <1>3, <1>4, <1>5, <1>6, <1>7, <1>8 DEF Inv

-----------------------------------------------------------------------------
(* The dispatch thread and the connection *)

DispatchStates ==
  [at : Moments, paths : Seq(Paths), first : BOOLEAN, entry : Entry \cup {NoEntry}]

\* A step of the dispatch thread gets at most a registered entry.
LEMMA DispatchInv ==
  ASSUME Inv, dispatch' \in DispatchStates,
         dispatch'.at = "found" =>
           dispatch'.entry # NoEntry /\ \E p \in Paths : dispatch'.entry = registered[p],
         UNCHANGED <<phase, entries, registered, opaths_lock, gone, op, forgotten, abandoned, raced, made, closes>>
  PROVE  Inv'
<1> USE ObjectsAssumption
<1>inv. TypeOK /\ Ranges /\ OpInv /\ NewInv /\ OldInv /\ TreeInv /\ MapInv /\ DeadOnlyIfRaced
  BY DEF Inv
<1>1. TypeOK'
  BY <1>inv DEF TypeOK
<1>2. Ranges'
  BY <1>inv DEF Ranges, DispatchStates
<1>3. OpInv' /\ OldInv' /\ TreeInv' /\ MapInv'
  BY <1>inv DEF OpInv, OldInv, EntriesOf, TreeInv, RegisteredIsLive, MapInv, Forgot, Going
<1>4. NewInv'
  BY <1>inv DEF NewInv
<1>5. DeadOnlyIfRaced'
  BY <1>inv DEF DeadOnlyIfRaced, TreeInv, RegisteredIsLive
<1> QED
  BY <1>1, <1>2, <1>3, <1>4, <1>5 DEF Inv

\* Its steps.
LEMMA MessageInv ==
  ASSUME Inv, NEW p \in Paths, Message(p)
  PROVE  Inv'
<1>1. Above[p] \in Seq(Paths) /\ <<p>> \in Seq(Paths)
  BY ObjectsAssumption
<1>2. <<p>> \o Above[p] \in Seq(Paths)
  BY <1>1
<1>3. dispatch' = [at |-> "find", paths |-> <<p>> \o Above[p], first |-> TRUE, entry |-> NoEntry]
  BY DEF Message, NoMessage
<1>4. dispatch' \in DispatchStates /\ dispatch'.at # "found"
  BY <1>2, <1>3 DEF DispatchStates, Moments
<1> QED
  BY <1>4, DispatchInv DEF Message

LEMMA FindInv ==
  ASSUME Inv, Find
  PROVE  Inv'
<1> DEFINE q == dispatch.paths
           e == registered[Head(q)]
           found == e # NoEntry /\ (dispatch.first \/ e.fallback)
<1>1. q \in Seq(Paths)
  BY DEF Inv, Ranges
<1>2. CASE q = <<>>
  <2>1. dispatch' = [at |-> "idle", paths |-> <<>>, first |-> TRUE, entry |-> NoEntry]
    BY <1>2 DEF Find, NoMessage
  <2>2. dispatch' \in DispatchStates /\ dispatch'.at # "found"
    BY <2>1 DEF DispatchStates, Moments
  <2> QED
    BY <2>2, DispatchInv DEF Find
<1>3. CASE q # <<>>
  <2>1. Head(q) \in Paths /\ Tail(q) \in Seq(Paths)
    BY <1>1, <1>3
  <2>2. e \in Entry \cup {NoEntry}
    BY <2>1 DEF Inv, TypeOK
  <2>3. dispatch' = [at |-> IF found THEN "found" ELSE "find", paths |-> Tail(q),
                     first |-> FALSE, entry |-> IF found THEN e ELSE NoEntry]
    BY <1>3 DEF Find
  <2> HIDE DEF q
  <2>4. CASE found
    <3>1. dispatch' = [at |-> "found", paths |-> Tail(q), first |-> FALSE, entry |-> e]
      BY <2>3, <2>4
    <3>2. dispatch' \in DispatchStates
      BY <3>1, <2>1, <2>2 DEF DispatchStates, Moments
    <3>3. dispatch'.entry # NoEntry /\ \E p \in Paths : dispatch'.entry = registered[p]
      BY <3>1, <2>1, <2>4
    <3> QED
      BY <3>2, <3>3, DispatchInv DEF Find
  <2>5. CASE ~found
    <3>1. dispatch' = [at |-> "find", paths |-> Tail(q), first |-> FALSE, entry |-> NoEntry]
      BY <2>3, <2>5
    <3>2. dispatch' \in DispatchStates /\ dispatch'.at # "found"
      BY <3>1, <2>1 DEF DispatchStates, Moments
    <3> QED
      BY <3>2, DispatchInv DEF Find
  <2> QED
    BY <2>4, <2>5
<1> QED
  BY <1>2, <1>3

LEMMA CallbackInv ==
  ASSUME Inv, OnMessage \/ CallbackReturns
  PROVE  Inv'
<1>1. dispatch \in DispatchStates
  BY DEF Inv, Ranges, DispatchStates
<1>2. dispatch' \in DispatchStates /\ dispatch'.at # "found"
  <2>1. CASE OnMessage
    BY <2>1, <1>1 DEF OnMessage, DispatchStates, Moments
  <2>2. CASE dispatch' = NoMessage
    BY <2>2 DEF NoMessage, DispatchStates, Moments
  <2>3. CASE dispatch' = [dispatch EXCEPT !.at = "find", !.entry = NoEntry]
    BY <2>3, <1>1 DEF DispatchStates, Moments
  <2> QED
    BY <2>1, <2>2, <2>3 DEF CallbackReturns
<1>3. UNCHANGED <<phase, entries, registered, opaths_lock, gone, op, forgotten, abandoned, raced, made, closes>>
  BY DEF OnMessage, CallbackReturns
<1> QED
  BY <1>2, <1>3, DispatchInv

\* A disconnect makes libdbus forget everything or nothing.
LEMMA ConnectionInv ==
  ASSUME Inv, Close \/ Closed \/ Connect
  PROVE  Inv'
<1> USE ObjectsAssumption
<1>inv. TypeOK /\ Ranges /\ OpInv /\ NewInv /\ OldInv /\ TreeInv /\ MapInv /\ DeadOnlyIfRaced
  BY DEF Inv
<1>step. /\ UNCHANGED <<entries, opaths_lock, gone, op, dispatch, abandoned, raced, made>>
         /\ \/ registered' = Nothing /\ forgotten' = forgotten \cup entries
            \/ UNCHANGED <<registered, forgotten>>
         /\ phase' \in {"up", "closing", "down"}
  BY DEF Close, Closed, Connect
<1>tree. /\ registered' \in [Paths -> Entry \cup {NoEntry}]
         /\ \A p \in Paths : registered'[p] \in {registered[p], NoEntry}
  BY <1>inv, <1>step DEF TypeOK, Nothing
<1>1. TypeOK'
  BY <1>inv, <1>step, <1>tree DEF TypeOK
<1>2. Ranges'
  BY <1>inv, <1>step DEF Ranges
<1>3. OpInv'
  BY <1>inv, <1>step DEF OpInv
<1>4. NewInv'
  BY <1>inv, <1>step, <1>tree DEF NewInv, OpInv, TypeOK
<1>5. OldInv'
  BY <1>inv, <1>step, <1>tree DEF OldInv, EntriesOf, TypeOK
<1>6. TreeInv'
  BY <1>inv, <1>step, <1>tree DEF TreeInv, RegisteredIsLive
<1>7. MapInv'
  <2>1. CASE registered' = Nothing /\ forgotten' = forgotten \cup entries
    BY <2>1, <1>step DEF MapInv, Forgot
  <2>2. CASE UNCHANGED <<registered, forgotten>>
    BY <2>2, <1>inv, <1>step DEF MapInv, Forgot, Going
  <2> QED
    BY <2>1, <2>2, <1>step
<1>8. DeadOnlyIfRaced'
  BY <1>inv, <1>step DEF DeadOnlyIfRaced
<1> QED
  BY <1>1, <1>2, <1>3, <1>4, <1>5, <1>6, <1>7, <1>8 DEF Inv

-----------------------------------------------------------------------------

LEMMA AllOf ==
  ASSUME NEW h \in Handlers, NEW k, NEW o, o = [at |-> k, entry |-> [of |-> h]]
  PROVE  o.at = k /\ o.entry \in [of : Handlers] /\ o.entry.of = h
  OBVIOUS

LEMMA LockingInv ==
  ASSUME Inv, NEW t \in Callers, NEW h \in Handlers,
         Destroy(t, h) \/ \E p \in Paths : UnregisterObjectPath(t, h, p)
  PROVE  Inv'
<1>types. TypeOK /\ Ranges
  BY DEF Inv
<1>1. CASE Destroy(t, h)
  <2>1. /\ MayCall(t, h) /\ gone' = gone \cup {h}
        /\ UNCHANGED <<phase, entries, registered, dispatch, forgotten, raced, made>>
    BY <1>1 DEF Destroy
  <2>2. CASE phase = "up"
    <3>1. /\ op' = [op EXCEPT ![t] = [at |-> "unregister_all", entry |-> [of |-> h]]]
          /\ opaths_lock' = [opaths_lock EXCEPT ![h] = t]
          /\ abandoned' = abandoned
      BY <1>1, <2>2 DEF Destroy, Lock
    <3>2. /\ op' \in [Callers -> [at : Steps, entry : Entry \cup [of : Handlers] \cup {NoEntry}]]
          /\ op'[t] = [at |-> "unregister_all", entry |-> [of |-> h]]
          /\ \A v \in Callers \ {t} : op'[v] = op[v]
      BY <1>types, <3>1 DEF Ranges, Steps
    <3>3. op'[t].at = "unregister_all" /\ op'[t].entry \in [of : Handlers] /\ op'[t].entry.of = h
      BY <3>2, AllOf
    <3> QED
      BY <2>1, <3>1, <3>2, <3>3, LocksInv
  <2>3. CASE phase # "up"
    <3>1. /\ op' = [op EXCEPT ![t] = [at |-> "destroy", entry |-> [of |-> h]]]
          /\ opaths_lock' = [opaths_lock EXCEPT ![h] = t]
          /\ abandoned' = abandoned \cup EntriesOf(h)
      BY <1>1, <2>3 DEF Destroy, Lock
    <3>2. /\ op' \in [Callers -> [at : Steps, entry : Entry \cup [of : Handlers] \cup {NoEntry}]]
          /\ op'[t] = [at |-> "destroy", entry |-> [of |-> h]]
          /\ \A v \in Callers \ {t} : op'[v] = op[v]
      BY <1>types, <3>1 DEF Ranges, Steps
    <3>3. op'[t].at = "destroy" /\ op'[t].entry \in [of : Handlers] /\ op'[t].entry.of = h
      BY <3>2, AllOf
    <3> QED
      BY <2>1, <3>1, <3>2, <3>3, LocksInv
  <2> QED
    BY <2>2, <2>3
<1>2. CASE \E p \in Paths : UnregisterObjectPath(t, h, p)
  <2>1. PICK p \in Paths : UnregisterObjectPath(t, h, p)
    BY <1>2
  <2>2. PICK e \in entries : /\ e.of = h
                             /\ op' = [op EXCEPT ![t] = [at |-> "unregister", entry |-> e]]
                             /\ opaths_lock' = [opaths_lock EXCEPT ![h] = t]
    BY <2>1 DEF UnregisterObjectPath, Lock, At
  <2>3. /\ op' \in [Callers -> [at : Steps, entry : Entry \cup [of : Handlers] \cup {NoEntry}]]
        /\ op'[t].at = "unregister" /\ op'[t].entry = e
        /\ \A v \in Callers \ {t} : op'[v] = op[v]
    BY <1>types, <2>2 DEF Ranges, TypeOK, Steps
  <2>4. /\ MayCall(t, h) /\ gone' = gone /\ abandoned' = abandoned
        /\ UNCHANGED <<phase, entries, registered, dispatch, forgotten, raced, made>>
    BY <2>1 DEF UnregisterObjectPath
  <2> QED
    BY <2>2, <2>3, <2>4, LocksInv
<1> QED
  BY <1>1, <1>2

\* An operation that finds the connection gone leaves the map as it is.
LEMMA NoUnregisterInv ==
  ASSUME Inv, NEW t \in Callers, Unregister(t), phase = "down"
  PROVE  Inv'
<1> DEFINE e == op[t].entry
<1> USE ObjectsAssumption
<1>inv. TypeOK /\ Ranges /\ OpInv /\ NewInv /\ OldInv /\ TreeInv /\ MapInv /\ DeadOnlyIfRaced
  BY DEF Inv
<1>op. /\ op' = [op EXCEPT ![t] = NoOp]
       /\ opaths_lock' = [opaths_lock EXCEPT ![e.of] = "free"]
       /\ UNCHANGED <<phase, entries, registered, gone, dispatch, forgotten, abandoned, raced, made, closes>>
  BY DEF Unregister, Unlock
<1>e. e.of \in Handlers /\ op[t].at = "unregister" /\ opaths_lock[e.of] = t
  BY <1>inv DEF Unregister, OpInv, TypeOK, Entry
<1>mine. op'[t].at = "idle"
  BY <1>inv, <1>op DEF Ranges, NoOp
<1>same. \A v \in Callers \ {t} : op'[v] = op[v]
  BY <1>inv, <1>op DEF Ranges
<1>others. \A u \in Callers \ {t} : op'[u].at # "idle" => opaths_lock'[op[u].entry.of] = u
  BY <1>inv, <1>op, <1>e, OthersKeep DEF Ranges, TypeOK
<1> HIDE DEF e
<1>1. TypeOK'
  BY <1>inv, <1>op DEF TypeOK
<1>2. Ranges'
  <2>1. op' \in [Callers -> [at : Steps, entry : Entry \cup [of : Handlers] \cup {NoEntry}]]
    BY <1>inv, <1>op DEF Ranges, Steps, NoOp
  <2> QED
    BY <1>inv, <1>op, <2>1 DEF Ranges
<1>3. OpInv'
  <2>1. \A u \in Callers : op'[u].at # "idle" => u # t /\ op'[u] = op[u]
    BY <1>mine, <1>same
  <2>2. entries' = entries /\ OpInv
    BY <1>op, <1>inv
  <2> QED
    BY <2>1, <2>2, <1>others DEF OpInv
<1>4. NewInv'
  BY <1>inv, <1>op, <1>mine, <1>same DEF NewInv
<1>5. OldInv'
  BY <1>inv, <1>op, <1>mine, <1>same DEF OldInv, EntriesOf
<1>6. TreeInv' /\ DeadOnlyIfRaced'
  BY <1>inv, <1>op DEF TreeInv, RegisteredIsLive, DeadOnlyIfRaced
<1>7. MapInv'
  <2>1. \A x \in entries : Going(x) => Going(x)'
    BY <1>e, <1>same DEF Going
  <2> QED
    BY <2>1, <1>inv, <1>op DEF MapInv, Forgot
<1> QED
  BY <1>1, <1>2, <1>3, <1>4, <1>5, <1>6, <1>7 DEF Inv

LEMMA NextInv == Inv /\ [Next]_vars => Inv'
<1> SUFFICES ASSUME Inv, [Next]_vars PROVE Inv'
  OBVIOUS
<1>1. ASSUME NEW t \in Callers, TryRegister(t) \/ Unregister(t) \/ UnregisterAll(t) \/ DestroyMap(t)
      PROVE  Inv'
  BY <1>1, TryRegisterInv, UnregisterInv, NoUnregisterInv, UnregisterAllInv, DestroyMapInv
<1>2. ASSUME NEW t \in Callers, NEW h \in Handlers,
             Destroy(t, h) \/ \E p \in Paths : UnregisterObjectPath(t, h, p)
      PROVE  Inv'
  BY <1>2, LockingInv
<1>3. ASSUME NEW t \in Callers, NEW h \in Handlers, NEW p \in Paths, NEW fallback \in BOOLEAN,
             RegisterObjectPath(t, h, p, fallback)
      PROVE  Inv'
  BY <1>3, RegisterInv
<1>4. ASSUME NEW p \in Paths, Message(p)
      PROVE  Inv'
  BY <1>4, MessageInv
<1>5. CASE Find \/ OnMessage \/ CallbackReturns
  BY <1>5, FindInv, CallbackInv
<1>6. CASE Close \/ Closed \/ Connect
  BY <1>6, ConnectionInv
<1>7. CASE UNCHANGED vars
  BY <1>7 DEF Inv, vars, TypeOK, Ranges, OpInv, NewInv, OldInv, EntriesOf, TreeInv, RegisteredIsLive,
              MapInv, Forgot, Going, DeadOnlyIfRaced
<1> QED
  BY <1>1, <1>2, <1>3, <1>4, <1>5, <1>6, <1>7 DEF Next

LEMMA Invariant == Spec => []Inv
  BY InitInv, NextInv, PTL DEF Spec

\* The variables have their types, and no map has two entries for a path.
THEOREM TypeCorrect == Spec => []TypeOK
<1>1. Inv => TypeOK
  BY DEF Inv
<1> QED
  BY <1>1, Invariant, PTL

\* The maps of the handlers and the tree of libdbus agree: libdbus points to
\* entries that exist, a path in a map is registered, and the dispatch thread
\* has a pointer to an entry that exists, with the exceptions they name.
THEOREM MapsAgreeHolds == Spec => []MapsAgree
<1>1. Inv => MapsAgree
  <2> SUFFICES ASSUME Inv PROVE MapsAgree
    OBVIOUS
  <2>1. ASSUME NEW e \in entries, Going(e) PROVE opaths_lock[e.of] # "free"
    BY <2>1, ObjectsAssumption DEF Inv, OpInv, Going
  <2>2. MapIsRegistered
    BY <2>1 DEF Inv, MapInv, MapIsRegistered, Forgot
  <2> QED
    BY <2>2 DEF Inv, TreeInv, MapsAgree
<1> QED
  BY <1>1, Invariant, PTL

=============================================================================
