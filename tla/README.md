# ultrabus: a verification project

This directory holds TLA+ models of **libultrabus**, a C++ wrapper of libdbus,
the TLC configurations that check them and the TLAPS proofs about them.  The
models are translated from the source (`lib/ultrabus/`); `PROJECT.json` names,
for every definition, the lines it stands for.  Line numbers below are those of
`connection.cpp` where no file is named.

## 1. Inventory

### 1.1 Threads

A connected `ultrabus::connection` has, beside the threads of the program,

* the **I/O thread** (`io_handler`), which waits in `epoll_wait` for at most
  100 ms and calls `dbus_watch_handle` and `dbus_timeout_handle`, and
* the **dispatch thread** (`msg_dispatcher`), which sleeps on `dispatch_cond`
  and calls `dbus_connection_dispatch`.  Every callback of the program runs
  here: replies, signals, method calls, name changes.

libdbus calls back into the connection from whichever thread is in it:
`wakeup_main` and `dispatch_status` (which notify `dispatch_cond`), the watch
and the timeout functions, and the notify function of a pending call.

### 1.2 Components

| component | state | operations | must hold | modelled by |
| --- | --- | --- | --- | --- |
| lifecycle | `conn_state`, `conn_state_mutex`, `ctx`, threads and their stop flags | `connect`, `is_connected`, `disconnect`, `disconnect_impl`, `start_io_handler` | one teardown at a time; threads never outlive `ctx`; a disconnected connection is as new; a teardown ends | `Connection` |
| dispatch thread | `dispatch_cond` | `msg_dispatcher`, `on_wakeup_main`, `on_dispatch_status` | a queued message is dispatched; a stop is seen | `Connection` |
| outstanding calls | `pending_messages`, `pending_mutex`, the frames of `send_and_wait` | `send`, `send_and_wait`, `on_pending_call`, part of `disconnect_impl` | one answer per call, or none and a reason; no answer for a refused call; a waiter returns with its reply | `PendingCalls`, `CallsHistory`, `CallProtocol` |
| I/O thread, watches | `fd_map`, the epoll set, `watcher_mutex` | `io_handler`, `handle_epoll_result`, `on_..._watch` | the epoll set is what the enabled watches ask for; a ready descriptor is served | `Watches`, loop in `Connection` |
| timers | `timers`, timerfd, `timer_mutex` | `on_timerfd_event`, `on_..._timeout` | the timerfd is set for the first timer; a due timer fires; one fires early only if the list changed under the event | `Timers`, `TimeSpec` |
| bus names | - | `request_name` ... `become_monitor` | one send and a conversion each | no |
| name watching | three callbacks, `unique_bus_name`, `cb_mutex` | `set_..._cb`, `on_signal`, `on_signal_impl` | signals reach their callback once and in order; a callback has its rule | `NameWatch`, `MatchRules` |
| message filters | `match_rules`, `match_rule_mutex` | `add_match`, `remove_match` | the set is what the bus has | `MatchRules`, `Registrations` |
| object proxy | five callbacks, `cb_mutex`, path of the object manager, unique name | `set_..._callback`, `on_signal` | a callback has its rule; no deadlock with the dispatch thread | `Registrations` |
| Properties, ObjectManager | callbacks by (bus name, path) and their mutex | `set_..._callback_impl`, `on_signal` | the same | `Registrations` |
| object handlers | `opath_map`, `opaths_lock`, libdbus' object tree | `(un)register_object_path`, the destructor, `dbus_on_message` | a path is registered iff in the map; no dead entry is used | `Objects` |
| type system | values and the signatures kept beside them | construction, copy, move, assignment, conversion, comparison, the containers' operations | a signature describes the contents; comparisons agree | `BasicTypes`, `Containers`, `Values` |
| message | arguments in libdbus' form | `append_args`, `get_args`, `arguments` | what is appended is what is read, unless libdbus refuses it | `Marshal`, `Values` |
| retvalue, utils, build, documentation, tests | - | - | - | no |

The lifecycle calls the outstanding calls' state at two places (the cancel loop,
under `pending_mutex`, and the unref loop with `clear ()`, under nothing); the
outstanding calls call the lifecycle at one (`is_connected` at the start of a
send, which may itself tear the connection down).  The dispatch thread is
between them: it runs `on_pending_call` and is joined by a teardown.  Message
filters and the classes above them (names, proxy, Properties, ObjectManager)
wait for replies with `send_and_wait` while they hold their mutexes, and need
the same mutexes on the dispatch thread when a signal comes.

### 1.3 What is hard

* **Wakeups without a mutex.**  Neither `notify_one` of `dispatch_cond` nor the
  one in `send_and_wait` is made under the mutex its waiter sleeps with.
* **A teardown without a lock.**  `disconnect_impl` gives `conn_state_mutex`
  back in its sixth line; `conn_state == disconnecting` is all that keeps others out.
* **Completion, notify function and map entry** of a pending call are set in
  three steps by the sender and read in two by the dispatch thread.
* **Callbacks** run on the thread that a teardown joins, and may call anything.
* **Mutexes held while waiting** for a reply that only the dispatch thread can
  dispatch.
* **Pointers and iterators kept while a lock is given up**: the walk over the
  watches of a descriptor, the object path entry that libdbus hands out.
* **State that survives a disconnect**: `match_rules`, `opath_map`.
* **The bus** may go away at any time; libdbus then answers pending calls itself.
  It may also answer a request after the caller has given up.

`PROJECT.json` lists these and the others as hazards, each at its line, with the
properties that would catch it, or a note if no property does.

## 2. Modules

| module | what it is |
| --- | --- |
| `Connection` | connect and teardown by any number of callers, the I/O thread, the dispatch thread |
| `CallProtocol` | what a caller is promised: the abstract specification of a call |
| `PendingCalls` | `send`, `send_and_wait`, `on_pending_call`; implements `CallProtocol` |
| `CallsHistory` | `PendingCalls` with a history variable, for a property about sends that a teardown overtakes |
| `ConnectionCalls` | the composition of `Connection` and `PendingCalls` |
| `Watches` | `fd_map`, the epoll set and the I/O thread's walk over the watches of a descriptor |
| `AlarmClock` | what libdbus is promised about its timeouts: the abstract specification of the timers |
| `Timers` | the list of timers, the timerfd, and the I/O thread's handling of its event; implements `AlarmClock` |
| `TimeSpec` | the arithmetic on `struct timespec` |
| `MatchRules` | one filter's rules, the bus' own, and the requests, replies and signals between them |
| `Registrations` | the tables of callbacks of the classes built on filters; extends `MatchRules` |
| `NameWatch` | the name callbacks of a connection; extends `MatchRules` |
| `Objects` | the maps of object handlers, libdbus' tree and the dispatch of a method call |
| `BasicTypes`, `Containers`, `Marshal` | the types and messages as functions of values |
| `Values` | a program that works with two values and sends them |
| `..._proofs` | theorems and proofs, for `Connection`, `PendingCalls`, `ConnectionCalls`, `Watches`, `Timers` (with `TimeSpec`), `Registrations`, `NameWatch` and `Objects` |
| `MC...` | instances for TLC |

An operator named after another with a suffix (`JoinIo_detached`,
`Unregister_unchecked`, ...) is what the first would be with a mistake in it;
see section 3.

### Connection

One action per program point at which another thread can interfere.  `pc[t]` is
where caller `t` is inside `connect` or `disconnect_impl`; the dispatch thread is
one of the callers, because callbacks call the connection (`Reentrant`).
`connect` holds `conn_state_mutex` throughout, so only its failure points and the
start of each thread are actions of their own.  A call that returns at once
(`EBUSY`, already connected, not connected) changes nothing and is not an action.
The condition variable is modelled by `dpc`: `predicate`, then `park`, then
`asleep`, and a notify reaches only a thread that is `asleep`.  The notifies (1490,
1498, 497) take no mutex, so one may come while the thread is at `park`: `dpc` is
then `late`, and the thread goes to sleep all the same (`overslept`), from which the
next notify or a spurious wakeup takes it.

Of libdbus the model keeps `is_open` (has its transport), `hooks` (are the
functions of `start_io_handler` installed?) and `incoming` (messages queued).
`Receive` calls wakeup_main for each message; `IoHandled` may call the
dispatch_status function, which libdbus does only if the status changed;
`BusDrop` queues the local `Disconnected`.  Release sets `is_open` and `incoming`
back: what libdbus does with a connection after it was unref'd does not concern
this one, and the next connect starts from any queue (`OpenBus`).

### PendingCalls and CallProtocol

A call stands for one message.  `spc[c]` is where its sender is, `opc` and `cur`
where the dispatch thread is, `pending[c]` the state of the `DBusPendingCall`.
The connection is reduced to `phase`, and the sleep of the dispatch thread to
`opc = "overslept"`: a reply that was queued between its predicate and its sleep
stays queued until something else wakes the thread (`Rouse`, which is not fair).
`send` tests `is_connected` and then uses `ctx` without a lock; with `ctx` released
meanwhile the call to libdbus is undefined (`SendWithoutCtx`, `spc[c] =
"undefined"`), and nothing is promised of that send, which keeps `pending_mutex`.
A dispatched reply is `completed` in one
step; the notify function is read in the next (`ReadNotify`), because
`dbus_pending_call_set_notify` may come between the two.  The unlocked walk in
`disconnect_impl` is two steps, `UnrefAll` and `ClearAll`; that the walk itself
races with an erase (undefined in C++) is narrowed to the outcomes in which each
of the two acts on the entries that are there.  `swept` is history: it records
what the loop met, for the properties.

`CallProtocol` knows only `new`, `refused`, `pending`, `answered` and `dropped`.
The refinement mapping (`Status`) says that a call is accepted when libdbus has
given a pending call, answered when its reply was handed over, and dropped when
no step can hand it over any more: swept by a teardown, detached in libdbus, or
completed without the notify function being told.

`CallsHistory` adds `overtaken`: the calls that were between their `is_connected`
(534) and their `emplace` (552) when a teardown began.  Its property is that only
those are sent without a `ctx` or leave their entry in the map of a connection that
is down.

### ConnectionCalls

Both modules are instantiated over shared variables; `phase` is not a variable
here but a function of `conn_state`, `ctx` and `pc`.  Each step is a step of one
part, with the other unchanged or taking its step of the same code.  What the
parts leave open is decided here: `CancelAll` or `SkipCancel` by `ctx` and
`is_open`, whether a pending call can be had, which messages are replies, and
that a thread inside a send does nothing else.

### Watches

Each function on `fd_map` holds `watcher_mutex` throughout and is one action.
libdbus sets the flag of a watch before it calls the toggle function, with its
own lock held, so a toggle is two steps and `dbus_watch_handle`, which takes that
lock, is not between them.  `mask[w]` is the event mask stored with a watch,
`interest[fd]` the mask in the epoll set.  The I/O thread takes the result of
`epoll_wait`, then one descriptor after another, then one watch after another;
before `dbus_watch_handle` it gives `watcher_mutex` up, and it has then the
address of the current watch and the iterator of the next (`cur`, `next`).
Erasing either from another thread is undefined in C++; the model goes to a
state `undefined` from which nothing is promised.  `behind` is history: the
watches whose toggle stored the union of the masks of the descriptor (1601), the
cause of an epoll set that asks for too much.

A connected socket has two watches at one descriptor; watches may be added while
the I/O thread already runs (1198-1226), and a descriptor that has lost all its
watches gets new ones only with a new I/O thread.

### Timers, AlarmClock and TimeSpec

Each of the functions that touch `timers` holds `timer_mutex` throughout and is
one action; `AddTimeout` is also the toggle that enables, `RemoveTimeout` the one
that disables.  `on_add_timeout` reads the clock before it has the mutex, so the
time may be a little old (`MaxDelay`).  Between `epoll_wait` (`PollEvent`) and
`on_timerfd_event` others may change the list, and after it the I/O thread is in
`dbus_timeout_handle` with no mutex (`io_pc = "handle"`).  `std::list::sort` is
stable: an entry that is put off stays before those of the same time (`Before`),
where a new one goes behind them (`After`).  `changed` is history.

`on_timerfd_event` handles the first entry without looking at the clock, so a
timeout can fire early.  That is not an error in itself (libdbus allows for it);
when it happens and when not is part of `AlarmClock`, which has neither list nor
timerfd: only the enabled timeouts with their times (`due`), and a thread that
wakes when one is due and then handles the earliest.  One that is not due yet is
handled only if some timeout was added or removed since the thread woke.  `Timers`
implements it with `due` read off the list (`DueBy`).

`Timers` counts milliseconds.  `TimeSpec` translates `inc_abs_time` and the
comparisons; that adding adds and that the order is that of time is proved.

### MatchRules, Registrations and NameWatch

`MatchRules` has `match_rules` and its mutex, the multiset `bus` of rules that
the bus has for this connection, the requests on their way (`wire`) and what the
dispatch thread has to dispatch, in order (`queue`).  `add_match` and
`remove_match` come in three forms: synchronous (the mutex is held while the
reply is waited for), asynchronous (the answer is worked in by a reply callback)
and quiet (no reply is asked for).  A request can be refused, answered, or time
out for the caller and be carried out all the same; `doubtful` collects the
rules of which the filter may therefore be wrong, and those that two
asynchronous requests, or a connection that could not send, left so.

`Registrations` adds the mutex and table of a class: Properties, ObjectManager,
object_proxy, or a plain filter.  An operation is its list of requests and what
the table becomes if the last succeeds or fails; it holds the mutex from `enter`
to its end.  A signal at the head of the queue needs that mutex, so while a
thread waits for a reply under it the dispatch thread is stuck (`Stuck`).  In a
proxy the callback for changed properties and one for the signal
`PropertiesChanged` share a rule (object_proxy.cpp 421, 497): removing one takes
the rule away from both.

A thread waits for its reply in `send_and_wait`, whose two wakeups can be lost.
`Registrations`, which has a liveness property, keeps that: `overslept` has the
threads that slept past the notify of their reply (583-598), and the dispatch
thread if it slept past the arrival of what is in the queue (1376).  Nothing wakes them: a later notify or a
spurious wakeup would, but need not come.  The lookup of a bus name's owner, before the
registration, is such a call too (object_proxy.cpp 101-115,
org_freedesktop_DBus_Properties.cpp 314, org_freedesktop_DBus_ObjectManager.cpp 141).

`NameWatch` adds the three name callbacks with `cb_mutex`, the lookup of the
unique name of `org.freedesktop.DBus` and the signals that wait for it, each in
the reply of a lookup of its own, and a disconnect, which resets the callbacks
without `cb_mutex` (518), leaves `match_rules` as it is, and drops the call of a
thread that waits in `add_match` or `remove_match` (488-490): that thread is left
behind with the mutexes it has (`LeftBehind`).  All signals are of
the bus itself: others are given back at once.

### Objects

An entry of a map is a record with a number, so that an entry that is erased and
one that is made for the same path later are different.  `registered` is
libdbus' tree: the pointer to an entry that it has for each path.  The dispatch
thread takes such a pointer (`Find`), then the lock of the handler it names
(`OnMessage`), then calls the callback, which may itself call a handler.  A
disconnect makes libdbus forget the tree of a private connection and keeps that
of a shared one.  Three history variables record the ways in which maps and tree
come apart: `forgotten` (paths that a disconnect took from the tree but not from
the maps), `abandoned` (handlers destroyed while not connected, whose paths
stay), and `raced` (entries erased between libdbus' taking the pointer and the
lock).

### BasicTypes, Containers, Marshal and Values

A value is a record with its kind, signature, number or text and items; the
operations of the headers are functions on such records that also tell how they
end (`done`, `false`, `throws`), because some throw half-way and leave what was
done.  The integer types keep their order of widths and wrap (`Convert`), so that
C++'s conversions, and comparisons across types, come out as in C++.  Texts are
numbers, some of which are valid paths or signatures.  `Marshal` turns a value
into what libdbus holds as an argument and back, along the iterator functions.
What `dbus_message_iter_append_basic` refuses (`Refused`: a descriptor that is not
open, a text that is not UTF-8, an invalid path or signature) is left out, since its result is
not looked at (message.cpp 403); in an entry or a variant, that breaks the
container.  A descriptor is received as another one, a duplicate.
`Values` is the state machine: two variables, changed by every operation, with
`misused` for those changed behind the library's back (an item replaced through a
reference without `update_signature`, a path made empty with `clear ()`, a range
of which only the first item is checked), and `retyped` for a dict that
`dbus_dict::reset (int)` has given another signature without clearing it
(dbus_dict.hpp 1006-1014).

## 3. Runs

| run | instance | what it shows |
| --- | --- | --- |
| `lifecycle` | 3 threads and callbacks, 2 queued messages | types, `ThreadsUseLiveCtx`, `OneOwner`, `RestStates`, `SleepsOnlyWithoutWork`; liveness `TeardownEnds`, `QueuedIsDispatched` |
| `calls_teardown` | a `send_and_wait` and a `send`, teardowns and reconnects | types, `EntryFound`, `FrameAliveAtReply`, `OnlyOvertakenGoWrong`, `SweptIsSilent`, `AcceptedIsAnswered`, the refinement `KeepsPromise` |
| `composed` | two threads, a waiting call of a thread and one of a callback | the composition takes only steps of its parts (`IsTheParts`); `QuietAfterDisconnect`; `TeardownEnds` with the locks of both |
| `watches` | one socket with a watch to write and one to read | types, `InterestCovers`, `MaskExactUnlessBehind`, `UndefinedOnlyIfRaced`; liveness `EventsServed` |
| `timers` | three timeouts of intervals 0 and 3, added four times within 4 ms | types, `ListsEnabled`, `SetForFirst`, the refinement `IsAlarmClock`; liveness `DueIsHandled` |
| `registrations` | two threads, each class in turn, 2 operations (Properties, ObjectManager) or 3, a signal in the queue | types, `RulesAgree`, `CallbackHasRule`, `ReplyIsComing`; liveness `RegistrationEnds` |
| `names` | two threads, two of the callbacks and a rule of the program, 3 calls, 3 signals, a disconnect | types, `InOrder`, `WatchHasRule` |
| `objects` | two handlers, two threads and callbacks, a path and the one above it, 2 entries, 2 disconnects | `MapsAgree` |
| `values` | two variables, an array, a dict, a struct, a path, a descriptor and variants of them | `SignaturesDescribe`, `ComparisonsAgree`, `RoundTrip` |

Every property of a passing run has a mutant in `PROJECT.json`: an operator
beside the definition it replaces, named after the mistake it makes, under which
the run fails.

Three runs show the code doing what its documentation says it does not; each is a
finding:

| run | what happens |
| --- | --- |
| `lost_reply_wakeup` | the notify falls between `!got_reply` and `cond.wait`: `send_and_wait` sleeps on a reply that is there |
| `values_reset` | a dict with an entry is reset to another type code and keeps the entry, where the header promises to "Clear the content of the dictionary" (dbus_dict.hpp 1000) |
| `registration_deadlock` | a second callback is registered with Properties, under its mutex, while a signal for the first is dispatched: thread and dispatch thread wait for each other |

### What the properties except

Some properties hold only with exceptions, each named in the property; they are
the behaviours a reader of the code should know of.

* The dispatch thread sleeps with messages in its queue, or a stop requested, if
  the notify came between its predicate and its sleep (1376; `dpc` and `opc` are
  then `overslept`).  Until something else wakes it, what is queued is not
  dispatched (`QueuedIsDispatched`, `AcceptedIsAnswered`, `RegistrationEnds`).
* A teardown does not end if its notify is the one that is lost (497,
  `SleepsThroughStop`), if a callback makes the
  dispatch thread join itself (`is_connected` or `disconnect` in a callback,
  `pc[Dispatcher] = "threw"`), or if a callback is in `send_and_wait`, which
  waits for a reply that only its own thread could dispatch (`DispatcherWaits`).
  In `composed` a send that works without a `ctx` is excepted too: the model has it
  keep `pending_mutex`.
* A send that a teardown overtakes after its `is_connected` calls libdbus with a
  `ctx` that is null or released, or puts its entry into a map that was cleared
  (534-552).
* An accepted call is not answered if a teardown drops its entry (490; a
  `send_and_wait` then waits for ever, as it has no timeout of its own), or if its
  reply is dispatched before the notify function is set (548, `NotifyMissed`).
  A registration that waits in `send_and_wait` also does not end if that wait's own
  wakeup is lost (595), and its mutexes are then never released (`Forgotten`).
  A disconnect leaves a thread behind that waits in `add_match` (`LeftBehind`).
  A call that a teardown cancels may be completed already, and its callback runs (474).
* The epoll set may ask for more than the enabled watches want after a toggle of a
  watch that is not the first of its descriptor (1601); and a disabled first
  watch is taken to have handled a hangup (1366).  In both cases the I/O thread
  comes back at once for events that nobody handles.
* A watch of the descriptor that is being walked may be removed by another
  thread while `watcher_mutex` is given up; the walk is then undefined.
* `match_rules` and the bus disagree about a rule whose request timed out, could
  not be sent quietly, was refused with no reply asked for, was under way twice,
  or was there at a disconnect: after a reconnect `add_match` answers true for a
  rule the bus does not have.  So do the name callbacks' setters, although
  `connection.hpp` promises true "if the corresponding match rule was installed
  or removed".
* Signals that arrive during the lookup of the bus' unique name may be handled
  after later ones.
* A path that libdbus forgot in a disconnect is still in the handler's map:
  registering it again answers true and registers nothing.  The dispatch thread
  may use an entry that was erased under it (object_handler.cpp:146), or one of a
  handler that was destroyed while not connected (45).
* Values changed behind the library's back (`misused`).  Dicts that
  `reset (int)` has left with items of the old type (`retyped`): here it is the
  library that is at fault, as the run `values_reset` shows, and the properties of
  `values` are those of all other values.  Structs without members, descriptors
  that are not open and texts that are not UTF-8: they are left out of a message
  without an error (`CannotBeSent`).

### Differences between code and documentation met on the way

Not about a property, and therefore without a run: the error name in
`message::to_json` lacks its closing quote (message.cpp 711-714); the
asynchronous `become_monitor` calls the interface `org.freedesktop.DBus` and the
synchronous one `...DBus.Monitoring` (1091, 1073); `get_connection_credentials`
throws `std::invalid_argument` when there is no connection (1001);
`return ret = false` in `Properties::set` (197-209) and
`set_iface_property` (object_proxy.cpp 295-298) loses the error; a dict with a
wrong key type throws `std::bad_cast` where the header says
`std::invalid_argument`; `make_reply` of a copied message throws, because the copy has no
serial (message.cpp 153); the callback for properties in an `object_proxy` hides
the signal callback for the same signal (object_proxy.cpp 608-611); an item of a
container that is assigned to the container itself is used after it is freed
(dbus_array.hpp 320-328, dbus_struct.hpp 185-192, dbus_dict.hpp 409-416).

### Bounds

*Lifecycle and calls.*  Three threads, because a second caller races with a
teardown and a third with what follows it; nothing distinguishes a fourth.  Two
queued messages, because the code asks only whether there is one and whether
there is another (`DBUS_DISPATCH_DATA_REMAINS`); a message that libdbus makes up
itself may exceed the bound by one.  Two calls of the two kinds, because calls
meet only at `pending_mutex`, at the map and in the dispatch thread's hand, which
holds one.  A call is sent once: it is one message, and connection and calls
together go through any number of connects.  `composed` has one queued message
and its own arrivals; the parts are checked with more on their own.

*Watches.*  Two watches of one descriptor, as libdbus makes them for a socket;
descriptors do not influence each other.  The one to write is first in the map,
the order in which a stale mask shows.

*Timers.*  Three timeouts, so that an entry has a first, a middle and a last
place; two intervals and a clock that stops after 4 ms, so that new entries come
before, at and after the time of old ones; four additions, because without a
bound a list that changes under every event puts its entries off for ever.

*Rules and names.*  Two threads, one that waits under a mutex and one that wants
it.  The five rules of `registrations` are those that the slots of a class can
share or exchange.  Three operations fill two slots and empty one of them; two
for ObjectManager, whose slots are alike, and for Properties, where two fill two.  One signal in the queue can block the
dispatch thread.  Three signals in `names`: of two, the second waits behind the
first in a lookup of its own or comes when the first is handled, and a third can
pass it.  One disconnect makes every rule doubtful that was there.

*Objects.*  Two handlers, because one can take a path from another; two paths,
one above the other, for fallbacks; two entries, the one under dispatch and the
one that takes its place; two disconnects, so that a path that was forgotten can be
forgotten again by another owner.

*Values.*  Integers of 2 to 5 bits instead of 8 to 64: only the order of the
widths enters into conversions and comparisons.  -1 is also the largest unsigned
number.  At most three values within a variable and two in the other, which is a
container with two members, or one nested in another.  A dict is reset to paths or
variants: what matters is whether its items fit.  Nothing is made of a misused or retyped value
but copies: whatever came of it, the properties would except as well.

### Fairness

Weak fairness for each caller inside a function, the I/O thread (`epoll_wait`
returns after 100 ms), the dispatch thread and callbacks that return, because the
operating system schedules threads.  None for the program's calls, the bus, or
spurious wakeups.  In `PendingCalls` a reply comes (libdbus makes one up when the
timeout expires), a dispatch thread that is awake dispatches a queued reply even if
other messages are dispatched first (strong fairness: it drains the queue, which is
first in, first out, before it sleeps; one that overslept is not woken by any
fairness), and a
teardown releases `ctx` although the dispatch thread may take another message
before it stops (strong fairness: it tests `stop_dispatch_thread` between two
messages).  `Connection` shows when these hold and when not: its own liveness
properties except the lost wakeup and the self-join by name.  In `Registrations`
threads and dispatch thread run unless they overslept.  In `Timers` a timerfd
whose time has come expires, and the I/O thread runs.

Where a step waits for a lock that others take again and again, fairness is
strong: the lock is given to each that waits for it.  This is so of
`dbus_watch_handle` and the toggle function, which wait for libdbus' lock
(`Watches`), and of a thread's steps in `Registrations`, which wait for two
mutexes.  There the bus handles the requests it was sent, which is a timeout in
the worst case.  `NameWatch`, `Objects` and `Values` state safety only.

`CHECK_DEADLOCK FALSE` everywhere but in `values`: once all calls are made, or
the dispatch thread has joined itself or waits for a mutex for ever, or nobody
connects, the system may stop.

## 4. Proofs

TLAPS proves the following for any sets of threads, calls, watches, timeouts,
handlers, paths and names, and any bound.

`Connection_proofs`.  *Types*: `TypeOK` with a bound on the queue (`QueueBound`:
the bound is exceeded only by the local `Disconnected`, when the bus is gone).  *Lifecycle*: the inductive
invariant ties `conn_state`, the mutex and the stop flags to the one caller that
is inside (`SoloStep`, `QuietStep`: what a step of the owner and a step of nobody
preserve).  It is needed because none of the properties is inductive: that
`Release` finds both threads joined depends on where its caller came from, and
that it is alone on `conn_state` being `disconnecting` since that caller began.
From it: `OneOwnerHolds`, `ThreadsUseLiveCtxHolds`, `RestStatesHold`.
`SleepsOnlyWithoutWorkHolds` follows the dispatch thread from its predicate to its
sleep, at each place with what may have been queued since (`SleepInv`).  `HungForGood` is about the teardowns
that do not end: the dispatch thread sleeps through its stop or has joined itself
(`Hung`).  The connection is then disconnecting and libdbus has no functions any
more by which it could wake the thread, which takes one more invariant: a
dispatch thread that was told to stop has a caller waiting for it (`Stopping`).
So only a spurious wakeup of `dispatch_cond` ends it.

`PendingCalls_proofs`.  `IInv` has one conjunct for each call (where its sender
is, against map, notify function, history and reference count) and one for the
call in the dispatch thread's hand.  `NextInv` goes through the actions one by
one.  From it `EntryFoundHolds`, `FrameAliveAtReplyHolds`,
`SweptIsSilentHolds`; of `CallsHistory`, `OnlyOvertakenGoWrongHolds`; with a
strengthening for connections that are not torn down, `UnrefdOnceHolds`, which no run
checks; and `PromiseKept`, the
refinement of `CallProtocol` (`NoNews`, `OneCall` and `SomeDropped` say which
step of `CallProtocol` a change of `status` amounts to).  Four theorems say that
what the liveness properties except is final.  `LeftBehindForGood`: a
`send_and_wait` whose call was dropped waits for ever (it follows from the
refinement: no step of `CallProtocol` takes back a drop).  `LostWakeupForGood`: one
that slept past its notify has nobody left to wake it.  `CallbackNeverReturns`: a
`send_and_wait` in a callback never returns, because the dispatch thread stays in
that callback (`CallbackInv`); and from then on it dispatches nothing
(`WaitsForItselfForGood`).

`Timers_proofs`.  `InsertFacts` and `RemoveFacts` say what `InsertAt` and `RemoveAt`
return; `InsertSorted`, `InsertOneEach`, `RemoveKeeps` and `OneEachCounts` are about
lists of entries.  `Inv` adds to the properties that each timeout has one entry
(else removing one would leave another) and that a reported event stands as long
as the list is unchanged, from which `EarlyOnlyIfChanged` follows: nothing is
handled early unless the list was changed after `epoll_wait`.  Proved:
`TypeCorrect`, `ListsEnabledHolds` (from `SortedHolds` and `ListedOnceHolds`),
`SetForFirstHolds`, `EarlyOnlyIfChangedHolds`; `IsAlarmClockHolds`, the refinement
of `AlarmClock`, for which each operation on the list is shown to be one on the
function `due`, and the first entry to be the earliest; and of the arithmetic of
`TimeSpec`, for every valid timespec and every interval, `IncAbsTimeAdds` and
`LessIsEarlier`.

`ConnectionCalls_proofs`.  `IsThePartsHolds`: every step of the composition is a
step or a stutter of `Connection` and of `PendingCalls`.  What the composition derives
(`phase`) or leaves to one part has to agree with the other: one caller is
inside, its place fits `conn_state` and `ctx`, and the dispatch thread is gone
when it opens or releases (`OwnerInv`), and that thread has a call in its hand
only inside `dbus_connection_dispatch` (`HandlerInv`).  From the same invariant:
`QuietAfterDisconnectHolds`.  The lemmas named `Safe...` of `Connection_proofs` and
`PendingCalls_proofs` use no fairness, so they hold of the whole as well:
`LifecycleOfTheWhole`, `CallsOfTheWhole` and `PromiseOfTheWhole` say of the
composition what the parts' theorems say of the parts, where the teardown that the
calls meet is no longer any sequence of phases but that of `disconnect_impl`; and
`CallbacksHaveCtx`, which neither part can state, that no reply is handled and no
callback runs on a released `ctx`.  `WaitersOfTheWhole` does the same for the waits
that never end, and `StuckForGood` for three of the exceptions of `TeardownEnds`: once
the dispatch thread is stuck in one of the three ways (`Stuck`) it stays so, short of
a spurious wakeup, and a connection that is disconnecting never gets further.  So
these except nothing that could still end well; the fourth is undefined behaviour.

`Watches_proofs`.  Three of the conjuncts of `IInv` are properties that the run
checks.  What they lack: libdbus enables and toggles only watches that are in
`fd_map` (`OnlyMapped`); and, while `watcher_mutex` is held, the iterator of the walk
is at the end or at a watch of the descriptor, and what the walk erases itself,
in `dbus_watch_handle`, leaves nothing of that descriptor to go on to
(`WalkSafe`).  Proved:
`TypeCorrect`, `InterestCoversHolds`, `MaskExactHolds`,
`UndefinedOnlyIfRacedHolds`.

`Objects_proofs`.  `MapsAgree` is not inductive for three reasons, and `Inv` adds
a part for each.  Its second part excepts every handler whose lock is taken;
`MapInv` says what the owner of the lock must be doing to the entry (`Going`:
registering it, or destroying its map), so that one who unregisters (`NotGoing`)
takes a path from another handler only if libdbus had forgotten it.  An entry
that is taken back because libdbus refused it must not be registered or under
dispatch (`NewInv`; entries have fresh numbers).  And a map that is destroyed must
hold nothing that is registered (`OldInv`), which needs that an entry is
registered only for its own path (`TreeInv`).  There is one lemma for each action;
`OthersKeep` says that the locks keep threads apart.  Proved: `TypeCorrect`,
`MapsAgreeHolds`.

`Registrations_proofs`.  The invariant has three parts.  `Calls`: the types,
where each thread is against its call and the two mutexes (`Place`), and that a
thread that waits has exactly one request or reply of its own under way
(`OneReply`).  `Agree`, for each rule that is not doubtful (`AgreeOn`): at most
one piece of news is under way about it, the filter is wrong about it exactly
while that is so, and an addition that is still asked for is the last thing asked
(`Adds`, `NoRemoves`); `RulesAgree` alone says nothing before requests are
settled.  `Tables`: the operation under way adds, moves or drops one callback,
and the rules of all others are safe from it (`Adding`, `Moving`, `Dropping`,
`Safe`), which rests on what each function may plan (`PlanFits`).  The proof
showed that `CallbackHasRule` does not need that nothing is under way, and the
property was strengthened to that.  Proved: `TypeCorrect`, `RulesAgreeHolds`,
`CallbackHasRuleHolds`; `ReplyIsComingHolds`, which adds to `OneReply` that the one
request or reply exists and is to what was asked (`NoneForgotten`: none is lost to
an error, a timeout or an answer after it); and `StuckForGood`: the deadlock that
`registration_deadlock` shows is for good, as no reply, refusal or timeout of
another request ends it.

`NameWatch_proofs`.  `Calls` as above.  `Numbers`: the signals in the queue are in
order and later than all that were handled or looked up (`SignalsAhead`), and
lookups go out, come back and are handled in the order of their signals
(`LookupsInOrder`).  `RulesForeseen`, for each watched rule that is not doubtful:
the requests on the wire, carried out in their order, lead from what the bus has
to what the filter believes (`Path`); setters ask quietly, so the filter is ahead
of the bus.  `CallbacksFollow` ties the callbacks, and a setter that is about to
change one, to the filter.  There is one lemma for each action.  Proved:
`TypeCorrect`, `InOrderHolds`, `WatchHasRuleHolds`; `ReplyComesUnlessLeftBehind`,
with lookups and quiet requests between (`Served`) and disconnects at any time, and
`OnlyDisconnectLeavesBehind`, an action property: a disconnect leaves behind whoever
waits, nothing else does, and nothing brings such a thread back; and
`KnottedForGood`.  That is a deadlock of three: the
dispatch thread waits for `cb_mutex`, a setter that has it for `match_rule_mutex`,
and a thread that has that for a reply, which the dispatch thread would bring
(`Knotted`, a state the model reaches with two threads and a signal).  It needs
that who waits for a reply has `match_rule_mutex` (`Holding`).

Assumed are only the ASSUMEs of the modules: the dispatcher is not one of the
program's threads, and no thread is one of the words that stand for a free mutex
and for other receivers ("free", "async", "nobody", "filter"); `NoThread`, `NoCall`, `NoEntry`, `NoFd` and
`NoRule` are nobody and nothing; the sets of calls are nested as named and each call
has a sender; each watch has a descriptor and flags, and watches are numbers; the
paths above a path are a sequence of paths; the rules are those of the classes,
or the watched and the other ones, apart from each other; intervals and bounds
are numbers, and `NoTime` is not one.

Only model-checked: the liveness properties (`TeardownEnds`,
`QueuedIsDispatched`, `AcceptedIsAnswered`, `DueIsHandled`, `EventsServed`,
`RegistrationEnds`: fairness and ENABLED are beyond the prover), and all of
`Values`, whose functions are recursive over the items of a value: what they compute for
every value needs induction over data, which the prover does not have.

## 5. Not modelled

* **Bus name functions, Introspectable, Peer, and the calls of methods and
  properties**: each makes one send and converts its reply; they have no state,
  and what can go wrong with the send is in `PendingCalls`.
* **retvalue, utils**: a value with an error beside it, and stateless helpers.
* **Callbacks as values**: which callback an entry of a table or map holds, and
  those of the `callback_...` classes, which are read and written under one mutex.
* **Lifetimes**: the destruction of a connection or a message filter while its
  replies are under way (354, message_filter.cpp:124); whether a `DBusTimeout`
  outlives the locks (1261); what is left undefined by assigning a container's
  own item to it.
* **Several connection objects** on one shared `DBusConnection` (1203), except for
  what stays in libdbus' object tree.
* **Iterators** of the containers, and message functions that forward to libdbus.
* errno and return values that no property is about, `conn_type` and whether a
  second `connect` names the same bus (it changes nothing either way),
  `exit_on_disconnect`, copying of messages, and out-of-memory inside libdbus
  other than where the code tests for it.

In `NameWatch` a disconnect is one step, which does not wait for a dispatch thread
that waits for `cb_mutex`; the join (499) would.  So `KnottedForGood` says what
happens as long as nobody disconnects.

## 6. What could come next

1. Lemmas about the parts of `BasicTypes` that are not recursive: the
   conversions of numbers and their comparison.
2. Several connections on one `DBusConnection`, as an instance of `Connection`
   and `Watches` each.
