----------------------------- MODULE AlarmClock -----------------------------
(***************************************************************************)
(* What a connection promises libdbus about its timeouts, however they are *)
(* kept: its thread wakes only if a timeout is due, and each time it wakes *)
(* it handles one, the earliest, and puts that off by its interval.  That  *)
(* one is due, unless one was added or removed since the thread woke.  A   *)
(* timeout that was removed or disabled is not handled.                    *)
(***************************************************************************)
EXTENDS Naturals

CONSTANTS Timeouts, Repeats, \* the timeouts, and how far they may be put off
          NoTimeout, MaxTime

VARIABLES now,
          due,        \* the enabled timeouts: [at, repeat]
          thread,     \* "poll", "event" when it has woken, or "handle"
          handle,     \* the timeout that is handled
          changed     \* some timeout was added or removed since the thread woke

vars == <<now, due, thread, handle, changed>>

Init ==
  /\ now = 0 /\ due = [h \in {} |-> h] /\ thread = "poll" /\ handle = NoTimeout
  /\ changed = FALSE

\* Its first time counts from when the clock was read.
Enable(h, clock, repeat) ==
  /\ h \notin DOMAIN due
  /\ due' = [o \in DOMAIN due \cup {h} |->
               IF o = h THEN [at |-> clock + repeat, repeat |-> repeat] ELSE due[o]]
  /\ changed' = TRUE
  /\ UNCHANGED <<now, thread, handle>>

Disable(h) ==
  /\ h \in DOMAIN due
  /\ due' = [o \in DOMAIN due \ {h} |-> due[o]]
  /\ changed' = TRUE
  /\ UNCHANGED <<now, thread, handle>>

Tick == now < MaxTime /\ now' = now + 1 /\ UNCHANGED <<due, thread, handle, changed>>

Wake ==
  /\ thread = "poll" /\ thread' = "event"
  /\ \E h \in DOMAIN due : due[h].at <= now
  /\ changed' = FALSE
  /\ UNCHANGED <<now, due, handle>>

\* All that was due has been disabled since.
Doze ==
  /\ thread = "event" /\ thread' = "poll"
  /\ DOMAIN due = {} /\ changed
  /\ UNCHANGED <<now, due, handle, changed>>

Handle(h) ==
  /\ thread = "event" /\ thread' = "handle"
  /\ h \in DOMAIN due /\ \A o \in DOMAIN due : due[h].at <= due[o].at
  /\ due[h].at <= now \/ changed
  /\ handle' = h
  /\ due' = [due EXCEPT ![h].at = @ + due[h].repeat]
  /\ UNCHANGED <<now, changed>>

Handled ==
  /\ thread = "handle" /\ thread' = "poll"
  /\ handle' = NoTimeout
  /\ UNCHANGED <<now, due, changed>>

Next ==
  \/ \E h \in Timeouts :
       \/ Disable(h) \/ Handle(h)
       \/ \E clock \in 0..now, repeat \in Repeats : Enable(h, clock, repeat)
  \/ Tick \/ Wake \/ Doze \/ Handled

Spec == Init /\ [][Next]_vars
=============================================================================
