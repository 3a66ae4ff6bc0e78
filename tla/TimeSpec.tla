------------------------------ MODULE TimeSpec ------------------------------
(***************************************************************************)
(* The arithmetic on struct timespec that the timers of a connection use.  *)
(* Timers counts milliseconds instead: theorems of Timers_proofs show that *)
(* adding an interval adds it and the order of the list is that of time.   *)
(***************************************************************************)
EXTENDS Integers

milliseconds_in_a_second == 1000
nanoseconds_in_a_second == 1000000000
nanoseconds_in_a_milliseconds == 1000000

\* Of the narrowest long that C++ allows.
LONG_MAX == 2147483647

timespec == [tv_sec : Nat, tv_nsec : {n \in Nat : n < nanoseconds_in_a_second}]

\* The time that a timespec stands for, in nanoseconds.
Nanoseconds(t) == t.tv_sec * nanoseconds_in_a_second + t.tv_nsec

\* What is added to tv_nsec: the milliseconds that the loop leaves.
Remainder(msec) == (msec % milliseconds_in_a_second) * nanoseconds_in_a_milliseconds

inc_abs_time(abs, msec) ==
  LET sec  == abs.tv_sec + msec \div milliseconds_in_a_second
      nsec == abs.tv_nsec + Remainder(msec)
  IN  IF nsec >= nanoseconds_in_a_second
      THEN [tv_sec |-> sec + 1, tv_nsec |-> nsec - nanoseconds_in_a_second]
      ELSE [tv_sec |-> sec, tv_nsec |-> nsec]

\* timespec_less_t and compare_timer_entry.
less(lhs, rhs) ==
  IF lhs.tv_sec # rhs.tv_sec
  THEN lhs.tv_sec < rhs.tv_sec
  ELSE lhs.tv_nsec < rhs.tv_nsec

=============================================================================
