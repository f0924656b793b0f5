------------------------------- MODULE Timespec -------------------------------
(***************************************************************************)
(* Deadlines as the code keeps them (src/src/event_loop.c): a struct       *)
(* timespec, what _ts_plus adds to it and how _timer_compare orders two.   *)
(* TimerList has integers in their place.                                  *)
(***************************************************************************)
EXTENDS Integers

OneSecond == 1000 * 1000 * 1000

\* What clock_gettime returns.
Timespecs == [tv_sec : Nat, tv_nsec : 0..(OneSecond - 1)]

Nanoseconds(ts) == ts.tv_sec * OneSecond + ts.tv_nsec

TsPlus(ts, ms) ==
  LET sec == ts.tv_sec + ms \div 1000
      nsec == ts.tv_nsec + (ms % 1000) * 1000 * 1000
  IN  IF nsec >= OneSecond
      THEN [tv_sec |-> sec + nsec \div OneSecond, tv_nsec |-> nsec % OneSecond]
      ELSE [tv_sec |-> sec, tv_nsec |-> nsec]

TimerCompare(ts1, ts2) ==
  LET t1 == Nanoseconds(ts1)
      t2 == Nanoseconds(ts2)
  IN  IF t1 < t2 THEN -1 ELSE IF t1 > t2 THEN 1 ELSE 0
===============================================================================
