----------------------------- MODULE MCTimerList -----------------------------
(* An instance of TimerList for TLC. *)
EXTENDS TimerList

CONSTANT a1

OneApp == {a1}
ZeroAndTwo == {0, 2}
==============================================================================
