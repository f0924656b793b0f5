----------------------------- MODULE MCEventLoop -----------------------------
(* Instances of EventLoop for TLC. *)
EXTENDS EventLoop

CONSTANTS l1, l2, a1, j1, j2

OneLoop == {l1}
TwoLoops == {l1, l2}
OneApp == {a1}
TwoJobs == {j1, j2}

Add(l, j) == [loop |-> l, mtx |-> "job", job |-> j]
Use(l, k) == [loop |-> l, mtx |-> k, job |-> None]

\* Callbacks of l1 use both loops, callbacks of l2 only their own: one call of
\* every kind, and a job that adds itself again.
DownhillCalls ==
  [x \in Loops \X Callbacks |->
     CASE x = <<l1, "fd">>    -> {Use(l2, "fd")}
       [] x = <<l1, "timer">> -> {Add(l2, j2)}
       [] x = <<l2, "timer">> -> {Use(l2, "timer")}
       [] x = <<l1, j1>>      -> {Add(l1, j1)}
       [] OTHER               -> {}]
AppUses == {Add(l1, j1), Use(l1, "timer")}
==============================================================================
