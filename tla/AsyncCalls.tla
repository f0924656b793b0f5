------------------------------ MODULE AsyncCalls ------------------------------
(***************************************************************************)
(* What event_loop_add_job promises, without threads, locks or lists:      *)
(* every loop has a queue of function calls; a call that was posted is     *)
(* made once, after every call posted before it on that loop, one at a     *)
(* time, and only closing the loop discards calls that were not made yet.  *)
(***************************************************************************)
EXTENDS Sequences

CONSTANTS Loops,   \* the event loops
          Jobs,    \* the functions that can be posted
          None

VARIABLES pending,    \* per loop, the calls posted and not yet begun
          executing,  \* per loop, the call being made, or None
          open        \* per loop, whether the queue still accepts calls

vars == <<pending, executing, open>>

Init ==
  /\ pending = [l \in Loops |-> <<>>]
  /\ executing = [l \in Loops |-> None]
  /\ open = [l \in Loops |-> TRUE]

Post(l, j) ==
  /\ open[l]
  /\ pending' = [pending EXCEPT ![l] = Append(@, j)]
  /\ UNCHANGED <<executing, open>>

Start(l) ==
  /\ executing[l] = None
  /\ pending[l] # <<>>
  /\ executing' = [executing EXCEPT ![l] = Head(pending[l])]
  /\ pending' = [pending EXCEPT ![l] = Tail(@)]
  /\ UNCHANGED open

Finish(l) ==
  /\ executing[l] # None
  /\ executing' = [executing EXCEPT ![l] = None]
  /\ UNCHANGED <<pending, open>>

Close(l) ==
  /\ open[l]
  /\ executing[l] = None
  /\ open' = [open EXCEPT ![l] = FALSE]
  /\ pending' = [pending EXCEPT ![l] = <<>>]
  /\ UNCHANGED executing

Next ==
  \E l \in Loops :
    \/ \E j \in Jobs : Post(l, j)
    \/ Start(l)
    \/ Finish(l)
    \/ Close(l)

Spec == Init /\ [][Next]_vars
===============================================================================
