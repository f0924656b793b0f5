-------------------------------- MODULE LoopPool --------------------------------
(***************************************************************************)
(* The pool of event loops (src/src/event_loop_pool.c): loops are created  *)
(* one by one and handed out in turn, to several threads.                  *)
(***************************************************************************)
EXTENDS Integers

CONSTANTS
  Number,    \* the number of loops that event_loop_pool_create is asked for
  MaxLoop,   \* MAX_LOOP
  Users,     \* threads that call event_loop_pool_next
  None

\* event_loop_pool_create: 0 stands for 8.
N == IF Number = 0 THEN 8 ELSE Number
Loops == 0..(N - 1)

ASSUME LoopPoolAssumption ==
  /\ Number \in Nat /\ MaxLoop \in Nat
  /\ None \notin Users /\ None \notin Int

VARIABLES
  pool,     \* "none", "creating", "open" or "freed"
  running,  \* the loops whose thread runs
  pos,      \* the next loop to hand out
  mtx,      \* the thread inside mtx, or None
  at,       \* per thread: where it is in event_loop_pool_next
  got,      \* per thread: its e_loop, None for no loop
  turns     \* history, per loop: how often it was handed out

nextVars == <<pos, mtx, at, got, turns>>
poolVars == <<pool, running, nextVars>>

PoolInit ==
  /\ pool = "none" /\ running = {}
  /\ pos = 0 /\ mtx = None
  /\ at = [u \in Users |-> "out"] /\ got = [u \in Users |-> None]
  /\ turns = [l \in Loops |-> 0]

-------------------------------------------------------------------------------
(* Creating and deleting. *)

\* event_loop_pool_create, which refuses more than MaxLoop loops.
BeginPool ==
  /\ pool = "none" /\ N <= MaxLoop
  /\ pool' = "creating"
  /\ UNCHANGED <<running, nextVars>>

\* event_loop_create succeeded.
CreateLoop(l) ==
  /\ pool = "creating" /\ running = 0..(l - 1)
  /\ running' = running \cup {l}
  /\ pool' = IF l = N - 1 THEN "open" ELSE "creating"
  /\ UNCHANGED nextVars

\* event_loop_pool_delete.  It passes event_loop_delete the loop, where the
\* address of a pointer to it is expected, so that no thread is stopped; a loop
\* that never had a timer starts with 0 and is taken for no loop.  No thread may
\* be inside event_loop_pool_next.
DeletePool ==
  /\ pool \in {"creating", "open"} /\ \A u \in Users : at[u] = "out"
  /\ pool' = "freed"
  /\ UNCHANGED <<running, nextVars>>

-------------------------------------------------------------------------------
(* event_loop_pool_next, called by a thread u. *)

Move(u, from, to) == at[u] = from /\ at' = [at EXCEPT ![u] = to]

\* Mutant of LockPool: the mutex is not locked.
LockNothing(u) ==
  /\ pool = "open"
  /\ Move(u, "out", "read")
  /\ UNCHANGED <<pool, running, pos, mtx, got, turns>>

LockPool(u) ==
  /\ pool = "open" /\ mtx = None
  /\ Move(u, "out", "read")
  /\ mtx' = u
  /\ UNCHANGED <<pool, running, pos, got, turns>>

\* e_loops[pos]; there is no loop behind the last.
ReadLoop(u) ==
  /\ Move(u, "read", "advance")
  /\ got' = [got EXCEPT ![u] = IF pos \in Loops THEN pos ELSE None]
  /\ turns' = [l \in Loops |-> IF l = pos THEN turns[l] + 1 ELSE turns[l]]
  /\ UNCHANGED <<pool, running, pos, mtx>>

Advance(u) ==
  /\ Move(u, "advance", "wrap")
  /\ pos' = pos + 1
  /\ UNCHANGED <<pool, running, mtx, got, turns>>

Wrap(u) ==
  /\ Move(u, "wrap", "unlock")
  /\ pos' = IF pos >= N THEN 0 ELSE pos
  /\ UNCHANGED <<pool, running, mtx, got, turns>>

UnlockPool(u) ==
  /\ Move(u, "unlock", "out")
  /\ mtx' = None
  /\ UNCHANGED <<pool, running, pos, got, turns>>

NextSteps(u) == ReadLoop(u) \/ Advance(u) \/ Wrap(u) \/ UnlockPool(u)

PoolNext ==
  \/ BeginPool \/ DeletePool
  \/ \E l \in Loops : CreateLoop(l)
  \/ \E u \in Users : LockPool(u) \/ NextSteps(u)

PoolSpec == PoolInit /\ [][PoolNext]_poolVars

-------------------------------------------------------------------------------
(* Properties. *)

\* However the threads interleave, the loops are handed out in turn: no loop twice
\* more often than another, and to every thread a loop whose thread runs.
InTurn ==
  /\ \A k, l \in Loops : turns[k] - turns[l] <= 1
  /\ \A u \in Users : at[u] \notin {"out", "read"} => got[u] \in running
===============================================================================
