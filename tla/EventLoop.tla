------------------------------- MODULE EventLoop -------------------------------
(***************************************************************************)
(* The threads of src/src/event_loop.c.  Every loop owns a thread that     *)
(* runs three passes for ever: it polls the channels, fires the timers and *)
(* runs the jobs, each pass under a recursive mutex of its own that stays  *)
(* locked while the pass runs user callbacks.  A callback, or an           *)
(* application thread, calls the API of any loop, and every API function   *)
(* locks one of the three mutexes of that loop.  The job list is modelled  *)
(* with its contents; the channels and timers appear as the callbacks that *)
(* their passes run.                                                       *)
(***************************************************************************)
EXTENDS Naturals, Sequences, FiniteSets

CONSTANTS
  Loops,      \* the event loops; a loop also names its thread
  Apps,       \* application threads
  Jobs,       \* functions that event_loop_add_job can be given
  None,
  MayCall,    \* MayCall[l, c]: the API requests callback c can make on loop l
  AppCalls,   \* the API requests an application thread can make
  Deletable,  \* the loops the application deletes at some time
  MaxEvents,  \* bound: callbacks that one fd or timer pass runs
  MaxCalls,   \* bound: API calls that one callback makes
  MaxJobs     \* bound: jobs listed on, or being added to, one loop when another
              \* thread or event adds one; a job adds to its own loop at any length

Threads == Loops \cup Apps

\* fd_mtx, timer_mtx and job_mtx of struct event_loop
MutexKinds == {"fd", "timer", "job"}
Mutexes == Loops \X MutexKinds

\* An API call: the loop it names, the mutex it locks and, for
\* event_loop_add_job, the job it adds.  "fd" stands for
\* event_loop_add_channel, _remove_fd, _remove_channel and _update_channel,
\* "timer" for event_loop_add_timer and _remove_timer.
Request ==
  {r \in [loop : Loops, mtx : MutexKinds, job : Jobs \cup {None}] :
     (r.mtx = "job") = (r.job \in Jobs)}

\* A callback that a loop thread runs: the handler of a channel, a timer, a job.
Callbacks == {"fd", "timer"} \cup Jobs

ASSUME EventLoopAssumption ==
  /\ None \notin Threads \cup Callbacks \cup Request
  /\ Loops \cap Apps = {}
  /\ Jobs \cap {"fd", "timer"} = {}
  /\ MayCall \in [Loops \X Callbacks -> SUBSET Request]
  /\ AppCalls \subseteq Request
  /\ Deletable \subseteq Loops
  /\ MaxEvents \in Nat /\ MaxCalls \in Nat /\ MaxJobs \in Nat

VARIABLES
  pc,            \* per loop: where its thread is in _thread_func
  left,          \* per loop: callbacks the fd or timer pass has still to run
  node,          \* per loop: the job pass has a node (node # NULL)
  next,          \* per loop: the job after node, saved before the call (next # NULL)
  job_list,      \* per loop: the jobs listed, oldest first
  callback,      \* per loop: the callback its thread is in, or None
  calls,         \* per loop: API calls the running callback can still make
  api,           \* per thread: "out" of the API, "wait"ing for a mutex, or "in" it
  req,           \* per thread: the API call it is in, or None
  owner,         \* per mutex: the thread that holds it, or None
  depth,         \* per mutex: how many times that thread has locked it
  thread_abort,  \* per loop: event_loop_delete asked the thread to stop
  joining,       \* per application thread: the loop it is joining, or None
  freed          \* per loop: event_loop_delete has freed it

passVars == <<left, node, next, callback, calls>>
apiVars  == <<api, req>>
mtxVars  == <<owner, depth>>
lifeVars == <<thread_abort, joining, freed>>
vars == <<pc, passVars, job_list, apiVars, mtxVars, lifeVars>>

Passes == {"in_fd", "in_timer", "in_job"}
Places == {"check", "min", "fd", "timer", "job", "drop_timers", "drop_jobs",
           "exited"} \cup Passes

\* The pass that runs under a mutex, and the place a thread goes to after it.
PassOf(k) == CASE k = "fd" -> "in_fd" [] k = "timer" -> "in_timer" [] k = "job" -> "in_job"
AfterPass(k) == CASE k = "fd" -> "timer" [] k = "timer" -> "job" [] k = "job" -> "check"

Init ==
  /\ pc = [l \in Loops |-> "check"]
  /\ left = [l \in Loops |-> 0]
  /\ node = [l \in Loops |-> FALSE]
  /\ next = [l \in Loops |-> FALSE]
  /\ job_list = [l \in Loops |-> <<>>]
  /\ callback = [l \in Loops |-> None]
  /\ calls = [l \in Loops |-> 0]
  /\ api = [t \in Threads |-> "out"]
  /\ req = [t \in Threads |-> None]
  /\ owner = [m \in Mutexes |-> None]
  /\ depth = [m \in Mutexes |-> 0]
  /\ thread_abort = [l \in Loops |-> FALSE]
  /\ joining = [a \in Apps |-> None]
  /\ freed = [l \in Loops |-> FALSE]

-------------------------------------------------------------------------------
(* The mutexes: PTHREAD_MUTEX_RECURSIVE. *)

\* Mutant of CanLock: a mutex that is not recursive.
CanLockOnce(t, l, k) == owner[<<l, k>>] = None

CanLock(t, l, k) == owner[<<l, k>>] \in {None, t}

Lock(t, l, k) ==
  /\ CanLock(t, l, k)
  /\ owner' = [owner EXCEPT ![<<l, k>>] = t]
  /\ depth' = [depth EXCEPT ![<<l, k>>] = @ + 1]

Unlock(l, k) ==
  /\ depth' = [depth EXCEPT ![<<l, k>>] = @ - 1]
  /\ owner' = [owner EXCEPT ![<<l, k>>] = IF depth[<<l, k>>] = 1 THEN None ELSE @]

-------------------------------------------------------------------------------
(* The thread of a loop: _thread_func. *)

\* Mutant of Check: the thread never looks at thread_abort.
CheckIgnoresAbort(l) ==
  /\ pc[l] = "check"
  /\ pc' = [pc EXCEPT ![l] = "min"]
  /\ UNCHANGED <<passVars, job_list, apiVars, mtxVars, lifeVars>>

\* while (!eloop->thread_abort)
Check(l) ==
  /\ pc[l] = "check"
  /\ pc' = [pc EXCEPT ![l] = IF thread_abort[l] THEN "drop_timers" ELSE "min"]
  /\ UNCHANGED <<passVars, job_list, apiVars, mtxVars, lifeVars>>

\* _timer_min locks timer_mtx, reads the first timer and unlocks.
TimerMin(l) ==
  /\ pc[l] = "min"
  /\ CanLock(l, l, "timer")
  /\ pc' = [pc EXCEPT ![l] = "fd"]
  /\ UNCHANGED <<passVars, job_list, apiVars, mtxVars, lifeVars>>

\* _fd_proc and _timer_proc lock their mutex; how many callbacks the pass will
\* run depends on the sockets and the clock.
BeginEvents(l, k) ==
  /\ pc[l] = k /\ k \in {"fd", "timer"}
  /\ Lock(l, l, k)
  /\ pc' = [pc EXCEPT ![l] = PassOf(k)]
  /\ \E n \in 0..MaxEvents : left' = [left EXCEPT ![l] = n]
  /\ UNCHANGED <<node, next, callback, calls, job_list, apiVars, lifeVars>>

\* The pass calls the next channel's or timer's function, the mutex still locked.
Dispatch(l, k) ==
  /\ pc[l] = PassOf(k) /\ k \in {"fd", "timer"}
  /\ callback[l] = None /\ left[l] > 0
  /\ callback' = [callback EXCEPT ![l] = k]
  /\ calls' = [calls EXCEPT ![l] = MaxCalls]
  /\ left' = [left EXCEPT ![l] = @ - 1]
  /\ UNCHANGED <<pc, node, next, job_list, apiVars, mtxVars, lifeVars>>

EventReturns(l) ==
  /\ callback[l] \in {"fd", "timer"} /\ api[l] = "out"
  /\ callback' = [callback EXCEPT ![l] = None]
  /\ UNCHANGED <<pc, left, node, next, calls, job_list, apiVars, mtxVars, lifeVars>>

\* _job_proc locks job_mtx and takes the head of the list.
BeginJobs(l) ==
  /\ pc[l] = "job"
  /\ Lock(l, l, "job")
  /\ pc' = [pc EXCEPT ![l] = "in_job"]
  /\ node' = [node EXCEPT ![l] = job_list[l] # <<>>]
  /\ UNCHANGED <<left, next, callback, calls, job_list, apiVars, lifeVars>>

\* next is read before on_job runs, so jobs it adds are not seen through it.
RunJob(l) ==
  /\ pc[l] = "in_job"
  /\ callback[l] = None /\ node[l]
  /\ callback' = [callback EXCEPT ![l] = Head(job_list[l])]
  /\ next' = [next EXCEPT ![l] = Len(job_list[l]) > 1]
  /\ calls' = [calls EXCEPT ![l] = MaxCalls]
  /\ UNCHANGED <<pc, left, node, job_list, apiVars, mtxVars, lifeVars>>

\* Mutant of JobReturns: the next node is read from the list after the call.
JobReturnsRereadsList(l) ==
  /\ callback[l] \in Jobs /\ api[l] = "out"
  /\ callback' = [callback EXCEPT ![l] = None]
  /\ job_list' = [job_list EXCEPT ![l] = Tail(@)]
  /\ node' = [node EXCEPT ![l] = Len(job_list[l]) > 1]
  /\ UNCHANGED <<pc, left, next, calls, apiVars, mtxVars, lifeVars>>

\* Mutant of JobReturns: the node that ran is left in the list.
JobReturnsKeepsNode(l) ==
  /\ callback[l] \in Jobs /\ api[l] = "out"
  /\ callback' = [callback EXCEPT ![l] = None]
  /\ node' = [node EXCEPT ![l] = next[l]]
  /\ UNCHANGED <<pc, left, next, calls, job_list, apiVars, mtxVars, lifeVars>>

\* on_job returned: its node is removed and freed, and the saved next is taken.
JobReturns(l) ==
  /\ callback[l] \in Jobs /\ api[l] = "out"
  /\ callback' = [callback EXCEPT ![l] = None]
  /\ job_list' = [job_list EXCEPT ![l] = Tail(@)]
  /\ node' = [node EXCEPT ![l] = next[l]]
  /\ UNCHANGED <<pc, left, next, calls, apiVars, mtxVars, lifeVars>>

\* Mutant of EndPass: the pass leaves its loop by an early return, still locked.
EndPassKeepsMutex(l, k) ==
  /\ pc[l] = PassOf(k) /\ callback[l] = None
  /\ IF k = "job" THEN ~node[l] ELSE left[l] = 0
  /\ pc' = [pc EXCEPT ![l] = AfterPass(k)]
  /\ UNCHANGED <<passVars, job_list, apiVars, mtxVars, lifeVars>>

\* Nothing is left to call: the pass unlocks its mutex.
EndPass(l, k) ==
  /\ pc[l] = PassOf(k) /\ callback[l] = None
  /\ IF k = "job" THEN ~node[l] ELSE left[l] = 0
  /\ Unlock(l, k)
  /\ pc' = [pc EXCEPT ![l] = AfterPass(k)]
  /\ UNCHANGED <<passVars, job_list, apiVars, lifeVars>>

\* After the loop: _timer_proc(eloop, 1), then _job_proc(eloop, 1) discards
\* the jobs that were not run.
DropTimers(l) ==
  /\ pc[l] = "drop_timers"
  /\ CanLock(l, l, "timer")
  /\ pc' = [pc EXCEPT ![l] = "drop_jobs"]
  /\ UNCHANGED <<passVars, job_list, apiVars, mtxVars, lifeVars>>

DropJobs(l) ==
  /\ pc[l] = "drop_jobs"
  /\ CanLock(l, l, "job")
  /\ pc' = [pc EXCEPT ![l] = "exited"]
  /\ job_list' = [job_list EXCEPT ![l] = <<>>]
  /\ UNCHANGED <<passVars, apiVars, mtxVars, lifeVars>>

-------------------------------------------------------------------------------
(* The API, called by callbacks and by application threads. *)

\* The threads that are adding a job to l right now.
Adding(l) == {t \in Threads : req[t] # None /\ req[t].loop = l /\ req[t].mtx = "job"}

\* A caller uses a loop until event_loop_delete is called on it; the loop's own
\* callbacks go on using it while its thread finishes.
Usable(t, l) == t = l \/ ~thread_abort[l]

\* Thread t runs a job of loop l.
RunsJobOf(t, l) == t = l /\ callback[l] \in Jobs

\* Thread t calls an API function, which first waits for the mutex it needs.
\* (_job_add allocates first; when that fails it takes no mutex and does
\* nothing, which is a call that was not made.)
Enter(t, r) ==
  /\ api[t] = "out"
  /\ Usable(t, r.loop)
  /\ r.mtx = "job" /\ ~RunsJobOf(t, r.loop) =>
       Len(job_list[r.loop]) + Cardinality(Adding(r.loop)) < MaxJobs
  /\ api' = [api EXCEPT ![t] = "wait"]
  /\ req' = [req EXCEPT ![t] = r]

CallbackCalls(l) ==
  /\ callback[l] # None /\ calls[l] > 0
  /\ \E r \in MayCall[<<l, callback[l]>>] : Enter(l, r)
  /\ calls' = [calls EXCEPT ![l] = @ - 1]
  /\ UNCHANGED <<pc, left, node, next, callback, job_list, mtxVars, lifeVars>>

AppCallsApi(a) ==
  /\ joining[a] = None
  /\ \E r \in AppCalls : Enter(a, r)
  /\ UNCHANGED <<pc, passVars, job_list, mtxVars, lifeVars>>

\* pthread_mutex_lock returns to an API function.
Acquire(t) ==
  /\ api[t] = "wait"
  /\ Lock(t, req[t].loop, req[t].mtx)
  /\ api' = [api EXCEPT ![t] = "in"]
  /\ UNCHANGED <<pc, passVars, job_list, req, lifeVars>>

\* What the function does under its mutex: event_loop_add_job appends the job,
\* or loses it when list_append has no memory for its node; the caller is told
\* of success either way.
Effect(t) ==
  \/ /\ req[t].mtx = "job"
     /\ job_list' = [job_list EXCEPT ![req[t].loop] = Append(@, req[t].job)]
  \/ UNCHANGED job_list

\* Mutant of Complete: the function returns without unlocking.
CompleteKeepsMutex(t) ==
  /\ api[t] = "in"
  /\ Effect(t)
  /\ api' = [api EXCEPT ![t] = "out"]
  /\ req' = [req EXCEPT ![t] = None]
  /\ UNCHANGED <<pc, passVars, mtxVars, lifeVars>>

\* The function does its work, unlocks and returns.
Complete(t) ==
  /\ api[t] = "in"
  /\ Effect(t)
  /\ Unlock(req[t].loop, req[t].mtx)
  /\ api' = [api EXCEPT ![t] = "out"]
  /\ req' = [req EXCEPT ![t] = None]
  /\ UNCHANGED <<pc, passVars, lifeVars>>

-------------------------------------------------------------------------------
(* event_loop_delete, called by an application thread that lets no other      *)
(* thread use the loop from now on.                                           *)

DeleteBegins(a, l) ==
  /\ l \in Deletable /\ ~thread_abort[l]
  /\ joining[a] = None /\ api[a] = "out"
  /\ \A t \in Threads \ {l} : req[t] # None => req[t].loop # l
  /\ thread_abort' = [thread_abort EXCEPT ![l] = TRUE]
  /\ joining' = [joining EXCEPT ![a] = l]
  /\ UNCHANGED <<pc, passVars, job_list, apiVars, mtxVars, freed>>

\* Mutant of DeleteEnds: the lists are freed without joining the thread.
DeleteEndsWithoutJoin(a) ==
  /\ joining[a] # None
  /\ job_list' = [job_list EXCEPT ![joining[a]] = <<>>]
  /\ freed' = [freed EXCEPT ![joining[a]] = TRUE]
  /\ joining' = [joining EXCEPT ![a] = None]
  /\ UNCHANGED <<pc, passVars, apiVars, mtxVars, thread_abort>>

\* pthread_join returned: the lists, the mutexes and the loop are freed.
DeleteEnds(a) ==
  /\ joining[a] # None /\ pc[joining[a]] = "exited"
  /\ job_list' = [job_list EXCEPT ![joining[a]] = <<>>]
  /\ freed' = [freed EXCEPT ![joining[a]] = TRUE]
  /\ joining' = [joining EXCEPT ![a] = None]
  /\ UNCHANGED <<pc, passVars, apiVars, mtxVars, thread_abort>>

-------------------------------------------------------------------------------
BeginPass(l) == BeginJobs(l) \/ \E k \in MutexKinds : BeginEvents(l, k)

LoopSteps(l) ==
  \/ Check(l)
  \/ EventReturns(l) \/ RunJob(l) \/ JobReturns(l)
  \/ \E k \in MutexKinds : Dispatch(l, k) \/ EndPass(l, k)

LoopWaits(l) == TimerMin(l) \/ BeginPass(l) \/ DropTimers(l) \/ DropJobs(l)

Next ==
  \/ \E l \in Loops : LoopSteps(l) \/ LoopWaits(l) \/ CallbackCalls(l)
  \/ \E t \in Threads : Acquire(t) \/ Complete(t)
  \/ \E a \in Apps : AppCallsApi(a) \/ DeleteEnds(a) \/ \E l \in Loops : DeleteBegins(a, l)

Spec == Init /\ [][Next]_vars

\* Threads run, user callbacks return, and a thread waiting for a mutex that is
\* free again and again gets it.  Nothing obliges a callback or the application
\* to call the API.
Fairness ==
  /\ \A l \in Loops : WF_vars(LoopSteps(l)) /\ SF_vars(LoopWaits(l))
  /\ \A t \in Threads : SF_vars(Acquire(t)) /\ WF_vars(Complete(t))
  /\ \A a \in Apps : WF_vars(DeleteEnds(a))

FairSpec == Spec /\ Fairness

-------------------------------------------------------------------------------
(* Properties. *)

TypeOK ==
  /\ pc \in [Loops -> Places]
  /\ left \in [Loops -> Nat]
  /\ node \in [Loops -> BOOLEAN] /\ next \in [Loops -> BOOLEAN]
  /\ job_list \in [Loops -> Seq(Jobs)]
  /\ callback \in [Loops -> Callbacks \cup {None}]
  /\ calls \in [Loops -> Nat]
  /\ api \in [Threads -> {"out", "wait", "in"}]
  /\ req \in [Threads -> Request \cup {None}]
  /\ owner \in [Mutexes -> Threads \cup {None}]
  /\ depth \in [Mutexes -> Nat]
  /\ thread_abort \in [Loops -> BOOLEAN] /\ freed \in [Loops -> BOOLEAN]
  /\ joining \in [Apps -> Loops \cup {None}]

\* How many times thread t is inside code that has locked mutex k of loop l:
\* the pass of the loop's own thread, and an API function.
Holds(t, l, k) ==
  (IF t = l /\ pc[l] = PassOf(k) THEN 1 ELSE 0)
  + (IF api[t] = "in" /\ req[t].loop = l /\ req[t].mtx = k THEN 1 ELSE 0)

\* Every mutex is locked exactly as many times as code that locked it is still
\* running, so each lock of event_loop.c is paired with its unlock on every
\* path, and no two threads are inside the sections of one mutex.
LockDiscipline ==
  \A l \in Loops, k \in MutexKinds, t \in Threads :
    Holds(t, l, k) = IF owner[<<l, k>>] = t THEN depth[<<l, k>>] ELSE 0

\* The mutex that a thread needs for its next step.
Needs(t, l, k) ==
  \/ api[t] = "wait" /\ req[t].loop = l /\ req[t].mtx = k
  \/ t = l /\ \/ pc[l] = k
              \/ pc[l] \in {"min", "drop_timers"} /\ k = "timer"
              \/ pc[l] = "drop_jobs" /\ k = "job"

\* Thread t cannot go on before thread u does.
WaitsFor(t, u) ==
  /\ t # u
  /\ \/ \E l \in Loops, k \in MutexKinds : Needs(t, l, k) /\ owner[<<l, k>>] = u
     \/ t \in Apps /\ joining[t] = u

\* No set of threads can wait only for each other: neither a pass, nor a
\* callback that calls the API of its own or another loop, nor a delete can be
\* part of a deadlock.
NoCircularWait ==
  ~ \E S \in SUBSET Threads : S # {} /\ \A t \in S : \E u \in S : WaitsFor(t, u)

\* If this step changes the job list of l, then a thread that is inside a
\* section of job_mtx takes it, or l's own thread, draining the list at the end.
ChangedByHolder(l) ==
  job_list'[l] # job_list[l] =>
    \/ \E t \in Threads : owner[<<l, "job">>] = t /\ Holds(t, l, "job") > 0
    \/ pc[l] = "drop_jobs" /\ owner[<<l, "job">>] = None

\* A loop's job list changes only by a thread that holds its job_mtx, except
\* that event_loop_delete empties it when nobody is left.
JobListGuarded == [][\A l \in Loops : ChangedByHolder(l)]_vars

\* When event_loop_delete has freed a loop, its thread has exited, none of its
\* callbacks is running, none of its mutexes is locked or waited for, and no
\* job is left in its list.
QuietAfterDelete ==
  \A l \in Loops : freed[l] =>
    /\ pc[l] = "exited" /\ callback[l] = None /\ job_list[l] = <<>>
    /\ \A k \in MutexKinds : owner[<<l, k>>] = None
    /\ \A t \in Threads : req[t] # None => req[t].loop # l

\* The event loop implements the queue of asynchronous calls: jobs are made in
\* the order they were added, once each, one at a time on a loop, and are
\* discarded only when the stopped thread drains the list.
Pending   == [l \in Loops |-> IF callback[l] \in Jobs THEN Tail(job_list[l]) ELSE job_list[l]]
Executing == [l \in Loops |-> IF callback[l] \in Jobs THEN callback[l] ELSE None]
Open      == [l \in Loops |-> pc[l] # "exited"]
Calls == INSTANCE AsyncCalls WITH pending <- Pending, executing <- Executing, open <- Open
ImplementsAsyncCalls == Calls!Spec

\* A job that was added is called, unless its loop is being deleted.
JobsAreCalled ==
  \A l \in Loops, j \in Jobs :
    (\E i \in 1..Len(job_list[l]) : job_list[l][i] = j) ~> (callback[l] = j \/ thread_abort[l])

\* Job j of loop l adds a job to its own loop.
AddsItself(l, j) == \E r \in MayCall[<<l, j>>] : r.loop = l /\ r.mtx = "job"

\* Two such jobs wait behind the one that runs.  Each always finds another one
\* behind it, so the pass, which holds job_mtx, may never reach the end.
Crowded(l) ==
  \E i, k \in DOMAIN Pending[l] :
    i # k /\ AddsItself(l, Pending[l][i]) /\ AddsItself(l, Pending[l][k])

\* A loop that is not being deleted polls its channels again and again: neither
\* one job that adds itself nor the adds of other threads make a job pass last
\* for ever.  Two jobs of the loop that add jobs to it do.
KeepsPolling ==
  \A l \in Loops : []<>(pc[l] = "in_fd" \/ thread_abort[l] \/ Crowded(l))

\* A call of the API returns, and so does a call of event_loop_delete: each waits
\* for the passes of the loop it names, callbacks included, but not for ever,
\* unless some loop is crowded.
CallsReturn ==
  LET excused == \E l \in Loops : Crowded(l)
  IN /\ \A t \in Threads : api[t] # "out" ~> (api[t] = "out" \/ excused)
     /\ \A a \in Apps : joining[a] # None ~> (joining[a] = None \/ excused)
=============================================================================
