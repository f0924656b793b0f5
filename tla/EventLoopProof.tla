---------------------------- MODULE EventLoopProof ----------------------------
(***************************************************************************)
(* Proofs about EventLoop, for every number of loops, threads and jobs and *)
(* for callbacks that make any API calls.                                  *)
(***************************************************************************)
EXTENDS EventLoop, SequenceTheorems, WellFoundedInduction, TLAPS

(* The inductive invariant.                                                *)

\* A mutex has an owner while it is locked.
LockInv ==
  /\ LockDiscipline
  /\ \A m \in Mutexes : (owner[m] = None) <=> (depth[m] = 0)

\* A loop thread is in a callback only inside the pass that runs it, and in the
\* API only inside a callback that makes that call.
CallInv ==
  /\ \A t \in Threads : (api[t] = "out") <=> (req[t] = None)
  /\ \A l \in Loops :
       /\ callback[l] = "fd" => pc[l] = "in_fd"
       /\ callback[l] = "timer" => pc[l] = "in_timer"
       /\ callback[l] \in Jobs => pc[l] = "in_job"
       /\ req[l] # None => callback[l] # None /\ req[l] \in MayCall[<<l, callback[l]>>]

\* While the job pass has a node it is the first of the list, it is the job
\* being called, and the saved next exists if it is not NULL.
JobInv ==
  \A l \in Loops :
    /\ pc[l] = "in_job" /\ node[l] => job_list[l] # <<>>
    /\ callback[l] \in Jobs =>
         /\ node[l] /\ callback[l] = Head(job_list[l])
         /\ next[l] => Len(job_list[l]) > 1

\* A loop that is being deleted is used by its own callbacks only, and by
\* nobody after its thread has exited.
LifeInv ==
  /\ \A l \in Loops :
       /\ pc[l] \in {"drop_timers", "drop_jobs", "exited"} => thread_abort[l]
       /\ thread_abort[l] => \A t \in Threads \ {l} : req[t] # None => req[t].loop # l
       /\ pc[l] = "exited" => job_list[l] = <<>>
       /\ freed[l] => pc[l] = "exited"
  /\ \A a \in Apps : joining[a] # None => thread_abort[joining[a]] /\ api[a] = "out"

IInv == TypeOK /\ LockInv /\ CallInv /\ JobInv /\ LifeInv

-------------------------------------------------------------------------------

LEMMA PassOfValues ==
  ASSUME NEW k \in MutexKinds
  PROVE  /\ PassOf(k) \in Passes
         /\ k = "fd" <=> PassOf(k) = "in_fd"
         /\ k = "timer" <=> PassOf(k) = "in_timer"
         /\ k = "job" <=> PassOf(k) = "in_job"
         /\ AfterPass(k) \in {"timer", "job", "check"}
  BY DEF MutexKinds, PassOf, AfterPass, Passes

LEMMA TakeHead ==
  ASSUME NEW S, NEW s \in Seq(S), s # <<>>
  PROVE  /\ Head(s) \in S /\ Tail(s) \in Seq(S)
         /\ Len(s) > 1 => Tail(s) # <<>>
<1>1. Head(s) \in S /\ Tail(s) \in Seq(S) /\ Len(Tail(s)) = Len(s) - 1
  BY HeadTailProperties
<1>2. Tail(s) = <<>> => Len(Tail(s)) = 0
  BY EmptySeq
<1>3. Len(s) \in Nat
  BY LenProperties
<1> QED
  BY <1>1, <1>2, <1>3

LEMMA InitIInv == Init => IInv
<1> SUFFICES ASSUME Init PROVE IInv
  OBVIOUS
<1> USE EventLoopAssumption DEF Init
<1>1. TypeOK
  BY DEF TypeOK, Places, Passes, Threads
<1>2. LockInv
  <2>1. ASSUME NEW l \in Loops, NEW k \in MutexKinds, NEW t \in Threads
        PROVE  Holds(t, l, k) = 0 /\ owner[<<l, k>>] = None /\ None # t
    <3>1. pc[l] # PassOf(k)
      BY PassOfValues DEF Passes
    <3>2. owner[<<l, k>>] = None
      BY DEF Mutexes
    <3>3. api[t] # "in" /\ None # t
      OBVIOUS
    <3>4. Holds(t, l, k) = 0
      BY ONLY <3>1, <3>3 DEF Holds
    <3> QED
      BY <3>2, <3>3, <3>4
  <2>2. \A m \in Mutexes : owner[m] = None /\ depth[m] = 0
    OBVIOUS
  <2> QED
    BY <2>1, <2>2 DEF LockInv, LockDiscipline
<1>3. CallInv
  BY DEF CallInv, Threads, Callbacks
<1>4. JobInv
  BY DEF JobInv, Callbacks
<1>5. LifeInv
  BY DEF LifeInv, Threads
<1> QED
  BY <1>1, <1>2, <1>3, <1>4, <1>5 DEF IInv

\* A thread that is inside a section owns its mutex, and the other way round.
LEMMA HolderOwns ==
  ASSUME TypeOK, LockInv, NEW t \in Threads, NEW l \in Loops, NEW k \in MutexKinds
  PROVE  Holds(t, l, k) > 0 <=> owner[<<l, k>>] = t
<1>1. PICK m \in Mutexes : m = <<l, k>>
  BY DEF Mutexes
<1>2. Holds(t, l, k) = IF owner[m] = t THEN depth[m] ELSE 0
  BY <1>1 DEF LockInv, LockDiscipline
<1>3. depth[m] \in Nat /\ (owner[m] = t => depth[m] # 0)
  BY EventLoopAssumption DEF TypeOK, LockInv
<1> QED
  BY <1>1, <1>2, <1>3

\* A step that changes no mutex and moves no thread in or out of a section.
LEMMA MutexesKept ==
  ASSUME TypeOK, LockInv, UNCHANGED mtxVars,
         \A u \in Threads, m \in Loops, j \in MutexKinds : Holds(u, m, j)' = Holds(u, m, j)
  PROVE  LockInv'
BY DEF LockInv, LockDiscipline, mtxVars

\* Thread t enters a section of mutex k of loop l.
LEMMA MutexLocked ==
  ASSUME TypeOK, LockInv, NEW t \in Threads, NEW l \in Loops, NEW k \in MutexKinds,
         Lock(t, l, k),
         Holds(t, l, k)' = Holds(t, l, k) + 1,
         \A u \in Threads, m \in Loops, j \in MutexKinds :
           <<u, m, j>> # <<t, l, k>> => Holds(u, m, j)' = Holds(u, m, j)
  PROVE  /\ LockInv'
         /\ owner' \in [Mutexes -> Threads \cup {None}]
         /\ depth' \in [Mutexes -> Nat]
<1>1. PICK x \in Mutexes : x = <<l, k>>
  BY DEF Mutexes
<1>2. /\ owner \in [Mutexes -> Threads \cup {None}]
      /\ depth \in [Mutexes -> Nat]
  BY DEF TypeOK
<1>3. /\ owner[x] \in {None, t}
      /\ owner' = [owner EXCEPT ![x] = t]
      /\ depth' = [depth EXCEPT ![x] = depth[x] + 1]
  BY <1>1 DEF Lock, CanLock
<1>4. None \notin Threads
  BY EventLoopAssumption
<1>5. /\ owner' \in [Mutexes -> Threads \cup {None}]
      /\ depth' \in [Mutexes -> Nat]
  BY <1>2, <1>3
<1>6. \A m \in Mutexes : (owner'[m] = None) <=> (depth'[m] = 0)
  BY <1>2, <1>3, <1>4 DEF LockInv
<1>7. ASSUME NEW m \in Loops, NEW j \in MutexKinds, NEW u \in Threads
      PROVE  Holds(u, m, j)' = IF owner'[<<m, j>>] = u THEN depth'[<<m, j>>] ELSE 0
  <2>1. PICK y \in Mutexes : y = <<m, j>>
    BY DEF Mutexes
  <2>2. Holds(u, m, j) = IF owner[y] = u THEN depth[y] ELSE 0
    BY <2>1 DEF LockInv, LockDiscipline
  <2>3. CASE y # x
    <3>1. Holds(u, m, j)' = Holds(u, m, j)
      BY <2>1, <2>3, <1>1
    <3> QED
      BY <2>1, <2>2, <2>3, <3>1, <1>2, <1>3
  <2>4. CASE y = x
    <3>1. m = l /\ j = k
      BY <2>1, <2>4, <1>1
    <3>2. (owner[x] = None) <=> (depth[x] = 0)
      BY DEF LockInv
    <3>3. owner'[x] = t /\ depth'[x] = depth[x] + 1 /\ depth[x] \in Nat
      BY <1>2, <1>3
    <3>4. Holds(u, m, j)' = IF t = u THEN depth[x] + 1 ELSE 0
      <4>1. CASE u = t
        BY <4>1, <3>1, <3>2, <3>3, <2>2, <2>4, <1>3, <1>4
      <4>2. CASE u # t
        BY <4>2, <3>1, <2>2, <2>4, <1>3, <1>4
      <4> QED
        BY <4>1, <4>2
    <3> QED
      BY <3>3, <3>4, <2>1, <2>4
  <2> QED
    BY <2>3, <2>4
<1> QED
  BY <1>5, <1>6, <1>7 DEF LockInv, LockDiscipline

\* Thread t leaves a section of mutex k of loop l.
LEMMA MutexUnlocked ==
  ASSUME TypeOK, LockInv, NEW t \in Threads, NEW l \in Loops, NEW k \in MutexKinds,
         Unlock(l, k), Holds(t, l, k) > 0,
         Holds(t, l, k)' = Holds(t, l, k) - 1,
         \A u \in Threads, m \in Loops, j \in MutexKinds :
           <<u, m, j>> # <<t, l, k>> => Holds(u, m, j)' = Holds(u, m, j)
  PROVE  /\ LockInv'
         /\ owner' \in [Mutexes -> Threads \cup {None}]
         /\ depth' \in [Mutexes -> Nat]
<1>1. PICK x \in Mutexes : x = <<l, k>>
  BY DEF Mutexes
<1>2. /\ owner \in [Mutexes -> Threads \cup {None}]
      /\ depth \in [Mutexes -> Nat]
  BY DEF TypeOK
<1>3. None \notin Threads
  BY EventLoopAssumption
<1>4. owner[x] = t /\ Holds(t, l, k) = depth[x] /\ depth[x] > 0 /\ depth[x] \in Nat
  <2>1. Holds(t, l, k) = IF owner[x] = t THEN depth[x] ELSE 0
    BY <1>1 DEF LockInv, LockDiscipline
  <2> QED
    BY <2>1, <1>2
<1>5. /\ owner' = [owner EXCEPT ![x] = IF depth[x] = 1 THEN None ELSE owner[x]]
      /\ depth' = [depth EXCEPT ![x] = depth[x] - 1]
  BY <1>1 DEF Unlock
<1>6. /\ owner' \in [Mutexes -> Threads \cup {None}]
      /\ depth' \in [Mutexes -> Nat]
  BY <1>2, <1>4, <1>5
<1>7. \A m \in Mutexes : (owner'[m] = None) <=> (depth'[m] = 0)
  BY <1>2, <1>3, <1>4, <1>5 DEF LockInv
<1>8. ASSUME NEW m \in Loops, NEW j \in MutexKinds, NEW u \in Threads
      PROVE  Holds(u, m, j)' = IF owner'[<<m, j>>] = u THEN depth'[<<m, j>>] ELSE 0
  <2>1. PICK y \in Mutexes : y = <<m, j>>
    BY DEF Mutexes
  <2>2. Holds(u, m, j) = IF owner[y] = u THEN depth[y] ELSE 0
    BY <2>1 DEF LockInv, LockDiscipline
  <2>3. CASE y # x
    <3>1. Holds(u, m, j)' = Holds(u, m, j)
      BY <2>1, <2>3, <1>1
    <3> QED
      BY <2>1, <2>2, <2>3, <3>1, <1>2, <1>5
  <2>4. CASE y = x
    <3>1. m = l /\ j = k
      BY <2>1, <2>4, <1>1
    <3>2. owner'[x] = (IF depth[x] = 1 THEN None ELSE t) /\ depth'[x] = depth[x] - 1
      BY <1>2, <1>4, <1>5
    <3>3. Holds(u, m, j)' = IF t = u THEN depth[x] - 1 ELSE 0
      <4>1. CASE u = t
        BY <4>1, <3>1, <1>4
      <4>2. CASE u # t
        BY <4>2, <3>1, <2>2, <2>4, <1>4
      <4> QED
        BY <4>1, <4>2
    <3> QED
      BY <3>2, <3>3, <2>1, <2>4, <1>3, <1>4
  <2> QED
    BY <2>3, <2>4
<1> QED
  BY <1>6, <1>7, <1>8 DEF LockInv, LockDiscipline
-------------------------------------------------------------------------------

\* How a move of a loop's thread changes what it holds.
LEMMA PassEntered ==
  ASSUME NEW l \in Loops, NEW k \in MutexKinds, TypeOK, UNCHANGED apiVars,
         pc[l] \notin Passes, pc' = [pc EXCEPT ![l] = PassOf(k)]
  PROVE  /\ Holds(l, l, k)' = Holds(l, l, k) + 1
         /\ \A u \in Threads, m \in Loops, j \in MutexKinds :
              <<u, m, j>> # <<l, l, k>> => Holds(u, m, j)' = Holds(u, m, j)
<1>1. \A j \in MutexKinds : pc[l] # PassOf(j) /\ (pc'[l] = PassOf(j) <=> j = k)
  BY PassOfValues DEF TypeOK, Passes, MutexKinds
<1>2. \A m \in Loops : m # l => pc'[m] = pc[m]
  BY DEF TypeOK
<1> QED
  BY <1>1, <1>2 DEF Holds, apiVars

LEMMA PassLeft ==
  ASSUME NEW l \in Loops, NEW k \in MutexKinds, TypeOK, UNCHANGED apiVars,
         pc[l] = PassOf(k), NEW q \in Places \ Passes, pc' = [pc EXCEPT ![l] = q]
  PROVE  /\ Holds(l, l, k)' = Holds(l, l, k) - 1
         /\ Holds(l, l, k) > 0
         /\ \A u \in Threads, m \in Loops, j \in MutexKinds :
              <<u, m, j>> # <<l, l, k>> => Holds(u, m, j)' = Holds(u, m, j)
<1>1. \A j \in MutexKinds : pc'[l] # PassOf(j) /\ (pc[l] = PassOf(j) <=> j = k)
  BY PassOfValues DEF TypeOK, Passes, MutexKinds
<1>2. \A m \in Loops : m # l => pc'[m] = pc[m]
  BY DEF TypeOK
<1> QED
  BY <1>1, <1>2 DEF Holds, apiVars

LEMMA NoPassTouched ==
  ASSUME NEW l \in Loops, TypeOK, UNCHANGED apiVars,
         pc[l] \notin Passes, NEW q \in Places \ Passes, pc' = [pc EXCEPT ![l] = q]
  PROVE  \A u \in Threads, m \in Loops, j \in MutexKinds : Holds(u, m, j)' = Holds(u, m, j)
<1>1. \A j \in MutexKinds : pc'[l] # PassOf(j) /\ pc[l] # PassOf(j)
  BY PassOfValues DEF TypeOK
<1>2. \A m \in Loops : m # l => pc'[m] = pc[m]
  BY DEF TypeOK
<1> QED
  BY <1>1, <1>2 DEF Holds, apiVars

-------------------------------------------------------------------------------

\* The steps of a loop's thread outside its passes.
LEMMA LoopMoves ==
  ASSUME IInv, NEW l \in Loops,
         Check(l) \/ TimerMin(l) \/ DropTimers(l) \/ DropJobs(l)
  PROVE  IInv'
<1> USE DEF IInv
<1>1. PICK q \in Places \ Passes : pc' = [pc EXCEPT ![l] = q] /\ pc[l] \notin Passes
  BY DEF Check, TimerMin, DropTimers, DropJobs, Places, Passes
<1>2. UNCHANGED <<passVars, apiVars, mtxVars, lifeVars>>
  BY DEF Check, TimerMin, DropTimers, DropJobs
<1>3. /\ job_list' \in [Loops -> Seq(Jobs)]
      /\ \A m \in Loops : job_list'[m] = job_list[m] \/ (m = l /\ pc'[m] = "exited")
      /\ pc'[l] = "exited" => job_list'[l] = <<>>
  <2>1. CASE DropJobs(l)
    BY <2>1 DEF DropJobs, TypeOK
  <2>2. CASE Check(l) \/ TimerMin(l) \/ DropTimers(l)
    <3>1. job_list' = job_list /\ pc'[l] # "exited"
      BY <2>2 DEF Check, TimerMin, DropTimers, TypeOK
    <3> QED
      BY <3>1 DEF TypeOK
  <2> QED
    BY <2>1, <2>2
<1>4. TypeOK'
  BY <1>1, <1>2, <1>3 DEF TypeOK, passVars, apiVars, mtxVars, lifeVars
<1>5. LockInv'
  BY <1>1, <1>2, NoPassTouched, MutexesKept
<1>6. callback[l] \in {None}
  BY <1>1 DEF CallInv, TypeOK, Callbacks, Passes
<1>7. \A m \in Loops : m # l => pc'[m] = pc[m]
  BY <1>1 DEF TypeOK
<1>8. CallInv'
  BY <1>2, <1>6, <1>7, EventLoopAssumption DEF CallInv, passVars, apiVars, Callbacks
<1>9. JobInv'
  BY <1>1, <1>2, <1>3, <1>6, <1>7, EventLoopAssumption
     DEF JobInv, TypeOK, Passes, passVars, Callbacks
<1>10. pc'[l] \in {"drop_timers", "drop_jobs", "exited"} => thread_abort[l]
  BY DEF Check, TimerMin, DropTimers, DropJobs, TypeOK, LifeInv
<1>11. freed[l] => pc'[l] = "exited"
  BY DEF Check, TimerMin, DropTimers, DropJobs, TypeOK, LifeInv
<1>12. LifeInv'
  BY <1>2, <1>3, <1>7, <1>10, <1>11 DEF LifeInv, apiVars, lifeVars
<1> QED
  BY <1>4, <1>5, <1>8, <1>9, <1>12

\* A pass takes its mutex.
LEMMA PassBegins ==
  ASSUME IInv, NEW l \in Loops, BeginPass(l)
  PROVE  IInv'
<1> USE DEF IInv
<1>1. PICK k \in MutexKinds : /\ Lock(l, l, k) /\ pc[l] = k
                              /\ pc' = [pc EXCEPT ![l] = PassOf(k)]
                              /\ node'[l] => k # "job" \/ job_list[l] # <<>>
  BY DEF BeginPass, BeginJobs, BeginEvents, MutexKinds, PassOf, TypeOK
<1>2. UNCHANGED <<next, callback, calls, job_list, apiVars, lifeVars>>
  BY DEF BeginPass, BeginJobs, BeginEvents
<1>3. /\ left' \in [Loops -> Nat] /\ node' \in [Loops -> BOOLEAN]
      /\ \A m \in Loops : m # l => pc'[m] = pc[m] /\ node'[m] = node[m]
  <2>1. CASE BeginJobs(l)
    BY <2>1 DEF BeginJobs, TypeOK
  <2>2. ASSUME NEW j \in MutexKinds, BeginEvents(l, j) PROVE <1>3
    BY <2>2, EventLoopAssumption DEF BeginEvents, TypeOK
  <2> QED
    BY <2>1, <2>2 DEF BeginPass
<1>4. pc[l] \notin Passes /\ pc'[l] = PassOf(k) /\ PassOf(k) \in Passes
  BY <1>1, PassOfValues DEF Passes, MutexKinds, TypeOK
<1>5. /\ LockInv'
      /\ owner' \in [Mutexes -> Threads \cup {None}]
      /\ depth' \in [Mutexes -> Nat]
  <2>1. l \in Threads
    BY DEF Threads
  <2>2. UNCHANGED apiVars
    BY <1>2
  <2> QED
    BY <1>1, <1>4, <2>1, <2>2, PassEntered, MutexLocked
<1>6. TypeOK'
  BY <1>1, <1>2, <1>3, <1>4, <1>5 DEF TypeOK, apiVars, lifeVars, Places
<1>7. callback[l] \in {None}
  BY <1>4 DEF CallInv, TypeOK, Callbacks, Passes
<1>8. CallInv'
  BY <1>2, <1>3, <1>7, EventLoopAssumption DEF CallInv, apiVars, Callbacks
<1>9. JobInv'
  BY <1>1, <1>2, <1>3, <1>4, <1>7, PassOfValues, EventLoopAssumption
     DEF JobInv, Callbacks
<1>10. LifeInv'
  <2>1. pc'[l] \notin {"drop_timers", "drop_jobs", "exited"} /\ pc[l] # "exited"
    BY <1>1, <1>4 DEF Passes, MutexKinds
  <2> QED
    BY <1>2, <1>3, <2>1 DEF LifeInv, apiVars, lifeVars
<1> QED
  BY <1>5, <1>6, <1>8, <1>9, <1>10

\* A pass has nothing left to call and gives its mutex back.
LEMMA PassEnds ==
  ASSUME IInv, NEW l \in Loops, NEW k \in MutexKinds, EndPass(l, k)
  PROVE  IInv'
<1> USE DEF IInv
<1>1. /\ Unlock(l, k) /\ pc[l] = PassOf(k) /\ callback[l] = None
      /\ pc' = [pc EXCEPT ![l] = AfterPass(k)]
      /\ UNCHANGED <<passVars, job_list, apiVars, lifeVars>>
  BY DEF EndPass
<1>2. AfterPass(k) \in {"timer", "job", "check"}
  BY PassOfValues
<1>3. AfterPass(k) \in Places \ Passes
  BY <1>2 DEF Places, Passes
<1>4. \A m \in Loops : pc'[m] = IF m = l THEN AfterPass(k) ELSE pc[m]
  BY <1>1 DEF TypeOK
<1>5. /\ LockInv'
      /\ owner' \in [Mutexes -> Threads \cup {None}]
      /\ depth' \in [Mutexes -> Nat]
  <2>1. l \in Threads
    BY DEF Threads
  <2> QED
    BY <1>1, <1>3, <2>1, PassLeft, MutexUnlocked
<1>6. TypeOK'
  BY <1>1, <1>3, <1>5 DEF TypeOK, passVars, apiVars, lifeVars
<1>7. CallInv'
  BY <1>1, <1>4, EventLoopAssumption DEF CallInv, apiVars, passVars, Callbacks
<1>8. JobInv'
  BY <1>1, <1>2, <1>4, EventLoopAssumption DEF JobInv, passVars, Callbacks
<1>9. LifeInv'
  BY <1>1, <1>2, <1>4, PassOfValues DEF LifeInv, apiVars, lifeVars, Passes
<1> QED
  BY <1>5, <1>6, <1>7, <1>8, <1>9

\* A pass runs a callback, and the callback returns.
LEMMA CallbackBegins ==
  ASSUME IInv, NEW l \in Loops, RunJob(l) \/ \E k \in MutexKinds : Dispatch(l, k)
  PROVE  IInv'
<1> USE DEF IInv
<1>1. UNCHANGED <<pc, node, job_list, apiVars, mtxVars, lifeVars>> /\ callback[l] = None
  BY DEF RunJob, Dispatch
<1>2. PICK c \in Callbacks :
        /\ callback' = [callback EXCEPT ![l] = c]
        /\ RunJob(l) => c = Head(job_list[l]) /\ c \in Jobs
        /\ \A k \in MutexKinds : Dispatch(l, k) => c = k /\ c \in {"fd", "timer"}
  <2>1. CASE RunJob(l)
    <3>1. job_list[l] # <<>> /\ job_list[l] \in Seq(Jobs)
      BY <2>1 DEF RunJob, JobInv, TypeOK
    <3>2. Head(job_list[l]) \in Jobs
      BY <3>1, TakeHead
    <3>3. \A k \in MutexKinds : ~ Dispatch(l, k)
      BY <2>1, PassOfValues DEF RunJob, Dispatch
    <3> QED
      BY <2>1, <3>2, <3>3 DEF RunJob, Callbacks
  <2>2. CASE \E k \in MutexKinds : Dispatch(l, k)
    <3>1. PICK k \in MutexKinds : Dispatch(l, k)
      BY <2>2
    <3>2. k \in {"fd", "timer"} /\ callback' = [callback EXCEPT ![l] = k]
      BY <3>1 DEF Dispatch
    <3>3. ~ RunJob(l)
      BY <3>1, <3>2 DEF RunJob, Dispatch, PassOf
    <3>4. \A j \in MutexKinds : Dispatch(l, j) => j = k
      BY <3>1, <3>2 DEF Dispatch, PassOf
    <3> QED
      BY <3>2, <3>3, <3>4 DEF Callbacks
  <2> QED
    BY <2>1, <2>2
<1>3. /\ left' \in [Loops -> Nat] /\ calls' \in [Loops -> Nat] /\ next' \in [Loops -> BOOLEAN]
      /\ \A m \in Loops : m # l => next'[m] = next[m]
  <2>1. CASE RunJob(l)
    BY <2>1, EventLoopAssumption DEF RunJob, TypeOK
  <2>2. CASE \E k \in MutexKinds : Dispatch(l, k)
    <3>1. left[l] \in Nat /\ left[l] > 0 /\ UNCHANGED next
      BY <2>2 DEF Dispatch, TypeOK
    <3>2. /\ left' = [left EXCEPT ![l] = left[l] - 1]
          /\ calls' = [calls EXCEPT ![l] = MaxCalls]
      BY <2>2 DEF Dispatch
    <3> QED
      BY <3>1, <3>2, EventLoopAssumption DEF TypeOK
  <2> QED
    BY <2>1, <2>2
<1>4. /\ callback'[l] = c
      /\ \A m \in Loops : m # l => callback'[m] = callback[m]
  BY <1>2 DEF TypeOK
<1>5. /\ c = "fd" => pc[l] = "in_fd"
      /\ c = "timer" => pc[l] = "in_timer"
      /\ c \in Jobs => /\ pc[l] = "in_job" /\ node[l] /\ c = Head(job_list[l])
                       /\ next'[l] => Len(job_list[l]) > 1
  <2>1. CASE RunJob(l)
    BY <2>1, <1>2, EventLoopAssumption DEF RunJob, TypeOK
  <2>2. CASE \E k \in MutexKinds : Dispatch(l, k)
    <3>1. pc[l] = PassOf(c) /\ c \in {"fd", "timer"}
      BY <2>2, <1>2 DEF Dispatch
    <3> QED
      BY <3>1, EventLoopAssumption DEF PassOf
  <2> QED
    BY <2>1, <2>2
<1>6. TypeOK'
  BY <1>1, <1>2, <1>3 DEF TypeOK, apiVars, mtxVars, lifeVars
<1>7. LockInv'
  <2>1. \A u \in Threads, m \in Loops, j \in MutexKinds : Holds(u, m, j)' = Holds(u, m, j)
    BY <1>1 DEF Holds, apiVars
  <2> QED
    BY <1>1, <2>1, MutexesKept
<1>8. CallInv'
  <2>1. req[l] = None /\ c # None
    BY <1>1, EventLoopAssumption DEF CallInv
  <2> QED
    BY <1>1, <1>4, <1>5, <2>1 DEF CallInv, apiVars
<1>9. JobInv'
  BY <1>1, <1>3, <1>4, <1>5 DEF JobInv
<1>10. LifeInv'
  BY <1>1 DEF LifeInv, apiVars, lifeVars
<1> QED
  BY <1>6, <1>7, <1>8, <1>9, <1>10

LEMMA CallbackReturns ==
  ASSUME IInv, NEW l \in Loops, EventReturns(l) \/ JobReturns(l)
  PROVE  IInv'
<1> USE DEF IInv
<1>1. /\ UNCHANGED <<pc, left, next, calls, apiVars, mtxVars, lifeVars>>
      /\ callback' = [callback EXCEPT ![l] = None] /\ api[l] = "out"
  BY DEF EventReturns, JobReturns
<1>2. /\ callback'[l] = None
      /\ \A m \in Loops : m # l => callback'[m] = callback[m]
  BY <1>1 DEF TypeOK
<1>3. /\ job_list' \in [Loops -> Seq(Jobs)] /\ node' \in [Loops -> BOOLEAN]
      /\ \A m \in Loops : m # l => job_list'[m] = job_list[m] /\ node'[m] = node[m]
      /\ job_list'[l] = <<>> \/ pc[l] # "exited"
      /\ pc[l] = "in_job" /\ node'[l] => job_list'[l] # <<>>
  <2>1. CASE EventReturns(l)
    BY <2>1, <1>1 DEF EventReturns, TypeOK, CallInv, JobInv
  <2>2. CASE JobReturns(l)
    <3>1. /\ job_list[l] \in Seq(Jobs) /\ job_list[l] # <<>>
          /\ next[l] => Len(job_list[l]) > 1
          /\ pc[l] = "in_job" /\ next[l] \in BOOLEAN
      BY <2>2 DEF JobReturns, CallInv, JobInv, TypeOK
    <3>2. /\ Tail(job_list[l]) \in Seq(Jobs)
          /\ Len(job_list[l]) > 1 => Tail(job_list[l]) # <<>>
      BY <3>1, TakeHead
    <3> QED
      BY <2>2, <3>1, <3>2 DEF JobReturns, TypeOK
  <2> QED
    BY <2>1, <2>2
<1>4. TypeOK'
  BY <1>1, <1>3 DEF TypeOK, apiVars, mtxVars, lifeVars
<1>5. LockInv'
  <2>1. \A u \in Threads, m \in Loops, j \in MutexKinds : Holds(u, m, j)' = Holds(u, m, j)
    BY <1>1 DEF Holds, apiVars
  <2> QED
    BY <1>1, <2>1, MutexesKept
<1>6. CallInv'
  <2>1. req[l] = None /\ l \in Threads
    BY <1>1 DEF CallInv, Threads
  <2> QED
    BY <1>1, <1>2, <2>1, EventLoopAssumption DEF CallInv, apiVars, Callbacks
<1>7. JobInv'
  BY <1>1, <1>2, <1>3, EventLoopAssumption DEF JobInv, Callbacks
<1>8. LifeInv'
  BY <1>1, <1>3 DEF LifeInv, apiVars, lifeVars
<1> QED
  BY <1>4, <1>5, <1>6, <1>7, <1>8
-------------------------------------------------------------------------------

\* A thread in the API has a request, whose mutex exists.
LEMMA RequestOf ==
  ASSUME TypeOK, CallInv, NEW t \in Threads, api[t] # "out"
  PROVE  /\ req[t] \in Request /\ req[t].loop \in Loops /\ req[t].mtx \in MutexKinds
         /\ req[t].mtx = "job" => req[t].job \in Jobs
BY DEF TypeOK, CallInv, Request

\* A callback or an application thread calls the API.
LEMMA ApiCalled ==
  ASSUME IInv, NEW t \in Threads, NEW r \in Request, Enter(t, r),
         UNCHANGED <<pc, left, node, next, callback, job_list, mtxVars, lifeVars>>,
         calls' \in [Loops -> Nat],
         t \in Apps => joining[t] = None,
         t \in Loops => callback[t] # None /\ r \in MayCall[<<t, callback[t]>>]
  PROVE  IInv'
<1> USE DEF IInv
<1>1. /\ api' = [api EXCEPT ![t] = "wait"] /\ req' = [req EXCEPT ![t] = r]
      /\ api[t] = "out" /\ Usable(t, r.loop)
  BY DEF Enter
<1>2. /\ api'[t] = "wait" /\ req'[t] = r /\ r # None
      /\ \A u \in Threads : u # t => api'[u] = api[u] /\ req'[u] = req[u]
  BY <1>1, EventLoopAssumption DEF TypeOK
<1>3. TypeOK'
  BY <1>1 DEF TypeOK, mtxVars, lifeVars
<1>4. LockInv'
  <2>1. \A u \in Threads, m \in Loops, j \in MutexKinds : Holds(u, m, j)' = Holds(u, m, j)
    BY <1>1, <1>2 DEF Holds
  <2> QED
    BY <2>1, MutexesKept
<1>5. CallInv'
  BY <1>2 DEF CallInv, Threads
<1>6. JobInv'
  BY DEF JobInv
<1>7. LifeInv'
  <2>1. \A l \in Loops : thread_abort[l] /\ t # l => r.loop # l
    BY <1>1 DEF Usable
  <2> QED
    BY <1>2, <2>1 DEF LifeInv, lifeVars, Threads
<1> QED
  BY <1>3, <1>4, <1>5, <1>6, <1>7

\* An API function gets its mutex.
LEMMA ApiLocks ==
  ASSUME IInv, NEW t \in Threads, Acquire(t)
  PROVE  IInv'
<1> USE DEF IInv
<1>1. /\ Lock(t, req[t].loop, req[t].mtx)
      /\ api[t] = "wait" /\ api' = [api EXCEPT ![t] = "in"]
      /\ UNCHANGED <<pc, passVars, job_list, req, lifeVars>>
  BY DEF Acquire
<1>2. /\ api'[t] = "in"
      /\ \A u \in Threads : u # t => api'[u] = api[u]
  BY <1>1 DEF TypeOK
<1>3. req[t].loop \in Loops /\ req[t].mtx \in MutexKinds
  BY <1>1, RequestOf
<1>4. /\ LockInv'
      /\ owner' \in [Mutexes -> Threads \cup {None}]
      /\ depth' \in [Mutexes -> Nat]
  <2>1. \A u \in Threads, m \in Loops, j \in MutexKinds :
          <<u, m, j>> # <<t, req[t].loop, req[t].mtx>> => Holds(u, m, j)' = Holds(u, m, j)
    BY <1>1, <1>2 DEF Holds
  <2>2. Holds(t, req[t].loop, req[t].mtx)' = Holds(t, req[t].loop, req[t].mtx) + 1
    BY <1>1, <1>2 DEF Holds
  <2> QED
    BY <1>1, <1>3, <2>1, <2>2, MutexLocked
<1>5. TypeOK'
  BY <1>1, <1>4 DEF TypeOK, passVars, lifeVars
<1>6. CallInv'
  BY <1>1, <1>2 DEF CallInv, passVars
<1>7. JobInv'
  BY <1>1 DEF JobInv, passVars
<1>8. LifeInv'
  BY <1>1 DEF LifeInv, lifeVars
<1> QED
  BY <1>4, <1>5, <1>6, <1>7, <1>8

\* An API function does its work and returns.
LEMMA ApiReturned ==
  ASSUME IInv, NEW t \in Threads, Complete(t)
  PROVE  IInv'
<1> USE DEF IInv
<1> DEFINE r == req[t]
<1>1. /\ Unlock(r.loop, r.mtx) /\ Effect(t)
      /\ api[t] = "in" /\ api' = [api EXCEPT ![t] = "out"]
      /\ req' = [req EXCEPT ![t] = None]
      /\ UNCHANGED <<pc, passVars, lifeVars>>
  BY DEF Complete
<1>2. /\ api'[t] = "out" /\ req'[t] = None
      /\ \A u \in Threads : u # t => api'[u] = api[u] /\ req'[u] = req[u]
  BY <1>1 DEF TypeOK
<1>3. r.loop \in Loops /\ r.mtx \in MutexKinds /\ (r.mtx = "job" => r.job \in Jobs)
  BY <1>1, RequestOf
<1>4. /\ LockInv'
      /\ owner' \in [Mutexes -> Threads \cup {None}]
      /\ depth' \in [Mutexes -> Nat]
  <2>1. PICK l \in Loops, k \in MutexKinds : l = r.loop /\ k = r.mtx
    BY <1>3
  <2>2. \A u \in Threads, m \in Loops, j \in MutexKinds :
          <<u, m, j>> # <<t, l, k>> => Holds(u, m, j)' = Holds(u, m, j)
    BY <1>1, <1>2, <2>1 DEF Holds
  <2>3. Holds(t, l, k)' = Holds(t, l, k) - 1 /\ Holds(t, l, k) > 0
    BY <1>1, <1>2, <2>1 DEF Holds
  <2> QED
    BY <1>1, <2>1, <2>2, <2>3, MutexUnlocked
<1>5. \A l \in Loops : \/ job_list'[l] = job_list[l]
                       \/ /\ l = r.loop /\ r.job \in Jobs
                          /\ job_list'[l] = Append(job_list[l], r.job)
  BY <1>1, <1>3 DEF Effect, TypeOK
<1>6. TypeOK'
  <2>1. job_list' \in [Loops -> Seq(Jobs)]
    <3>1. CASE r.mtx = "job" /\ job_list' # job_list
      <4>1. /\ job_list' = [job_list EXCEPT ![r.loop] = Append(job_list[r.loop], r.job)]
            /\ Append(job_list[r.loop], r.job) \in Seq(Jobs)
        BY <3>1, <1>1, <1>3, AppendProperties DEF Effect, TypeOK
      <4> QED
        BY <4>1 DEF TypeOK
    <3>2. CASE job_list' = job_list
      BY <3>2 DEF TypeOK
    <3> QED
      BY <3>1, <3>2, <1>1 DEF Effect
  <2> QED
    BY <1>1, <1>4, <2>1 DEF TypeOK, passVars, lifeVars
<1>7. CallInv'
  BY <1>1, <1>2 DEF CallInv, passVars
<1>8. JobInv'
  <2>1. \A l \in Loops : /\ job_list[l] # <<>> => /\ job_list'[l] # <<>>
                                                  /\ Head(job_list'[l]) = Head(job_list[l])
                         /\ Len(job_list[l]) > 1 => Len(job_list'[l]) > 1
    <3>1. ASSUME NEW l \in Loops, NEW j \in Jobs
          PROVE  /\ Append(job_list[l], j) # <<>>
                 /\ job_list[l] # <<>> => Head(Append(job_list[l], j)) = Head(job_list[l])
                 /\ Len(Append(job_list[l], j)) = Len(job_list[l]) + 1
                 /\ Len(job_list[l]) \in Nat
      BY AppendProperties, LenProperties, EmptySeq DEF TypeOK
    <3> QED
      BY <1>5, <3>1
  <2>2. \A l \in Loops : callback[l] \in Jobs => pc[l] = "in_job"
    BY DEF CallInv
  <2> QED
    BY <1>1, <2>1, <2>2 DEF JobInv, passVars
<1>9. LifeInv'
  <2>1. ASSUME NEW l \in Loops, pc[l] = "exited" PROVE job_list'[l] = job_list[l]
    <3>1. thread_abort[l] /\ callback[l] \in {None}
      BY <2>1 DEF LifeInv, CallInv, TypeOK, Callbacks
    <3>2. req[l] = None /\ r # None
      BY <1>1, <3>1 DEF CallInv
    <3>3. r.loop # l
      BY <3>1, <3>2 DEF LifeInv
    <3> QED
      BY <1>5, <3>3
  <2> QED
    BY <1>1, <1>2, <2>1 DEF LifeInv, lifeVars
<1> QED
  BY <1>4, <1>6, <1>7, <1>8, <1>9
-------------------------------------------------------------------------------

\* An application thread calls event_loop_delete, and the call returns.
LEMMA DeleteStarts ==
  ASSUME IInv, NEW a \in Apps, NEW l \in Loops, DeleteBegins(a, l)
  PROVE  IInv'
<1> USE DEF IInv
<1>1. /\ thread_abort' = [thread_abort EXCEPT ![l] = TRUE]
      /\ joining' = [joining EXCEPT ![a] = l]
      /\ \A t \in Threads \ {l} : req[t] # None => req[t].loop # l
      /\ api[a] = "out"
      /\ UNCHANGED <<pc, passVars, job_list, apiVars, mtxVars, freed>>
  BY DEF DeleteBegins
<1>2. TypeOK'
  BY <1>1 DEF TypeOK, passVars, apiVars, mtxVars
<1>3. LockInv'
  <2>1. \A u \in Threads, m \in Loops, j \in MutexKinds : Holds(u, m, j)' = Holds(u, m, j)
    BY <1>1 DEF Holds, apiVars
  <2> QED
    BY <1>1, <2>1, MutexesKept
<1>4. CallInv'
  BY <1>1 DEF CallInv, passVars, apiVars
<1>5. JobInv'
  BY <1>1 DEF JobInv, passVars
<1>6. LifeInv'
  <2>1. /\ thread_abort'[l] /\ joining'[a] = l
        /\ \A m \in Loops : m # l => thread_abort'[m] = thread_abort[m]
        /\ \A b \in Apps : b # a => joining'[b] = joining[b]
    BY <1>1 DEF TypeOK
  <2> QED
    BY <1>1, <2>1 DEF LifeInv, TypeOK, apiVars
<1> QED
  BY <1>2, <1>3, <1>4, <1>5, <1>6

LEMMA DeleteFinishes ==
  ASSUME IInv, NEW a \in Apps, DeleteEnds(a)
  PROVE  IInv'
<1> USE DEF IInv
<1>1. PICK l \in Loops : l = joining[a]
  BY DEF DeleteEnds, TypeOK
<1>2. /\ pc[l] = "exited"
      /\ job_list' = [job_list EXCEPT ![l] = <<>>]
      /\ freed' = [freed EXCEPT ![l] = TRUE]
      /\ joining' = [joining EXCEPT ![a] = None]
      /\ UNCHANGED <<pc, passVars, apiVars, mtxVars, thread_abort>>
  BY <1>1 DEF DeleteEnds
<1>3. job_list[l] = <<>>
  BY <1>2 DEF LifeInv
<1>4. job_list' = job_list
  BY <1>2, <1>3 DEF TypeOK
<1>5. TypeOK'
  BY <1>2, <1>4 DEF TypeOK, passVars, apiVars, mtxVars
<1>6. LockInv'
  <2>1. \A u \in Threads, m \in Loops, j \in MutexKinds : Holds(u, m, j)' = Holds(u, m, j)
    BY <1>2 DEF Holds, apiVars
  <2> QED
    BY <1>2, <2>1, MutexesKept
<1>7. CallInv'
  BY <1>2 DEF CallInv, passVars, apiVars
<1>8. JobInv'
  BY <1>2, <1>4 DEF JobInv, passVars
<1>9. LifeInv'
  BY <1>2, <1>4 DEF LifeInv, TypeOK, apiVars
<1> QED
  BY <1>5, <1>6, <1>7, <1>8, <1>9

-------------------------------------------------------------------------------

\* Every step preserves the invariant.
LEMMA Inductive == IInv /\ [Next]_vars => IInv'
<1> SUFFICES ASSUME IInv, [Next]_vars PROVE IInv'
  OBVIOUS
<1>1. ASSUME NEW l \in Loops, LoopSteps(l) PROVE IInv'
  <2>1. CASE Check(l)
    BY <2>1, LoopMoves
  <2>2. CASE EventReturns(l) \/ JobReturns(l)
    BY <2>2, CallbackReturns
  <2>3. CASE RunJob(l) \/ \E k \in MutexKinds : Dispatch(l, k)
    BY <2>3, CallbackBegins
  <2>4. ASSUME NEW k \in MutexKinds, EndPass(l, k) PROVE IInv'
    BY <2>4, PassEnds
  <2> QED
    BY <1>1, <2>1, <2>2, <2>3, <2>4 DEF LoopSteps
<1>2. ASSUME NEW l \in Loops, LoopWaits(l) PROVE IInv'
  BY <1>2, LoopMoves, PassBegins DEF LoopWaits
<1>3. ASSUME NEW l \in Loops, CallbackCalls(l) PROVE IInv'
  <2>1. callback[l] \in Callbacks /\ calls[l] \in Nat /\ calls[l] > 0
    BY <1>3 DEF CallbackCalls, IInv, TypeOK
  <2>2. PICK r \in MayCall[<<l, callback[l]>>] : Enter(l, r)
    BY <1>3 DEF CallbackCalls
  <2>3. r \in Request /\ l \in Threads /\ l \notin Apps
    BY <2>1, EventLoopAssumption DEF Threads
  <2>4. calls' \in [Loops -> Nat]
    BY <1>3, <2>1 DEF CallbackCalls, IInv, TypeOK
  <2> QED
    BY <1>3, <2>2, <2>3, <2>4, ApiCalled DEF CallbackCalls
<1>4. ASSUME NEW t \in Threads, Acquire(t) \/ Complete(t) PROVE IInv'
  BY <1>4, ApiLocks, ApiReturned
<1>5. ASSUME NEW a \in Apps, AppCallsApi(a) PROVE IInv'
  <2>1. PICK r \in AppCalls : Enter(a, r)
    BY <1>5 DEF AppCallsApi
  <2>2. r \in Request /\ a \in Threads /\ a \notin Loops
    BY EventLoopAssumption DEF Threads
  <2>3. calls' \in [Loops -> Nat]
    BY <1>5 DEF AppCallsApi, IInv, TypeOK, passVars
  <2> QED
    BY <1>5, <2>1, <2>2, <2>3, ApiCalled DEF AppCallsApi, passVars
<1>6. ASSUME NEW a \in Apps, NEW l \in Loops, DeleteBegins(a, l) PROVE IInv'
  BY <1>6, DeleteStarts
<1>7. ASSUME NEW a \in Apps, DeleteEnds(a) PROVE IInv'
  BY <1>7, DeleteFinishes
<1>8. CASE UNCHANGED vars
  <2>1. \A u \in Threads, m \in Loops, j \in MutexKinds : Holds(u, m, j)' = Holds(u, m, j)
    BY <1>8 DEF Holds, vars, apiVars
  <2>2. LockInv'
    BY <1>8, <2>1, MutexesKept DEF IInv, vars
  <2> QED
    BY <1>8, <2>2 DEF IInv, TypeOK, CallInv, JobInv, LifeInv, vars,
                      passVars, apiVars, mtxVars, lifeVars
<1> QED
  BY <1>1, <1>2, <1>3, <1>4, <1>5, <1>6, <1>7, <1>8 DEF Next

THEOREM InvariantHolds == Spec => []IInv
  BY InitIInv, Inductive, PTL DEF Spec

\* Every variable keeps its type.
THEOREM TypesHold == Spec => []TypeOK
  BY InvariantHolds, PTL DEF IInv

\* Every mutex is locked as often as code that has locked it is running, so no
\* two threads are inside sections of one mutex (pthread_mutex_lock and
\* _unlock in event_loop.c are paired on every path).
THEOREM LocksArePaired == Spec => []LockDiscipline
<1>1. IInv => LockDiscipline
  BY DEF IInv, LockInv
<1> QED
  BY <1>1, InvariantHolds, PTL

\* When event_loop_delete has freed a loop nothing of it runs, waits or is held.
THEOREM DeleteIsQuiet == Spec => []QuietAfterDelete
<1>1. IInv => QuietAfterDelete
  <2> SUFFICES ASSUME IInv, NEW l \in Loops, freed[l]
               PROVE  /\ pc[l] = "exited" /\ callback[l] = None /\ job_list[l] = <<>>
                      /\ \A k \in MutexKinds : owner[<<l, k>>] = None
                      /\ \A t \in Threads : req[t] # None => req[t].loop # l
    BY DEF QuietAfterDelete
  <2> USE DEF IInv
  <2>1. pc[l] = "exited" /\ job_list[l] = <<>> /\ thread_abort[l]
    BY DEF LifeInv
  <2>2. callback[l] = None
    BY <2>1 DEF CallInv, TypeOK, Callbacks
  <2>3. \A t \in Threads : req[t] # None => req[t].loop # l
    BY <2>1, <2>2 DEF LifeInv, CallInv
  <2>4. ASSUME NEW k \in MutexKinds, NEW t \in Threads PROVE owner[<<l, k>>] # t
    <3>1. Holds(t, l, k) = 0
      BY <2>1, <2>3, PassOfValues DEF Holds, CallInv, Passes
    <3> QED
      BY <3>1, HolderOwns
  <2>5. \A k \in MutexKinds : owner[<<l, k>>] \in Threads \cup {None}
    BY DEF TypeOK, Mutexes
  <2> QED
    BY <2>1, <2>2, <2>3, <2>4, <2>5
<1> QED
  BY <1>1, InvariantHolds, PTL

\* Nobody touches a job list without its job_mtx.
THEOREM JobListIsGuarded == Spec => JobListGuarded
<1>1. IInv /\ [Next]_vars => [\A l \in Loops : ChangedByHolder(l)]_vars
  <2> SUFFICES ASSUME IInv, Next, NEW l \in Loops, job_list'[l] # job_list[l]
               PROVE  \/ \E t \in Threads : owner[<<l, "job">>] = t /\ Holds(t, l, "job") > 0
                      \/ pc[l] = "drop_jobs" /\ owner[<<l, "job">>] = None
    BY DEF ChangedByHolder
  <2> USE DEF IInv
  <2>1. \/ JobReturns(l) \/ DropJobs(l)
        \/ \E t \in Threads : Complete(t) /\ req[t].loop = l /\ req[t].mtx = "job"
    <3>1. ASSUME NEW m \in Loops,
                 \/ LoopSteps(m) \/ LoopWaits(m) \/ CallbackCalls(m)
                 \/ \E a \in Apps : DeleteBegins(a, m)
          PROVE  JobReturns(l) \/ DropJobs(l)
      BY <3>1 DEF LoopSteps, LoopWaits, CallbackCalls, DeleteBegins, Check, TimerMin,
           EventReturns, RunJob, JobReturns, Dispatch, EndPass, BeginPass, BeginJobs,
           BeginEvents, DropTimers, DropJobs, TypeOK, passVars
    <3>2. ASSUME NEW a \in Apps, AppCallsApi(a) \/ DeleteEnds(a) PROVE FALSE
      BY <3>2 DEF AppCallsApi, DeleteEnds, LifeInv, TypeOK
    <3>3. ASSUME NEW t \in Threads, Acquire(t) PROVE FALSE
      BY <3>3 DEF Acquire
    <3>4. ASSUME NEW t \in Threads, Complete(t)
          PROVE  req[t].loop = l /\ req[t].mtx = "job"
      BY <3>4 DEF Complete, Effect, TypeOK
    <3> QED
      BY <3>1, <3>2, <3>3, <3>4 DEF Next
  <2>2. \A t \in Threads : Holds(t, l, "job") > 0 <=> owner[<<l, "job">>] = t
    BY HolderOwns DEF MutexKinds
  <2>3. CASE JobReturns(l)
    <3>1. pc[l] = "in_job" /\ l \in Threads
      BY <2>3 DEF JobReturns, CallInv, Threads
    <3>2. Holds(l, l, "job") > 0
      BY <3>1 DEF Holds, PassOf
    <3> QED
      BY <2>2, <3>1, <3>2
  <2>4. CASE DropJobs(l)
    <3>1. pc[l] = "drop_jobs" /\ owner[<<l, "job">>] \in {None, l} /\ l \in Threads
      BY <2>4 DEF DropJobs, CanLock, Threads
    <3> QED
      BY <2>2, <3>1
  <2>5. ASSUME NEW t \in Threads, Complete(t), req[t].loop = l, req[t].mtx = "job"
        PROVE  Holds(t, l, "job") > 0
    BY <2>5 DEF Complete, Holds
  <2> QED
    BY <2>1, <2>2, <2>3, <2>4, <2>5
<1> QED
  BY <1>1, InvariantHolds, PTL DEF Spec, JobListGuarded

-------------------------------------------------------------------------------

\* A job list appended to, seen from the call that is being made.
LEMMA TailOfAppend ==
  ASSUME NEW S, NEW s \in Seq(S), NEW e \in S, s # <<>>
  PROVE  Tail(Append(s, e)) = Append(Tail(s), e)
BY LenProperties, EmptySeq

\* Every step of the event loop is a step of the queue, or none.
LEMMA CallsStep ==
  ASSUME IInv, [Next]_vars
  PROVE  [Calls!Next]_(Calls!vars)
<1> USE DEF IInv
<1>1. None \notin Jobs /\ "fd" \notin Jobs /\ "timer" \notin Jobs
  BY EventLoopAssumption DEF Callbacks
<1>2. ASSUME NEW l \in Loops,
             /\ UNCHANGED job_list
             /\ \/ UNCHANGED callback
                \/ \E c : c \notin Jobs /\ callback[l] \notin Jobs /\ callback' = [callback EXCEPT ![l] = c]
             /\ \/ UNCHANGED pc
                \/ \E q : q # "exited" /\ pc[l] # "exited" /\ pc' = [pc EXCEPT ![l] = q]
      PROVE  UNCHANGED Calls!vars
  <2>1. \A m \in Loops : /\ (callback'[m] \in Jobs) <=> (callback[m] \in Jobs)
                         /\ callback[m] \in Jobs => callback'[m] = callback[m]
                         /\ (pc'[m] # "exited") <=> (pc[m] # "exited")
    BY <1>2 DEF TypeOK
  <2>2. UNCHANGED <<Pending, Executing, Open>>
    BY <1>2, <2>1 DEF Pending, Executing, Open
  <2> QED
    BY <2>2 DEF Calls!vars
<1>3. ASSUME NEW l \in Loops, RunJob(l) PROVE Calls!Start(l)
  <2>1. /\ callback[l] = None /\ pc' = pc /\ job_list' = job_list
        /\ callback' = [callback EXCEPT ![l] = Head(job_list[l])]
        /\ job_list[l] \in Seq(Jobs) /\ job_list[l] # <<>>
    BY <1>3 DEF RunJob, TypeOK, JobInv
  <2>2. Head(job_list[l]) \in Jobs
    BY <2>1, TakeHead
  <2>3. /\ callback'[l] = Head(job_list[l])
        /\ \A m \in Loops : m # l => callback'[m] = callback[m]
    BY <2>1 DEF TypeOK
  <2>4. Executing[l] = None /\ Pending[l] = job_list[l]
    BY <2>1, <1>1 DEF Executing, Pending
  <2>5. /\ Executing' = [Executing EXCEPT ![l] = Head(job_list[l])]
        /\ Pending' = [Pending EXCEPT ![l] = Tail(job_list[l])]
    BY <2>1, <2>2, <2>3 DEF Executing, Pending
  <2>6. Open' = Open
    BY <2>1 DEF Open
  <2> QED
    BY <2>1, <2>4, <2>5, <2>6 DEF Calls!Start
<1>4. ASSUME NEW l \in Loops, JobReturns(l) PROVE Calls!Finish(l)
  <2>1. /\ callback[l] \in Jobs /\ pc' = pc
        /\ callback' = [callback EXCEPT ![l] = None]
        /\ job_list' = [job_list EXCEPT ![l] = Tail(job_list[l])]
    BY <1>4 DEF JobReturns
  <2>2. /\ callback'[l] = None /\ job_list'[l] = Tail(job_list[l])
        /\ \A m \in Loops : m # l => callback'[m] = callback[m] /\ job_list'[m] = job_list[m]
    BY <2>1 DEF TypeOK
  <2>3. Executing[l] # None /\ Executing' = [Executing EXCEPT ![l] = None]
    BY <2>1, <2>2, <1>1 DEF Executing
  <2>4. Pending' = Pending
    BY <2>1, <2>2, <1>1 DEF Pending
  <2>5. Open' = Open
    BY <2>1 DEF Open
  <2> QED
    BY <2>3, <2>4, <2>5 DEF Calls!Finish
<1>5. ASSUME NEW l \in Loops, DropJobs(l) PROVE Calls!Close(l)
  <2>1. /\ pc[l] = "drop_jobs" /\ pc' = [pc EXCEPT ![l] = "exited"]
        /\ callback' = callback /\ job_list' = [job_list EXCEPT ![l] = <<>>]
    BY <1>5 DEF DropJobs, passVars
  <2>2. callback[l] \notin Jobs
    BY <2>1 DEF CallInv
  <2>3. /\ pc'[l] = "exited" /\ job_list'[l] = <<>>
        /\ \A m \in Loops : m # l => pc'[m] = pc[m] /\ job_list'[m] = job_list[m]
    BY <2>1 DEF TypeOK
  <2>4. Executing[l] = None /\ Executing' = Executing
    BY <2>1, <2>2 DEF Executing
  <2>5. Pending' = [Pending EXCEPT ![l] = <<>>]
    <3>1. callback' = callback /\ callback[l] \notin Jobs
      BY <2>1, <2>2
    <3> QED
      BY <2>3, <3>1 DEF Pending
  <2>6. Open[l] /\ Open' = [Open EXCEPT ![l] = FALSE]
    BY <2>1, <2>3 DEF Open
  <2> QED
    BY <2>4, <2>5, <2>6 DEF Calls!Close
<1>6. ASSUME NEW t \in Threads, Complete(t)
      PROVE  UNCHANGED Calls!vars \/ \E l \in Loops, j \in Jobs : Calls!Post(l, j)
  <2>1. UNCHANGED <<pc, callback>> /\ api[t] = "in" /\ Effect(t)
    BY <1>6 DEF Complete, passVars
  <2>2. CASE job_list' = job_list
    BY <2>1, <2>2 DEF Calls!vars, Pending, Executing, Open
  <2>3. CASE req[t].mtx = "job" /\ job_list' # job_list
    <3>1. PICK l \in Loops, j \in Jobs : l = req[t].loop /\ j = req[t].job
      BY <2>1, <2>3, RequestOf
    <3>2. job_list' = [job_list EXCEPT ![l] = Append(job_list[l], j)]
      BY <2>1, <2>3, <3>1 DEF Effect
    <3>3. pc[l] # "exited"
      <4>1. req[t] # None
        BY <2>1 DEF CallInv
      <4>2. pc[l] = "exited" => callback[l] \in {None} /\ thread_abort[l]
        BY DEF CallInv, LifeInv, TypeOK, Callbacks
      <4> QED
        BY <3>1, <4>1, <4>2 DEF CallInv, LifeInv
    <3>4. callback[l] \in Jobs => job_list[l] # <<>>
      BY DEF CallInv, JobInv
    <3>5. /\ job_list'[l] = Append(job_list[l], j) /\ job_list[l] \in Seq(Jobs)
          /\ \A m \in Loops : m # l => job_list'[m] = job_list[m]
      BY <3>2 DEF TypeOK
    <3>6. callback[l] \in Jobs => Tail(job_list'[l]) = Append(Tail(job_list[l]), j)
      BY <3>4, <3>5, TailOfAppend
    <3>7. Pending' = [Pending EXCEPT ![l] = Append(Pending[l], j)]
      BY <2>1, <3>5, <3>6 DEF Pending
    <3>8. Open[l] /\ UNCHANGED <<Executing, Open>>
      BY <2>1, <3>3 DEF Executing, Open
    <3> QED
      BY <3>7, <3>8 DEF Calls!Post
  <2> QED
    BY <2>1, <2>2, <2>3 DEF Effect
<1>7. ASSUME NEW l \in Loops, LoopSteps(l)
      PROVE  UNCHANGED Calls!vars \/ Calls!Start(l) \/ Calls!Finish(l)
  <2>1. CASE Check(l)
    BY <2>1, <1>2 DEF Check, passVars
  <2>2. CASE EventReturns(l)
    BY <2>2, <1>1, <1>2 DEF EventReturns
  <2>3. ASSUME NEW k \in MutexKinds, Dispatch(l, k) PROVE UNCHANGED Calls!vars
    BY <2>3, <1>1, <1>2 DEF Dispatch
  <2>4. ASSUME NEW k \in MutexKinds, EndPass(l, k) PROVE UNCHANGED Calls!vars
    <3>1. pc[l] # "exited" /\ AfterPass(k) # "exited"
      BY <2>4, PassOfValues DEF EndPass, Passes
    <3> QED
      BY <2>4, <3>1, <1>2 DEF EndPass, passVars
  <2> QED
    BY <1>3, <1>4, <1>7, <2>1, <2>2, <2>3, <2>4 DEF LoopSteps
<1>8. ASSUME NEW l \in Loops, LoopWaits(l)
      PROVE  UNCHANGED Calls!vars \/ Calls!Close(l)
  <2>1. CASE TimerMin(l) \/ DropTimers(l)
    BY <2>1, <1>2 DEF TimerMin, DropTimers, passVars
  <2>2. CASE BeginPass(l)
    <3>1. PICK q : q # "exited" /\ pc[l] # "exited" /\ pc' = [pc EXCEPT ![l] = q]
      BY <2>2, PassOfValues DEF BeginPass, BeginJobs, BeginEvents, Passes
    <3>2. UNCHANGED <<callback, job_list>>
      BY <2>2 DEF BeginPass, BeginJobs, BeginEvents
    <3> QED
      BY <3>1, <3>2, <1>2
  <2> QED
    BY <1>5, <1>8, <2>1, <2>2 DEF LoopWaits
<1>9. ASSUME UNCHANGED <<pc, callback, job_list>> PROVE UNCHANGED Calls!vars
  BY <1>9 DEF Calls!vars, Pending, Executing, Open
<1>10. ASSUME NEW a \in Apps, DeleteEnds(a) PROVE UNCHANGED Calls!vars
  <2>1. UNCHANGED <<pc, callback, job_list>>
    BY <1>10 DEF DeleteEnds, LifeInv, TypeOK, passVars
  <2> QED
    BY <2>1, <1>9
<1>11. CASE UNCHANGED vars
  BY <1>11, <1>9 DEF vars, passVars
<1>12. CASE Next
  <2>1. ASSUME NEW l \in Loops, CallbackCalls(l) PROVE UNCHANGED Calls!vars
    BY <2>1, <1>9 DEF CallbackCalls
  <2>2. ASSUME NEW t \in Threads, Acquire(t) PROVE UNCHANGED Calls!vars
    BY <2>2, <1>9 DEF Acquire, passVars
  <2>3. ASSUME NEW a \in Apps, AppCallsApi(a) PROVE UNCHANGED Calls!vars
    BY <2>3, <1>9 DEF AppCallsApi, passVars
  <2>4. ASSUME NEW a \in Apps, NEW l \in Loops, DeleteBegins(a, l) PROVE UNCHANGED Calls!vars
    BY <2>4, <1>9 DEF DeleteBegins, passVars
  <2> QED
    BY <1>12, <2>1, <2>2, <2>3, <2>4, <1>6, <1>7, <1>8, <1>10 DEF Next, Calls!Next
<1> QED
  BY <1>11, <1>12

\* The event loop implements the queue of asynchronous calls: jobs run in the
\* order event_loop_add_job listed them, once, one at a time, and are dropped
\* only when the stopped thread drains its list.
THEOREM AsyncCallsImplemented == Spec => ImplementsAsyncCalls
<1>1. Init => Calls!Init
  <2> SUFFICES ASSUME Init PROVE Calls!Init
    OBVIOUS
  <2>1. \A l \in Loops : callback[l] \notin Jobs /\ job_list[l] = <<>> /\ pc[l] = "check"
    BY EventLoopAssumption DEF Init, Callbacks
  <2> QED
    BY <2>1 DEF Calls!Init, Pending, Executing, Open
<1>2. IInv /\ [Next]_vars => [Calls!Next]_(Calls!vars)
  BY CallsStep
<1> QED
  BY <1>1, <1>2, InvariantHolds, PTL DEF Spec, ImplementsAsyncCalls, Calls!Spec

-------------------------------------------------------------------------------

\* The callback that loop l runs can call the API of loop m.
CallsLoop(l, m) ==
  /\ callback[l] \in Callbacks
  /\ \E r \in MayCall[<<l, callback[l]>>] : r.loop = m

\* A thread that waits for another one waits for the thread of a loop, unless
\* that other thread is in the API and so is not waiting itself; and a loop
\* that waits is in a callback that called another loop.
LEMMA WhoWaits ==
  ASSUME IInv, NEW t \in Threads, NEW u \in Threads, WaitsFor(t, u),
         NEW v \in Threads, WaitsFor(u, v)
  PROVE  /\ u \in Loops
         /\ t \in Loops => CallsLoop(t, u)
<1> USE DEF IInv
<1>1. CASE t \in Apps /\ joining[t] = u
  BY <1>1, EventLoopAssumption DEF TypeOK, Threads
<1>2. ASSUME NEW l \in Loops, NEW k \in MutexKinds, Needs(t, l, k), owner[<<l, k>>] = u, t # u
      PROVE  /\ u \in Loops
             /\ t \in Loops => CallsLoop(t, u)
  <2>1. api[u] # "in"
    <3>1. ASSUME api[u] = "in", NEW m \in Loops, NEW j \in MutexKinds, Needs(u, m, j)
          PROVE  FALSE
      <4>1. u = m /\ pc[m] \notin Passes
        BY <3>1 DEF Needs, Passes, MutexKinds
      <4>2. callback[m] \in {None}
        BY <4>1 DEF CallInv, TypeOK, Callbacks, Passes
      <4> QED
        BY <3>1, <4>1, <4>2 DEF CallInv
    <3>2. u \in Apps /\ joining[u] = v => api[u] = "out"
      BY EventLoopAssumption DEF LifeInv
    <3> QED
      BY <3>1, <3>2 DEF WaitsFor
  <2>2. u = l
    BY <2>1, <1>2, HolderOwns DEF Holds
  <2>3. ASSUME t \in Loops PROVE CallsLoop(t, u)
    <3>1. api[t] = "wait" /\ req[t].loop = l
      BY <1>2, <2>2 DEF Needs
    <3>2. req[t] \in MayCall[<<t, callback[t]>>]
      BY <3>1, <2>3 DEF CallInv
    <3>3. callback[t] \in Callbacks
      BY <3>1, <2>3 DEF CallInv, TypeOK
    <3> QED
      BY <2>2, <3>1, <3>2, <3>3 DEF CallsLoop
  <2> QED
    BY <2>2, <2>3
<1> QED
  BY <1>1, <1>2, EventLoopAssumption DEF WaitsFor

\* If callbacks call only the API of their own loop, or of a loop that is below
\* theirs in some well-founded order of the loops, then no deadlock is possible
\* between the passes, the API functions and event_loop_delete, although every
\* pass keeps its mutex locked while it runs callbacks.
THEOREM NoDeadlock ==
  ASSUME NEW Below, IsWellFoundedOn(Below, Loops),
         \A l \in Loops, c \in Callbacks : \A r \in MayCall[<<l, c>>] :
            r.loop = l \/ <<r.loop, l>> \in Below
  PROVE  Spec => []NoCircularWait
<1>1. IInv => NoCircularWait
  <2> SUFFICES ASSUME IInv,
                      NEW S \in SUBSET Threads, S # {},
                      \A t \in S : \E u \in S : WaitsFor(t, u)
               PROVE  FALSE
    BY DEF NoCircularWait
  <2>1. ASSUME NEW t \in S
        PROVE  \E u \in S \cap Loops :
                 /\ WaitsFor(t, u)
                 /\ t \in Loops => CallsLoop(t, u)
    <3>1. PICK u \in S : WaitsFor(t, u)
      OBVIOUS
    <3>2. PICK v \in S : WaitsFor(u, v)
      OBVIOUS
    <3> QED
      BY <3>1, <3>2, WhoWaits
  <2>2. S \cap Loops # {}
    BY <2>1
  <2>3. PICK l \in S \cap Loops : \A m \in S \cap Loops : <<m, l>> \notin Below
    BY <2>2, WFMin
  <2>4. PICK m \in S \cap Loops : WaitsFor(l, m) /\ CallsLoop(l, m)
    BY <2>1
  <2>5. m # l
    BY <2>4 DEF WaitsFor
  <2> QED
    BY <2>3, <2>4, <2>5 DEF CallsLoop
<1> QED
  BY <1>1, InvariantHolds, PTL
=============================================================================
