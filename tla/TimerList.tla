------------------------------- MODULE TimerList -------------------------------
(***************************************************************************)
(* The timers of one event loop (src/src/event_loop.c): a list sorted by   *)
(* deadline, the pass of the loop's thread that fires the timers that are  *)
(* due, and callbacks and application threads that add and remove timers.  *)
(*                                                                         *)
(* A deadline is kept relative to the clock: due is the time left until    *)
(* timer->ts, and is negative when the timer is late.  The pass holds      *)
(* timer_mtx from BeginPass to PassEnds, callbacks included.               *)
(***************************************************************************)
EXTENDS Integers, FiniteSets, SequencesExt

CONSTANTS
  Apps,          \* application threads
  None,
  Intervals,     \* interval_ms of the timers
  FdMin,         \* fd_min_interval: the longest time the thread polls
  RemovesSaved,  \* whether callbacks remove the timer that fires or the one after it
  MaxTimers,     \* bound: timers added
  MaxSlow        \* bound: time that callbacks and API functions take in all

Types == {"one_shot", "forever"}
Ids == 1..MaxTimers

\* struct event_timer, without its callback, when it is listed and before
Fields(ids) == [id : ids, interval : Intervals, type : Types, due : Int]
Timer == Fields(Ids)
NewTimers == Fields({-1})

\* fd_min_interval is 10 in the code.
ASSUME TimerListAssumption ==
  /\ IsFiniteSet(Apps)
  /\ Intervals \subseteq Nat /\ FdMin \in Nat \ {0}
  /\ RemovesSaved \in BOOLEAN
  /\ MaxTimers \in Nat /\ MaxSlow \in Nat
  /\ None \notin Ids \cup NewTimers

VARIABLES
  timer_list,  \* the timers listed, the earliest deadline first
  tid,         \* the last id given
  pc,          \* where the loop's thread is
  wait,        \* time that the poll may still take
  node,        \* the id of the timer the pass looks at, or None
  next,        \* the id of the timer after it, saved before the callback
  since,       \* time since the pass read the clock
  adding,      \* per application thread: a timer whose ts is set but which is not listed
  fresh,       \* history: the timers listed since the pass began
  gone,        \* history: one-shot timers that fired and timers that were removed
  forever,     \* history: the forever timers that were listed, less those removed
               \* and those there was no memory to list again
  slow         \* history: time that passed outside the poll

listVars == <<timer_list, tid>>
passVars == <<pc, wait, node, next, since>>
history  == <<fresh, gone, forever, slow>>
vars == <<listVars, passVars, adding, history>>

Init ==
  /\ timer_list = <<>> /\ tid = 0
  /\ pc = "min" /\ wait = 0
  /\ node = None /\ next = None /\ since = 0
  /\ adding = [a \in Apps |-> None]
  /\ fresh = {} /\ gone = {} /\ forever = {} /\ slow = 0

\* The thread holds timer_mtx.
InPass == pc \in {"pass", "callback"}

Listed(id) == \E k \in DOMAIN timer_list : timer_list[k].id = id
Position(id) == CHOOSE k \in DOMAIN timer_list : timer_list[k].id = id
After(k) == IF k < Len(timer_list) THEN timer_list[k + 1].id ELSE None
Head_ == After(0)

\* Mutant of Insert: new timers are appended.
InsertAtTail(s, t) == Append(s, t)

\* _timer_add: before the first timer that is not earlier, or at the tail.
Insert(s, t) ==
  LET k == SelectInSeq(s, LAMBDA u : t.due <= u.due)
  IN  IF k = 0 THEN Append(s, t) ELSE InsertAt(s, k, t)

\* The bound on the timers: those listed so far and those being added.
MoreTimers == tid + Cardinality({a \in Apps : adding[a] # None}) < MaxTimers

\* Mutant of Add: the timer is listed with the id it came with.
AddWithoutId(t) ==
  /\ tid' = tid + 1
  /\ timer_list' = Insert(timer_list, t)
  /\ fresh' = fresh \cup {tid + 1}
  /\ forever' = IF t.type = "forever" THEN forever \cup {tid + 1} ELSE forever
  /\ UNCHANGED <<gone, slow>>

\* A new timer gets the next id and is listed, unless list_append or
\* list_append_before has no memory for its node: the id is given all the same.
Add(t) ==
  /\ tid' = tid + 1
  /\ \/ /\ timer_list' = Insert(timer_list, [t EXCEPT !.id = tid + 1])
        /\ fresh' = fresh \cup {tid + 1}
        /\ forever' = IF t.type = "forever" THEN forever \cup {tid + 1} ELSE forever
     \/ UNCHANGED <<timer_list, fresh, forever>>
  /\ UNCHANGED <<gone, slow>>

\* event_loop_add_timer sets ts from the clock before _timer_add locks timer_mtx.
NewTimer(i, ty) == [id |-> -1, interval |-> i, type |-> ty, due |-> i]

\* _timer_remove, which finds the timer.
RemoveTimer(id) ==
  /\ Listed(id)
  /\ timer_list' = RemoveAt(timer_list, Position(id))
  /\ gone' = gone \cup {id}
  /\ forever' = forever \ {id}
  /\ UNCHANGED <<tid, fresh, slow>>

\* _timer_compare(&now, &timer->ts) >= 0
Due(id) == timer_list[Position(id)].due <= 0

-------------------------------------------------------------------------------
(* The thread of the loop. *)

\* A poll takes a tick even when it need not wait.
Poll(n) ==
  /\ wait' = IF n = 0 THEN 1 ELSE n
  /\ pc' = "poll"
  /\ UNCHANGED <<listVars, node, next, since, adding, history>>

\* Mutant of TimerMin: the poll takes the interval of the first timer.
TimerMinUnbounded ==
  /\ pc = "min"
  /\ Poll(IF timer_list = <<>> THEN FdMin ELSE Head(timer_list).interval)

\* _timer_min: the thread polls for the interval of the first timer, though not
\* longer than fd_min_interval.
TimerMin ==
  /\ pc = "min"
  /\ Poll(IF timer_list # <<>> /\ Head(timer_list).interval <= FdMin
          THEN Head(timer_list).interval ELSE FdMin)

\* The poll ends, by an event or because its time is over, and _timer_proc locks.
BeginPass ==
  /\ pc = "poll"
  /\ pc' = "pass"
  /\ node' = Head_
  /\ wait' = 0
  /\ fresh' = {}
  /\ UNCHANGED <<listVars, next, since, adding, gone, forever, slow>>

\* The timer is due: next is saved and on_timer called.
Fire ==
  /\ pc = "pass" /\ node # None /\ Listed(node)
  /\ Due(node)
  /\ next' = After(Position(node))
  /\ pc' = "callback"
  /\ UNCHANGED <<listVars, wait, node, since, adding, history>>

CallbackAdds(i, ty) ==
  /\ pc = "callback" /\ MoreTimers
  /\ Add(NewTimer(i, ty))
  /\ UNCHANGED <<passVars, adding>>

\* event_loop_remove_timer takes any id. A callback that removes the timer that
\* fires, or the one after it, frees a node that the pass goes on with; nothing
\* is modelled of the pass after that.
CallbackRemoves(id) ==
  /\ pc = "callback" /\ Listed(node)
  /\ RemovesSaved \/ id \notin {node, next}
  /\ RemoveTimer(id)
  /\ UNCHANGED <<passVars, adding>>

\* Mutant of Returns: a forever timer that fired is not listed again.
ReturnsWithoutRearming ==
  /\ pc = "callback" /\ Listed(node)
  /\ timer_list' = RemoveAt(timer_list, Position(node))
  /\ gone' = IF timer_list[Position(node)].type = "one_shot" THEN gone \cup {node} ELSE gone
  /\ node' = next /\ next' = None /\ since' = 0
  /\ pc' = "pass"
  /\ UNCHANGED <<tid, wait, adding, fresh, forever, slow>>

\* Mutant of Returns: the pass goes on with the head of the list.
ReturnsTakesHead ==
  /\ pc = "callback" /\ Listed(node)
  /\ LET t == timer_list[Position(node)]
         rest == RemoveAt(timer_list, Position(node))
     IN  \/ /\ t.type = "one_shot"
            /\ timer_list' = rest
            /\ gone' = gone \cup {node}
            /\ UNCHANGED <<fresh, forever>>
         \/ /\ t.type = "forever"
            /\ timer_list' = Insert(rest, [t EXCEPT !.due = t.interval - since])
            /\ fresh' = fresh \cup {node}
            /\ UNCHANGED <<gone, forever>>
  /\ node' = (IF timer_list' = <<>> THEN None ELSE Head(timer_list').id)
  /\ next' = None /\ since' = 0 /\ pc' = "pass"
  /\ UNCHANGED <<tid, wait, adding, slow>>

\* on_timer returned: the node is removed, and a forever timer is listed again,
\* one interval after the time that was read before the callback, unless _timer_add
\* has no memory for it or for its node.
Returns ==
  /\ pc = "callback" /\ Listed(node)
  /\ LET t == timer_list[Position(node)]
         rest == RemoveAt(timer_list, Position(node))
     IN  \/ /\ t.type = "one_shot"
            /\ timer_list' = rest
            /\ gone' = gone \cup {node}
            /\ UNCHANGED <<fresh, forever>>
         \/ /\ t.type = "forever"
            /\ timer_list' = Insert(rest, [t EXCEPT !.due = t.interval - since])
            /\ fresh' = fresh \cup {node}
            /\ UNCHANGED <<gone, forever>>
         \/ /\ t.type = "forever"
            /\ timer_list' = rest
            /\ forever' = forever \ {node}
            /\ UNCHANGED <<gone, fresh>>
  /\ node' = next /\ next' = None /\ since' = 0
  /\ pc' = "pass"
  /\ UNCHANGED <<tid, wait, adding, slow>>

\* No timer is left or the next one is not due: _timer_proc unlocks.
PassEnds ==
  /\ pc = "pass"
  /\ \/ node = None
     \/ Listed(node) /\ ~Due(node)
  /\ pc' = "min" /\ node' = None
  /\ UNCHANGED <<listVars, wait, next, since, adding, history>>

\* The loop is being deleted: _timer_proc(eloop, 1) frees every timer.
Stop ==
  /\ pc = "min"
  /\ timer_list' = <<>> /\ pc' = "stopped"
  /\ gone' = 1..tid /\ forever' = {}
  /\ UNCHANGED <<tid, wait, node, next, since, adding, fresh, slow>>

-------------------------------------------------------------------------------
(* Application threads. *)

AppAsks(a, i, ty) ==
  /\ adding[a] = None /\ pc # "stopped" /\ MoreTimers
  /\ adding' = [adding EXCEPT ![a] = NewTimer(i, ty)]
  /\ UNCHANGED <<listVars, passVars, history>>

AppAdds(a) ==
  /\ adding[a] # None /\ ~InPass /\ pc # "stopped"
  /\ Add(adding[a])
  /\ adding' = [adding EXCEPT ![a] = None]
  /\ UNCHANGED passVars

\* calloc fails in _timer_add: the caller gets -1 and there is no timer.
AppGivesUp(a) ==
  /\ adding[a] # None /\ pc # "stopped"
  /\ adding' = [adding EXCEPT ![a] = None]
  /\ UNCHANGED <<listVars, passVars, history>>

\* Mutant of AppRemoves: the list is searched without locking timer_mtx.
AppRemovesUnlocked(id) ==
  /\ pc # "stopped"
  /\ RemoveTimer(id)
  /\ UNCHANGED <<passVars, adding>>

AppRemoves(id) ==
  /\ ~InPass /\ pc # "stopped"
  /\ RemoveTimer(id)
  /\ UNCHANGED <<passVars, adding>>

-------------------------------------------------------------------------------
\* While the thread polls and nobody is adding a timer, time passes up to the
\* end of the poll; at other times because code is slow.
Polling == pc = "poll" /\ wait > 0 /\ \A a \in Apps : adding[a] = None
TimePasses == IF Polling THEN UNCHANGED slow ELSE slow < MaxSlow /\ slow' = slow + 1

Later(t) == [t EXCEPT !.due = @ - 1]

Tick ==
  /\ pc # "stopped" /\ TimePasses
  /\ timer_list' = [k \in DOMAIN timer_list |-> Later(timer_list[k])]
  /\ adding' = [a \in Apps |-> IF adding[a] = None THEN None ELSE Later(adding[a])]
  /\ wait' = IF pc = "poll" /\ wait > 0 THEN wait - 1 ELSE wait
  /\ since' = IF pc = "callback" THEN since + 1 ELSE 0
  /\ UNCHANGED <<tid, pc, node, next, fresh, gone, forever>>

Thread == TimerMin \/ BeginPass \/ Fire \/ Returns \/ PassEnds

Next ==
  \/ Thread \/ Stop \/ Tick
  \/ \E i \in Intervals, ty \in Types :
       CallbackAdds(i, ty) \/ \E a \in Apps : AppAsks(a, i, ty)
  \/ \E a \in Apps : AppAdds(a) \/ AppGivesUp(a)
  \/ \E id \in Ids : CallbackRemoves(id) \/ AppRemoves(id)

Spec == Init /\ [][Next]_vars

\* The thread runs on, callbacks return, an application thread gets timer_mtx
\* when it is free again and again, and time does not stand still.
Fairness ==
  /\ WF_vars(Thread) /\ SF_vars(Tick)
  /\ \A a \in Apps : SF_vars(AppAdds(a))
FairSpec == Spec /\ Fairness

-------------------------------------------------------------------------------
(* Properties. *)

TypeOK ==
  /\ timer_list \in Seq(Timer) /\ tid \in 0..MaxTimers
  /\ pc \in {"min", "poll", "pass", "callback", "stopped"}
  /\ wait \in Nat /\ since \in Nat
  /\ node \in Ids \cup {None} /\ next \in Ids \cup {None}
  /\ adding \in [Apps -> NewTimers \cup {None}]
  /\ fresh \subseteq Ids /\ gone \subseteq Ids /\ forever \subseteq Ids
  /\ slow \in 0..MaxSlow

\* The list is sorted by deadline and lists no timer twice.
Sorted ==
  \A j, k \in DOMAIN timer_list :
    j < k => /\ timer_list[j].due <= timer_list[k].due
             /\ timer_list[j].id # timer_list[k].id

\* A timer that was removed, or that fired as a one-shot timer, is not listed
\* any more and is not the one whose callback runs.
GoneStaysGone ==
  \A id \in gone : ~Listed(id) /\ ~(pc = "callback" /\ node = id)

\* A forever timer that was listed is found by event_loop_remove_timer whenever
\* timer_mtx is free, until it is removed or there is no memory to list it again:
\* it never gets lost otherwise between firing and being listed again.  (One whose
\* node could not be allocated was never listed, although its adder has an id.)
ForeverStaysListed == ~InPass => \A id \in forever : Listed(id)

\* The nodes that the pass has saved, in node and next, are still in the list
\* when it uses them, whatever application threads remove and callbacks add, as
\* long as no callback removes one of the two itself (~RemovesSaved).
SavedNodesListed ==
  /\ InPass /\ node # None => Listed(node)
  /\ pc = "callback" /\ next # None => Listed(next)

\* The pass fires timers in the order of their deadlines and leaves none that
\* is due: a timer with an earlier deadline than the one that fires, and a
\* timer that is due when the pass ends, was listed after the pass began.
NothingDueIsSkipped ==
  [][\A k \in DOMAIN timer_list :
       /\ Fire /\ timer_list[k].due < timer_list[Position(node)].due
            => timer_list[k].id \in fresh
       /\ PassEnds /\ timer_list[k].due <= 0
            => timer_list[k].id \in fresh]_vars

\* A timer is late by the longest poll and by the time that code has taken, never
\* more, although nothing wakes the thread up when a timer is added.
Punctual == \A k \in DOMAIN timer_list : timer_list[k].due >= -(FdMin + slow)

\* A timer that is listed fires, or it is removed.
TimersFire == \A id \in Ids : Listed(id) ~> (pc = "callback" /\ node = id) \/ ~Listed(id)

\* A pass over the timers ends, so the loop goes on to its channels and jobs,
\* when callbacks do not keep taking time.
PassesEnd == InPass ~> ~InPass
=============================================================================
