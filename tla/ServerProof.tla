------------------------------ MODULE ServerProof ------------------------------
(***************************************************************************)
(* Theorems about LoopPool and Server, for all numbers of loops, threads   *)
(* and clients.                                                            *)
(***************************************************************************)
EXTENDS Server, TLAPS

Places == {"out", "read", "advance", "wrap", "unlock"}

PoolTypeOK ==
  /\ pool \in {"none", "creating", "open", "freed"}
  /\ running \subseteq Loops
  /\ pos \in Nat
  /\ at \in [Users -> Places]
  /\ got \in [Users -> Loops \cup {None}]
  /\ turns \in [Loops -> Nat]

\* A thread inside event_loop_pool_next is alone there, and the pool is open.
OneInside ==
  /\ \A u \in Users : at[u] # "out" => mtx = u /\ pool = "open"
  /\ mtx = None => \A u \in Users : at[u] = "out"

AllRun == pool = "open" => running = Loops

\* pos leaves the loops only between the steps that advance it and wrap it.
PosInRange ==
  /\ pos <= N
  /\ (\A u \in Users : at[u] # "wrap") => pos < N
  /\ \A u \in Users : at[u] = "wrap" => pos > 0

\* The loops before t were handed out a time more than the others.
TurnsUpTo(t) == \E n \in Nat : \A l \in Loops : turns[l] = IF l < t THEN n + 1 ELSE n

\* The loop at pos was counted before pos was advanced.
TurnsCounted ==
  /\ (\A u \in Users : at[u] # "advance") => TurnsUpTo(pos)
  /\ \A u \in Users : at[u] = "advance" => TurnsUpTo(pos + 1)

GotLoop == \A u \in Users : at[u] \notin {"out", "read"} => got[u] \in Loops

PoolInv == PoolTypeOK /\ OneInside /\ AllRun /\ PosInRange /\ TurnsCounted /\ GotLoop

LEMMA PoolSize == N \in Nat /\ N > 0
BY LoopPoolAssumption DEF N

LEMMA PoolInvInit == PoolInit => PoolInv
<1> SUFFICES ASSUME PoolInit PROVE PoolInv
  OBVIOUS
<1>1. PoolTypeOK
  BY DEF PoolInit, PoolTypeOK, Places
<1>2. OneInside /\ AllRun /\ GotLoop
  BY DEF PoolInit, OneInside, AllRun, GotLoop
<1>3. PosInRange
  BY PoolSize DEF PoolInit, PosInRange
<1>4. TurnsCounted
  <2>1. \A l \in Loops : turns[l] = IF l < pos THEN 0 + 1 ELSE 0
    BY PoolSize DEF PoolInit, Loops
  <2>2. TurnsUpTo(pos)
    BY <2>1 DEF TurnsUpTo
  <2> QED
    BY <2>2 DEF PoolInit, TurnsCounted
<1> QED
  BY <1>1, <1>2, <1>3, <1>4 DEF PoolInv

\* Steps that leave event_loop_pool_next alone.
LEMMA NextUntouched ==
  ASSUME PoolInv, UNCHANGED nextVars
  PROVE  PosInRange' /\ TurnsCounted' /\ GotLoop'
<1>1. TurnsUpTo(pos)' <=> TurnsUpTo(pos)
  BY DEF nextVars, TurnsUpTo
<1>2. TurnsUpTo(pos + 1)' <=> TurnsUpTo(pos + 1)
  BY DEF nextVars, TurnsUpTo
<1>3. PosInRange' /\ GotLoop'
  BY DEF PoolInv, nextVars, PosInRange, GotLoop
<1>4. TurnsCounted'
  BY <1>1, <1>2 DEF PoolInv, nextVars, TurnsCounted
<1> QED
  BY <1>3, <1>4

LEMMA BeginPoolKeeps == PoolInv /\ BeginPool => PoolInv'
<1> SUFFICES ASSUME PoolInv, BeginPool PROVE PoolInv'
  OBVIOUS
<1>1. PosInRange' /\ TurnsCounted' /\ GotLoop'
  BY NextUntouched DEF BeginPool
<1>2. PoolTypeOK' /\ OneInside' /\ AllRun'
  BY DEF PoolInv, BeginPool, nextVars, PoolTypeOK, OneInside, AllRun
<1> QED
  BY <1>1, <1>2 DEF PoolInv

LEMMA CreateLoopKeeps == ASSUME PoolInv, NEW l \in Loops, CreateLoop(l) PROVE PoolInv'
<1>1. PosInRange' /\ TurnsCounted' /\ GotLoop'
  BY NextUntouched DEF CreateLoop
<1>2. PoolTypeOK' /\ OneInside'
  BY DEF PoolInv, CreateLoop, nextVars, PoolTypeOK, OneInside
<1>3. l = N - 1 => running' = Loops
  BY PoolSize DEF CreateLoop, Loops
<1>4. AllRun'
  BY <1>3 DEF CreateLoop, AllRun
<1> QED
  BY <1>1, <1>2, <1>4 DEF PoolInv

LEMMA DeletePoolKeeps == PoolInv /\ DeletePool => PoolInv'
<1> SUFFICES ASSUME PoolInv, DeletePool PROVE PoolInv'
  OBVIOUS
<1>1. PosInRange' /\ TurnsCounted' /\ GotLoop'
  BY NextUntouched DEF DeletePool
<1>2. PoolTypeOK' /\ OneInside' /\ AllRun'
  BY DEF PoolInv, DeletePool, nextVars, PoolTypeOK, OneInside, AllRun
<1> QED
  BY <1>1, <1>2 DEF PoolInv

\* What a step of a thread u inside event_loop_pool_next can rely on.
LEMMA Alone ==
  ASSUME PoolInv, NEW u \in Users, at[u] # "out"
  PROVE  /\ mtx = u /\ pool = "open" /\ running = Loops
         /\ \A v \in Users : v # u => at[v] = "out"
BY DEF PoolInv, OneInside, AllRun

LEMMA LockPoolKeeps == ASSUME PoolInv, NEW u \in Users, LockPool(u) PROVE PoolInv'
<1>1. \A v \in Users : at[v] = "out" /\ at'[v] = IF v = u THEN "read" ELSE "out"
  BY DEF PoolInv, PoolTypeOK, OneInside, LockPool, Move
<1>2. PoolTypeOK' /\ OneInside' /\ AllRun'
  BY <1>1, LoopPoolAssumption
     DEF PoolInv, PoolTypeOK, OneInside, AllRun, LockPool, Move, Places
<1>3. PosInRange' /\ GotLoop'
  BY <1>1 DEF PoolInv, PosInRange, GotLoop, LockPool
<1>4. TurnsUpTo(pos)' <=> TurnsUpTo(pos)
  BY DEF LockPool, TurnsUpTo
<1>5. TurnsCounted'
  BY <1>1, <1>4 DEF PoolInv, TurnsCounted
<1> QED
  BY <1>2, <1>3, <1>5 DEF PoolInv

LEMMA ReadLoopKeeps == ASSUME PoolInv, NEW u \in Users, ReadLoop(u) PROVE PoolInv'
<1>1. /\ at[u] = "read"
      /\ \A v \in Users : at'[v] = IF v = u THEN "advance" ELSE "out"
      /\ \A v \in Users : v # u => at[v] = "out"
  BY Alone DEF PoolInv, PoolTypeOK, ReadLoop, Move
<1>2. mtx = u /\ pool = "open" /\ running = Loops
  BY <1>1, Alone
<1>3. pos \in Loops
  BY <1>1, PoolSize DEF PoolInv, PoolTypeOK, PosInRange, Loops
<1>4. OneInside' /\ AllRun'
  BY <1>1, <1>2, LoopPoolAssumption DEF OneInside, AllRun, ReadLoop
<1>5. PoolTypeOK' /\ GotLoop'
  BY <1>1, <1>3 DEF PoolInv, PoolTypeOK, GotLoop, ReadLoop, Move, Places
<1>6. PosInRange'
  BY <1>1, <1>3, PoolSize DEF PosInRange, Loops, ReadLoop
<1>7. TurnsUpTo(pos + 1)'
  <2>1. PICK n \in Nat : \A l \in Loops : turns[l] = IF l < pos THEN n + 1 ELSE n
    BY <1>1 DEF PoolInv, TurnsCounted, TurnsUpTo
  <2>2. \A l \in Loops : turns'[l] = IF l < pos' + 1 THEN n + 1 ELSE n
    <3> TAKE l \in Loops
    <3>1. turns'[l] = IF l = pos THEN turns[l] + 1 ELSE turns[l]
      BY DEF ReadLoop
    <3>2. l \in Int /\ pos \in Int /\ pos' = pos
      BY <1>3 DEF Loops, ReadLoop
    <3> QED
      BY <2>1, <3>1, <3>2
  <2> QED
    BY <2>2 DEF TurnsUpTo
<1>8. TurnsCounted'
  BY <1>1, <1>7 DEF TurnsCounted
<1> QED
  BY <1>4, <1>5, <1>6, <1>8 DEF PoolInv

LEMMA AdvanceKeeps == ASSUME PoolInv, NEW u \in Users, Advance(u) PROVE PoolInv'
<1>1. /\ at[u] = "advance"
      /\ \A v \in Users : at'[v] = IF v = u THEN "wrap" ELSE "out"
      /\ \A v \in Users : v # u => at[v] = "out"
  BY Alone DEF PoolInv, PoolTypeOK, Advance, Move
<1>2. mtx = u /\ pool = "open" /\ running = Loops
  BY <1>1, Alone
<1>3. pos \in Nat /\ pos < N /\ pos' = pos + 1
  BY <1>1 DEF PoolInv, PoolTypeOK, PosInRange, Advance
<1>4. OneInside' /\ AllRun'
  BY <1>1, <1>2, LoopPoolAssumption DEF OneInside, AllRun, Advance
<1>5. PoolTypeOK' /\ GotLoop'
  BY <1>1, <1>3 DEF PoolInv, PoolTypeOK, GotLoop, Advance, Move, Places
<1>6. PosInRange'
  BY <1>1, <1>3, PoolSize DEF PosInRange
<1>7. TurnsUpTo(pos)'
  BY <1>1, <1>3 DEF PoolInv, TurnsCounted, TurnsUpTo, Advance
<1>8. TurnsCounted'
  BY <1>1, <1>7 DEF TurnsCounted
<1> QED
  BY <1>4, <1>5, <1>6, <1>8 DEF PoolInv

LEMMA WrapKeeps == ASSUME PoolInv, NEW u \in Users, Wrap(u) PROVE PoolInv'
<1>1. /\ at[u] = "wrap"
      /\ \A v \in Users : at'[v] = IF v = u THEN "unlock" ELSE "out"
      /\ \A v \in Users : v # u => at[v] = "out"
  BY Alone DEF PoolInv, PoolTypeOK, Wrap, Move
<1>2. mtx = u /\ pool = "open" /\ running = Loops
  BY <1>1, Alone
<1>3. pos \in Nat /\ pos <= N /\ pos' = IF pos >= N THEN 0 ELSE pos
  BY DEF PoolInv, PoolTypeOK, PosInRange, Wrap
<1>4. OneInside' /\ AllRun'
  BY <1>1, <1>2, LoopPoolAssumption DEF OneInside, AllRun, Wrap
<1>5. PoolTypeOK' /\ GotLoop'
  BY <1>1, <1>3 DEF PoolInv, PoolTypeOK, GotLoop, Wrap, Move, Places
<1>6. PosInRange'
  BY <1>1, <1>3, PoolSize DEF PosInRange
<1>7. TurnsUpTo(pos)'
  <2>1. PICK n \in Nat : \A l \in Loops : turns[l] = IF l < pos THEN n + 1 ELSE n
    BY <1>1 DEF PoolInv, TurnsCounted, TurnsUpTo
  <2>2. CASE pos >= N
    <3>1. \A l \in Loops : turns'[l] = IF l < pos' THEN (n + 1) + 1 ELSE n + 1
      BY <2>1, <2>2, <1>3, PoolSize DEF Wrap, Loops
    <3> QED
      BY <3>1 DEF TurnsUpTo
  <2>3. CASE ~(pos >= N)
    BY <2>1, <2>3, <1>3 DEF TurnsUpTo, Wrap
  <2> QED
    BY <2>2, <2>3
<1>8. TurnsCounted'
  BY <1>1, <1>7 DEF TurnsCounted
<1> QED
  BY <1>4, <1>5, <1>6, <1>8 DEF PoolInv

LEMMA UnlockPoolKeeps == ASSUME PoolInv, NEW u \in Users, UnlockPool(u) PROVE PoolInv'
<1>1. /\ at[u] = "unlock"
      /\ \A v \in Users : at'[v] = "out"
      /\ \A v \in Users : v # u => at[v] = "out"
  BY Alone DEF PoolInv, PoolTypeOK, UnlockPool, Move
<1>2. OneInside' /\ AllRun' /\ GotLoop'
  BY <1>1 DEF PoolInv, OneInside, AllRun, GotLoop, UnlockPool
<1>3. PoolTypeOK'
  BY <1>1 DEF PoolInv, PoolTypeOK, UnlockPool, Move, Places
<1>4. PosInRange'
  BY <1>1 DEF PoolInv, PosInRange, UnlockPool
<1>5. TurnsUpTo(pos)' <=> TurnsUpTo(pos)
  BY DEF UnlockPool, TurnsUpTo
<1>6. TurnsCounted'
  BY <1>1, <1>5 DEF PoolInv, TurnsCounted
<1> QED
  BY <1>2, <1>3, <1>4, <1>6 DEF PoolInv

LEMMA PoolInvNext == PoolInv /\ [PoolNext]_poolVars => PoolInv'
<1> SUFFICES ASSUME PoolInv, [PoolNext]_poolVars PROVE PoolInv'
  OBVIOUS
<1>1. CASE UNCHANGED poolVars
  <2>1. UNCHANGED nextVars /\ pool' = pool /\ running' = running
    BY <1>1 DEF poolVars
  <2>2. PoolTypeOK' /\ OneInside' /\ AllRun'
    BY <2>1 DEF PoolInv, PoolTypeOK, OneInside, AllRun, nextVars
  <2> QED
    BY <2>1, <2>2, NextUntouched DEF PoolInv
<1>2. CASE BeginPool
  BY <1>2, BeginPoolKeeps
<1>3. CASE DeletePool
  BY <1>3, DeletePoolKeeps
<1>4. CASE \E l \in Loops : CreateLoop(l)
  BY <1>4, CreateLoopKeeps
<1>5. CASE \E u \in Users : LockPool(u) \/ NextSteps(u)
  BY <1>5, LockPoolKeeps, ReadLoopKeeps, AdvanceKeeps, WrapKeeps, UnlockPoolKeeps
     DEF NextSteps
<1> QED
  BY <1>1, <1>2, <1>3, <1>4, <1>5 DEF PoolNext

LEMMA PoolInvInTurn == PoolInv => InTurn
<1> SUFFICES ASSUME PoolInv PROVE InTurn
  OBVIOUS
<1>1. \A u \in Users : at[u] \notin {"out", "read"} => got[u] \in running
  BY Alone DEF PoolInv, GotLoop
<1>2. \E t \in Int : TurnsUpTo(t)
  <2>1. CASE \A u \in Users : at[u] # "advance"
    BY <2>1 DEF PoolInv, PoolTypeOK, TurnsCounted
  <2>2. CASE \E u \in Users : at[u] = "advance"
    BY <2>2 DEF PoolInv, PoolTypeOK, TurnsCounted
  <2> QED
    BY <2>1, <2>2
<1>3. \A k, l \in Loops : turns[k] - turns[l] <= 1
  BY <1>2 DEF TurnsUpTo
<1> QED
  BY <1>1, <1>3 DEF InTurn

\* However many loops a pool has and however many threads take loops from it, they
\* are handed out in turn: event_loop_pool_next.
THEOREM PoolHandsOutInTurn == PoolSpec => []InTurn
<1>1. PoolSpec => []PoolInv
  BY PoolInvInit, PoolInvNext, PTL DEF PoolSpec
<1> QED
  BY <1>1, PoolInvInTurn, PTL

-------------------------------------------------------------------------------
(* The server is a user of the pool. *)

LEMMA ServerStep == [Next]_vars => [PoolNext]_poolVars
<1> SUFFICES ASSUME [Next]_vars PROVE [PoolNext]_poolVars
  OBVIOUS
<1> USE ServerAssumption
<1>1. CASE UNCHANGED vars
  BY <1>1 DEF vars
<1>2. CASE MainSteps
  <2>1. CASE StartPool
    BY <2>1 DEF StartPool, PoolNext
  <2>2. CASE MainTakesLoop
    BY <2>2 DEF MainTakesLoop, PoolNext, NextSteps
  <2> QED
    BY <1>2, <2>1, <2>2 DEF MainSteps, OpenServer, AddListener, AddTimer
<1>3. CASE StartFails
  BY <1>3 DEF StartFails, PoolNext
<1>4. CASE \E a \in Apps : AppTakesLoop(a)
  BY <1>4 DEF AppTakesLoop, PoolNext
<1>5. CASE \E c \in Clients : Connect(c)
  BY <1>5 DEF Connect
<1>6. ASSUME NEW l \in Loops,
             \/ BeginPoll(l) \/ EndPoll(l) \/ AcceptSteps(l)
             \/ \E c \in Clients : Callback(l, c) \/ Accept(l, c)
      PROVE  [PoolNext]_poolVars
  <2>1. CASE TakeLoop(l)
    BY <2>1 DEF TakeLoop, PoolNext, NextSteps
  <2>2. CASE BeginPoll(l) \/ EndPoll(l)
    BY <2>2 DEF BeginPoll, EndPoll
  <2>3. CASE CreateFails(l) \/ SetUp(l) \/ LockLoop(l) \/ ListConn(l)
    BY <2>3 DEF CreateFails, SetUp, LockLoop, ListConn
  <2>4. CASE \E c \in Clients : Callback(l, c) \/ Accept(l, c)
    BY <2>4 DEF Callback, Accept
  <2> QED
    BY <1>6, <2>1, <2>2, <2>3, <2>4 DEF AcceptSteps
<1> QED
  BY <1>1, <1>2, <1>3, <1>4, <1>5, <1>6 DEF Next

\* Whatever the server, the accepting thread and other threads do, all they do to
\* the pool are steps of the pool's own functions.
THEOREM ServerUsesPool == Spec => PoolSpec
<1>1. Init => PoolInit
  BY DEF Init
<1> QED
  BY <1>1, ServerStep, PTL DEF Spec, PoolSpec

\* So the clients that are accepted, while other threads take loops too, are spread
\* evenly over the loops: _on_accept.
THEOREM ServerSpreadsClients == Spec => []InTurn
BY ServerUsesPool, PoolHandsOutInTurn

-------------------------------------------------------------------------------
(* A connection is set up before it is listed. *)

Accepting == {"next", "create", "add", "list"}

ConnTypeOK ==
  /\ client \in [Clients -> {"away", "backlog", "accepted", "listed", "closed", "leaked"}]
  /\ pc \in [Loops -> {"idle", "poll"} \cup Accepting]
  /\ e_loop \in [Clients -> Loops \cup {None}]
  /\ ready \in [Clients -> BOOLEAN]
  /\ hand \in [Loops -> Clients \cup {None}]

\* Each thread that accepts has a client of its own.
OwnHand ==
  /\ \A l \in Loops :
       pc[l] \in Accepting => hand[l] \in Clients /\ client[hand[l]] = "accepted"
  /\ \A k, l \in Loops :
       pc[k] \in Accepting /\ pc[l] \in Accepting /\ hand[k] = hand[l] => k = l

\* The loop that a thread got is one that runs until it takes another, and what it
\* has set up stays set up until it lists it.
SetUpSoFar ==
  \A l \in Loops :
    /\ pc[l] = "create" => got[l] \in running
    /\ pc[l] \in {"add", "list"} =>
         ready[hand[l]] /\ e_loop[hand[l]] = got[l] /\ got[l] \in running

SetUpInv == ConnTypeOK /\ OwnHand /\ SetUpSoFar

ServerInv == PoolInv /\ SetUpInv /\ ReadyWhenListed

LEMMA ServerInvInit == Init => ServerInv
<1> SUFFICES ASSUME Init PROVE ServerInv
  OBVIOUS
<1>1. PoolInv
  BY PoolInvInit DEF Init
<1>2. (\A c \in Clients : client[c] = "away") /\ \A l \in Loops : pc[l] = "idle"
  BY DEF Init
<1>3. ConnTypeOK
  BY Zenon DEF Init, ConnTypeOK, Accepting
<1>4. OwnHand /\ SetUpSoFar /\ ReadyWhenListed
  BY <1>2 DEF OwnHand, SetUpSoFar, ReadyWhenListed, Accepting
<1> QED
  BY <1>1, <1>3, <1>4 DEF ServerInv, SetUpInv

\* Steps of the pool that leave the threads of the loops where they are.
LEMMA PoolStepsKeep ==
  ASSUME ServerInv, UNCHANGED <<connVars, pc, hand>>, running \subseteq running',
         \A l \in Loops : got'[l] = got[l]
  PROVE  SetUpInv' /\ ReadyWhenListed'
<1>1. SetUpInv'
  BY DEF ServerInv, SetUpInv, ConnTypeOK, OwnHand, SetUpSoFar, connVars
<1>2. ReadyWhenListed'
  BY DEF ServerInv, ReadyWhenListed, connVars
<1> QED
  BY <1>1, <1>2

LEMMA TakeLoopKeeps ==
  ASSUME ServerInv, NEW l \in Loops, TakeLoop(l)
  PROVE  SetUpInv' /\ ReadyWhenListed'
<1>1. pc[l] = "next" /\ running' = running /\ UNCHANGED <<connVars, hand>>
  BY DEF TakeLoop, LockPool, ReadLoop, Advance, Wrap, UnlockPool
<1>2. \A k \in Loops \ {l} : got'[k] = got[k] /\ pc'[k] = pc[k]
  BY ServerAssumption
     DEF ServerInv, PoolInv, PoolTypeOK, SetUpInv, ConnTypeOK, TakeLoop, Go,
         LockPool, ReadLoop, Advance, Wrap, UnlockPool
<1>3. \/ pc'[l] = "next"
      \/ pc'[l] = "create" /\ got'[l] \in running
  <2>1. CASE UnlockPool(l) /\ Go(l, "next", "create")
    <3>1. l \in Users /\ at[l] = "unlock" /\ got' = got
      BY <2>1, ServerAssumption DEF UnlockPool, Move
    <3>2. got[l] \in running
      BY <3>1, PoolInvInTurn DEF ServerInv, InTurn
    <3> QED
      BY <2>1, <3>1, <3>2 DEF ServerInv, SetUpInv, ConnTypeOK, Go
  <2>2. CASE UNCHANGED pc
    BY <1>1, <2>2
  <2> QED
    BY <2>1, <2>2 DEF TakeLoop
<1>4. ConnTypeOK'
  BY <1>1 DEF ServerInv, SetUpInv, ConnTypeOK, Accepting, TakeLoop, Go, connVars
<1>5. SetUpInv'
  <2>1. OwnHand'
    BY <1>1, <1>2 DEF ServerInv, SetUpInv, OwnHand, Accepting, connVars
  <2>2. SetUpSoFar'
    BY <1>1, <1>2, <1>3 DEF ServerInv, SetUpInv, SetUpSoFar, connVars
  <2> QED
    BY <1>4, <2>1, <2>2 DEF SetUpInv
<1>6. ReadyWhenListed'
  BY <1>1 DEF ServerInv, ReadyWhenListed, connVars
<1> QED
  BY <1>5, <1>6

\* Steps of a loop's thread, and of clients, outside the pool.
LEMMA LoopStepsKeep ==
  ASSUME ServerInv, NEW l \in Loops, UNCHANGED poolVars,
         \/ BeginPoll(l) \/ EndPoll(l) \/ CreateFails(l) \/ SetUp(l) \/ LockLoop(l) \/ ListConn(l)
         \/ \E c \in Clients : Callback(l, c) \/ Accept(l, c)
  PROVE  SetUpInv' /\ ReadyWhenListed'
<1> USE DEF ServerInv, SetUpInv, connVars, poolVars, nextVars, Go, Becomes
<1>1. CASE BeginPoll(l) \/ EndPoll(l) \/ LockLoop(l)
  <2>1. UNCHANGED <<connVars, hand, got, running>>
    BY <1>1 DEF BeginPoll, EndPoll, LockLoop
  <2>2. /\ ConnTypeOK'
        /\ \A k \in Loops : pc'[k] = pc[k] \/ pc'[k] \in {"idle", "poll"} \/ (pc[k] = "add" /\ pc'[k] = "list")
    BY <1>1 DEF BeginPoll, EndPoll, LockLoop, ConnTypeOK, Accepting
  <2>3. OwnHand' /\ SetUpSoFar' /\ ReadyWhenListed'
    BY <2>1, <2>2 DEF OwnHand, SetUpSoFar, ReadyWhenListed, Accepting
  <2> QED
    BY <2>2, <2>3
<1>2. ASSUME NEW c \in Clients, NEW s \in {"leaked", "listed", "closed"}, NEW from \in Accepting,
             hand[l] = c, pc[l] = from, s = "listed" => from = "list",
             pc' = [pc EXCEPT ![l] = "poll"], client' = [client EXCEPT ![c] = s],
             UNCHANGED <<e_loop, ready, hand>>
      PROVE  SetUpInv' /\ ReadyWhenListed'
  <2>1. \A x \in Clients : client'[x] = IF x = c THEN s ELSE client[x]
    BY <1>2 DEF ConnTypeOK
  <2>2. \A k \in Loops : pc'[k] = IF k = l THEN "poll" ELSE pc[k]
    BY <1>2 DEF ConnTypeOK
  <2>3. ConnTypeOK'
    BY <1>2 DEF ConnTypeOK
  <2>4. OwnHand'
    BY <1>2, <2>1, <2>2 DEF OwnHand, Accepting
  <2>5. SetUpSoFar'
    BY <1>2, <2>2 DEF SetUpSoFar
  <2>6. ReadyWhenListed'
    BY <1>2, <2>1 DEF SetUpSoFar, ReadyWhenListed
  <2> QED
    BY <2>3, <2>4, <2>5, <2>6
<1>3. CASE CreateFails(l)
  <2>1. CASE Go(l, "create", "poll") /\ Becomes(hand[l], "leaked")
    <3>1. hand[l] \in Clients /\ "create" \in Accepting
      BY <2>1 DEF OwnHand, Accepting
    <3> QED
      BY <1>3, <2>1, <3>1, <1>2 DEF CreateFails
  <2>2. CASE Go(l, "create", "create") /\ UNCHANGED client
    <3>1. UNCHANGED <<connVars, hand, got, running, pc>>
      BY <1>3, <2>2 DEF CreateFails, ConnTypeOK
    <3> QED
      BY <3>1 DEF ConnTypeOK, OwnHand, SetUpSoFar, ReadyWhenListed
  <2> QED
    BY <1>3, <2>1, <2>2 DEF CreateFails
<1>4. CASE SetUp(l)
  <2>1. /\ pc[l] = "create" /\ UNCHANGED <<client, hand, got, running>>
        /\ pc' = [pc EXCEPT ![l] = "add"]
        /\ e_loop' = [e_loop EXCEPT ![hand[l]] = got[l]]
        /\ ready' = [ready EXCEPT ![hand[l]] = TRUE]
    BY <1>4 DEF SetUp
  <2>2. /\ hand[l] \in Clients /\ client[hand[l]] = "accepted"
        /\ got[l] \in running /\ got[l] \in Loops
    BY <2>1 DEF OwnHand, SetUpSoFar, Accepting, PoolInv, PoolTypeOK
  <2>3. /\ ready'[hand[l]] /\ e_loop'[hand[l]] = got[l]
        /\ \A c \in Clients : c # hand[l] => (ready'[c] <=> ready[c]) /\ e_loop'[c] = e_loop[c]
    BY <2>1, <2>2 DEF ConnTypeOK
  <2>4. \A k \in Loops : pc'[k] = IF k = l THEN "add" ELSE pc[k]
    BY <2>1 DEF ConnTypeOK
  <2>5. ConnTypeOK'
    BY <2>1, <2>2 DEF ConnTypeOK, Accepting
  <2>6. OwnHand'
    BY <2>1, <2>2, <2>4 DEF OwnHand, Accepting
  <2>7. SetUpSoFar'
    BY <2>1, <2>2, <2>3, <2>4 DEF OwnHand, SetUpSoFar, Accepting
  <2>8. ReadyWhenListed'
    BY <2>1, <2>2, <2>3 DEF ReadyWhenListed
  <2> QED
    BY <2>5, <2>6, <2>7, <2>8
<1>5. CASE ListConn(l)
  <2>1. hand[l] \in Clients /\ "list" \in Accepting
    BY <1>5 DEF ListConn, OwnHand, Accepting
  <2>2. PICK s \in {"listed", "closed"} : client' = [client EXCEPT ![hand[l]] = s]
    BY <1>5 DEF ListConn
  <2> QED
    BY <1>5, <2>1, <2>2, <1>2 DEF ListConn
<1>6. ASSUME NEW c \in Clients, Callback(l, c)
      PROVE  SetUpInv' /\ ReadyWhenListed'
  BY <1>6 DEF Callback, loopVars, ConnTypeOK, OwnHand, SetUpSoFar, ReadyWhenListed, Accepting
<1>7. ASSUME NEW c \in Clients, Accept(l, c)
      PROVE  SetUpInv' /\ ReadyWhenListed'
  <2>1. /\ client[c] = "backlog" /\ UNCHANGED <<e_loop, ready, got, running>>
        /\ \/ /\ client' = [client EXCEPT ![c] = "accepted"]
              /\ pc[l] = "poll" /\ pc' = [pc EXCEPT ![l] = "next"] /\ hand' = [hand EXCEPT ![l] = c]
           \/ client' = [client EXCEPT ![c] = "closed"] /\ UNCHANGED <<pc, hand>>
    BY <1>7 DEF Accept
  <2>2. \A x \in Clients : x # c => client'[x] = client[x]
    BY <2>1 DEF ConnTypeOK
  <2>3. client'[c] \in {"accepted", "closed"}
    BY <2>1 DEF ConnTypeOK
  <2>4. ConnTypeOK'
    BY <2>1 DEF ConnTypeOK, Accepting
  <2>5. \A k \in Loops \ {l} : pc'[k] = pc[k] /\ hand'[k] = hand[k]
    BY <2>1 DEF ConnTypeOK
  <2>6. \/ UNCHANGED <<pc, hand>>
        \/ pc'[l] = "next" /\ hand'[l] = c /\ client'[c] = "accepted"
    BY <2>1 DEF ConnTypeOK
  <2>7. OwnHand'
    BY <2>1, <2>2, <2>5, <2>6 DEF OwnHand, Accepting
  <2>8. SetUpSoFar'
    BY <2>1, <2>5, <2>6 DEF SetUpSoFar
  <2>9. ReadyWhenListed'
    BY <2>1, <2>2, <2>3 DEF ReadyWhenListed
  <2> QED
    BY <2>4, <2>7, <2>8, <2>9
<1> QED
  BY <1>1, <1>3, <1>4, <1>5, <1>6, <1>7

LEMMA ServerInvNext == ServerInv /\ [Next]_vars => ServerInv'
<1> SUFFICES ASSUME ServerInv, [Next]_vars PROVE ServerInv'
  OBVIOUS
<1>1. PoolInv'
  BY ServerStep, PoolInvNext DEF ServerInv
<1>2. SetUpInv' /\ ReadyWhenListed'
  <2>1. CASE UNCHANGED vars
    BY <2>1, PoolStepsKeep DEF vars, poolVars, nextVars, loopVars
  <2>2. CASE MainSteps \/ StartFails
    <3>1. UNCHANGED <<connVars, pc, hand>>
      BY <2>2 DEF MainSteps, StartFails, StartPool, OpenServer, MainTakesLoop, AddListener,
                  AddTimer, loopVars
    <3>2. running \subseteq running'
      BY <2>2 DEF MainSteps, StartFails, StartPool, OpenServer, MainTakesLoop, AddListener,
                  AddTimer, BeginPool, CreateLoop, DeletePool, LockPool, ReadLoop, Advance,
                  Wrap, UnlockPool, poolVars
    <3>3. \A l \in Loops : got'[l] = got[l]
      BY <2>2, ServerAssumption
         DEF ServerInv, PoolInv, PoolTypeOK, MainSteps, StartFails, StartPool, OpenServer,
             MainTakesLoop, AddListener, AddTimer, BeginPool, CreateLoop, DeletePool, LockPool,
             ReadLoop, Advance, Wrap, UnlockPool, poolVars, nextVars
    <3> QED
      BY <3>1, <3>2, <3>3, PoolStepsKeep
  <2>3. ASSUME NEW a \in Apps, AppTakesLoop(a)
        PROVE  SetUpInv' /\ ReadyWhenListed'
    <3>1. UNCHANGED <<connVars, pc, hand>> /\ running' = running
      BY <2>3 DEF AppTakesLoop, NextSteps, LockPool, ReadLoop, Advance, Wrap, UnlockPool, loopVars
    <3>2. \A l \in Loops : got'[l] = got[l]
      BY <2>3, ServerAssumption
         DEF ServerInv, PoolInv, PoolTypeOK, AppTakesLoop, NextSteps, LockPool, ReadLoop,
             Advance, Wrap, UnlockPool
    <3> QED
      BY <3>1, <3>2, PoolStepsKeep
  <2>4. ASSUME NEW c \in Clients, Connect(c)
        PROVE  SetUpInv' /\ ReadyWhenListed'
    BY <2>4 DEF Connect, ServerInv, SetUpInv, ConnTypeOK, OwnHand, SetUpSoFar, Accepting,
                ReadyWhenListed, poolVars, nextVars, loopVars
  <2>5. ASSUME NEW l \in Loops,
               \/ BeginPoll(l) \/ EndPoll(l) \/ AcceptSteps(l)
               \/ \E c \in Clients : Callback(l, c) \/ Accept(l, c)
        PROVE  SetUpInv' /\ ReadyWhenListed'
    <3>1. CASE TakeLoop(l)
      BY <3>1, TakeLoopKeeps
    <3>2. CASE ~TakeLoop(l)
      <4>1. UNCHANGED poolVars
        BY <2>5, <3>2 DEF AcceptSteps, BeginPoll, EndPoll, CreateFails, SetUp, LockLoop,
                          ListConn, Callback, Accept
      <4> QED
        BY <2>5, <3>2, <4>1, LoopStepsKeep DEF AcceptSteps
    <3> QED
      BY <3>1, <3>2
  <2> QED
    BY <2>1, <2>2, <2>3, <2>4, <2>5 DEF Next
<1> QED
  BY <1>1, <1>2 DEF ServerInv

\* However long the accepting thread waits for another loop's fd_mtx, no loop ever
\* lists a connection that is not set up, or that it does not run for:
\* tcp_connect_create.
THEOREM ServerListsReady == Spec => []ReadyWhenListed
<1>1. Spec => []ServerInv
  BY ServerInvInit, ServerInvNext, PTL DEF Spec
<1>2. ServerInv => ReadyWhenListed
  BY DEF ServerInv
<1> QED
  BY <1>1, <1>2, PTL
===============================================================================
