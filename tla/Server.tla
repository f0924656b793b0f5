--------------------------------- MODULE Server ---------------------------------
(***************************************************************************)
(* The server of src/pingpong.c: the main thread starts the pool of loops, *)
(* opens the listening descriptor and adds its channel to a loop.  That    *)
(* loop's thread accepts the clients in a callback, and so with its own    *)
(* fd_mtx locked, takes a loop for each from the pool, creates the         *)
(* connection, and adds it to the list of that loop, for which it locks    *)
(* the fd_mtx of the other loop.  Each loop calls what it has listed.      *)
(*                                                                         *)
(* What a connection does with its events is TcpConnect, what a loop does  *)
(* with its lists and sets is ChannelPoll.                                 *)
(***************************************************************************)
EXTENDS LoopPool

CONSTANTS
  Main,         \* the main thread
  Apps,         \* other threads that take a loop from the pool for themselves
  MaxAppTurns,  \* bound: loops that they take, together
  Clients       \* clients that connect, each once

ASSUME ServerAssumption ==
  /\ Users = Loops \cup Apps \cup {Main}
  /\ Main \notin Loops \cup Apps /\ Apps \cap Loops = {}
  /\ MaxAppTurns \in Nat

VARIABLES
  main,      \* where the main thread is in _run_server
  listening, \* "closed", "open", or "listed" when its channel is in the loop's list
  client,    \* per client: where it is
  e_loop,    \* per client: the loop of its connection
  ready,     \* per client: the fields and procs of its connection are set
  fd_mtx,    \* per loop: the thread inside it, or None
  pc,        \* per loop: what its thread does
  hand,      \* per loop: the client that its thread accepts
  appTurns   \* loops taken by Apps

connVars == <<client, e_loop, ready>>
loopVars == <<fd_mtx, pc, hand>>
vars == <<poolVars, main, listening, connVars, loopVars, appTurns>>

Init ==
  /\ PoolInit
  /\ main = "pool" /\ listening = "closed"
  /\ client = [c \in Clients |-> "away"]
  /\ e_loop = [c \in Clients |-> None] /\ ready = [c \in Clients |-> FALSE]
  /\ fd_mtx = [l \in Loops |-> None]
  /\ pc = [l \in Loops |-> "idle"] /\ hand = [l \in Loops |-> None]
  /\ appTurns = 0

Alive == main \notin {"failed", "crashed"}
GoMain(from, to) == main = from /\ main' = to
Go(l, from, to) == pc[l] = from /\ pc' = [pc EXCEPT ![l] = to]

\* fd_mtx is recursive: the thread of l may lock it again inside its poll.
CanLock(l, a) == fd_mtx[l] \in {None, a}

-------------------------------------------------------------------------------
(* _run_server. *)

StartPool ==
  /\ main = "pool"
  /\ \/ BeginPool /\ UNCHANGED main
     \/ \E l \in Loops : CreateLoop(l) /\ main' = IF l = N - 1 THEN "open" ELSE "pool"
  /\ UNCHANGED <<listening, connVars, loopVars, appTurns>>

\* event_loop_pool_create returned NULL at once, or after event_loop_create failed
\* for one of the loops; or event_channel_create or tcp_server_open failed.  The
\* pool is deleted and the program ends, and its loops with it.
StartFails ==
  /\ main \in {"pool", "open"} /\ main' = "failed"
  /\ \/ DeletePool
     \/ pool = "none" /\ UNCHANGED poolVars
  /\ UNCHANGED <<listening, connVars, loopVars, appTurns>>

\* net_tcp_server: the descriptor is bound and listens, so that clients can connect.
Listen == listening' = "open"

\* event_channel_create, tcp_server_open, and the channel's descriptor, mask and
\* read_proc.
OpenServer ==
  /\ GoMain("open", "next")
  /\ Listen
  /\ UNCHANGED <<poolVars, connVars, loopVars, appTurns>>

\* event_loop_pool_next, by the main thread.
MainTakesLoop ==
  /\ main = "next"
  /\ \/ LockPool(Main) /\ got[Main] = None /\ UNCHANGED main
     \/ ReadLoop(Main) /\ UNCHANGED main
     \/ Advance(Main) /\ UNCHANGED main
     \/ Wrap(Main) /\ UNCHANGED main
     \/ UnlockPool(Main) /\ main' = "add"
  /\ UNCHANGED <<listening, connVars, loopVars, appTurns>>

\* tcp_server_close passes net_fd_close the descriptor, where its address is
\* expected, and crashes.
CloseServer == main' = "crashed"

\* event_loop_add_channel with the loop that it got; if that fails the server is
\* closed.
AddListener ==
  /\ main = "add" /\ CanLock(got[Main], Main)
  /\ \/ main' = "timer" /\ listening' = "listed"
     \/ CloseServer /\ UNCHANGED listening
  /\ UNCHANGED <<poolVars, connVars, loopVars, appTurns>>

\* event_loop_add_timer and event_loop_add_job; or event_loop_remove_channel, and
\* the server is closed.
AddTimer ==
  /\ main = "timer"
  /\ \/ main' = "console" /\ UNCHANGED listening
     \/ CloseServer /\ listening' = "open" /\ CanLock(got[Main], Main)
  /\ UNCHANGED <<poolVars, connVars, loopVars, appTurns>>

\* event_loop_pool_next, by another thread of the program.
AppTakesLoop(a) ==
  /\ main = "console"
  /\ \/ LockPool(a) /\ appTurns < MaxAppTurns /\ appTurns' = appTurns + 1
     \/ NextSteps(a) /\ UNCHANGED appTurns
  /\ UNCHANGED <<main, listening, connVars, loopVars>>

-------------------------------------------------------------------------------
(* The network. *)

Connect(c) ==
  /\ Alive /\ listening # "closed" /\ client[c] = "away"
  /\ client' = [client EXCEPT ![c] = "backlog"]
  /\ UNCHANGED <<poolVars, main, listening, e_loop, ready, loopVars, appTurns>>

-------------------------------------------------------------------------------
(* The polls of the loops. *)

Fixed == UNCHANGED <<main, listening, appTurns>>
Becomes(c, state) == client' = [client EXCEPT ![c] = state]

BeginPoll(l) ==
  /\ Alive /\ l \in running /\ fd_mtx[l] = None
  /\ Go(l, "idle", "poll")
  /\ fd_mtx' = [fd_mtx EXCEPT ![l] = l]
  /\ UNCHANGED <<poolVars, connVars, hand>> /\ Fixed

EndPoll(l) ==
  /\ Alive
  /\ Go(l, "poll", "idle")
  /\ fd_mtx' = [fd_mtx EXCEPT ![l] = None]
  /\ UNCHANGED <<poolVars, connVars, hand>> /\ Fixed

\* A callback of a connection deletes it, which needs what was set in it; other
\* callbacks change nothing here.
Callback(l, c) ==
  /\ Alive /\ pc[l] = "poll"
  /\ client[c] = "listed" /\ e_loop[c] = l /\ ready[c]
  /\ Becomes(c, "closed")
  /\ UNCHANGED <<poolVars, e_loop, ready, loopVars>> /\ Fixed

\* _on_accept: net_tcp_accept returns a descriptor, or -1 when that of the client
\* cannot be set not to block, and is closed.
Accept(l, c) ==
  /\ Alive /\ pc[l] = "poll"
  /\ listening = "listed" /\ got[Main] = l /\ client[c] = "backlog"
  /\ \/ Becomes(c, "accepted") /\ Go(l, "poll", "next") /\ hand' = [hand EXCEPT ![l] = c]
     \/ Becomes(c, "closed") /\ UNCHANGED <<pc, hand>>
  /\ UNCHANGED <<poolVars, e_loop, ready, fd_mtx>> /\ Fixed

\* event_loop_pool_next
TakeLoop(l) ==
  /\ Alive /\ pc[l] = "next"
  /\ \/ (LockPool(l) \/ ReadLoop(l) \/ Advance(l) \/ Wrap(l)) /\ UNCHANGED pc
     \/ UnlockPool(l) /\ Go(l, "next", "create")
  /\ UNCHANGED <<connVars, fd_mtx, hand>> /\ Fixed

\* tcp_connect_create: no memory for the connection, and its descriptor stays
\* open; or none for its channel, and tcp_connect_delete follows a NULL pointer.
CreateFails(l) ==
  /\ Alive
  /\ \/ Go(l, "create", "poll") /\ Becomes(hand[l], "leaked") /\ UNCHANGED main
     \/ Go(l, "create", "create") /\ main' = "crashed" /\ UNCHANGED client
  /\ UNCHANGED <<poolVars, listening, e_loop, ready, fd_mtx, hand, appTurns>>

\* Mutant of SetUp: the procs are left for later.
SetUpLater(l) ==
  /\ Alive
  /\ Go(l, "create", "add")
  /\ e_loop' = [e_loop EXCEPT ![hand[l]] = got[l]]
  /\ UNCHANGED <<poolVars, client, ready, fd_mtx, hand>> /\ Fixed

\* The connection gets its loop, procs, descriptor and mask
SetUp(l) ==
  /\ Alive
  /\ Go(l, "create", "add")
  /\ e_loop' = [e_loop EXCEPT ![hand[l]] = got[l]]
  /\ ready' = [ready EXCEPT ![hand[l]] = TRUE]
  /\ UNCHANGED <<poolVars, client, fd_mtx, hand>> /\ Fixed

\* and waits for the fd_mtx of the loop: event_loop_add_channel
LockLoop(l) ==
  /\ Alive
  /\ Go(l, "add", "list") /\ CanLock(got[l], l)
  /\ fd_mtx' = [fd_mtx EXCEPT ![got[l]] = l]
  /\ UNCHANGED <<poolVars, connVars, hand>> /\ Fixed

\* Mutant of ListConn: the mutex of the other loop stays locked.
ListConnKeepsMutex(l) ==
  /\ Alive
  /\ Go(l, "list", "poll")
  /\ \/ Becomes(hand[l], "listed")
     \/ Becomes(hand[l], "closed")
  /\ UNCHANGED <<poolVars, e_loop, ready, fd_mtx, hand>> /\ Fixed

\* lists it, or finds no memory, and the connection is deleted.
ListConn(l) ==
  /\ Alive
  /\ Go(l, "list", "poll")
  /\ \/ Becomes(hand[l], "listed")
     \/ Becomes(hand[l], "closed")
  /\ fd_mtx' = [fd_mtx EXCEPT ![got[l]] = IF got[l] = l THEN l ELSE None]
  /\ UNCHANGED <<poolVars, e_loop, ready, hand>> /\ Fixed

-------------------------------------------------------------------------------
MainSteps == StartPool \/ OpenServer \/ MainTakesLoop \/ AddListener \/ AddTimer
AcceptSteps(l) == TakeLoop(l) \/ CreateFails(l) \/ SetUp(l) \/ LockLoop(l) \/ ListConn(l)

Next ==
  \/ MainSteps \/ StartFails
  \/ \E a \in Apps : AppTakesLoop(a)
  \/ \E c \in Clients : Connect(c)
  \/ \E l \in Loops :
       \/ BeginPoll(l) \/ EndPoll(l) \/ AcceptSteps(l)
       \/ \E c \in Clients : Callback(l, c) \/ Accept(l, c)

Spec == Init /\ [][Next]_vars

\* The threads go on, a mutex that is free again and again is locked some time,
\* and a poll reports the listening descriptor while a client waits.
Fairness ==
  /\ SF_vars(MainSteps) /\ SF_vars(\E a \in Apps : AppTakesLoop(a))
  /\ \A l \in Loops :
       /\ SF_vars(BeginPoll(l) \/ EndPoll(l)) /\ SF_vars(AcceptSteps(l))
       /\ SF_vars(\E c \in Clients : Accept(l, c))
FairSpec == Spec /\ Fairness

-------------------------------------------------------------------------------
(* Properties. *)

\* As soon as a connection is in the list of a loop, the thread of that loop may
\* call it, before the thread that accepted it goes on: all that the callbacks
\* use is set by then, and it is in the list of a loop that runs.
ReadyWhenListed ==
  \A c \in Clients : client[c] = "listed" => ready[c] /\ e_loop[c] \in running

\* Every client that connects is called by a loop that polls its connection, even
\* while other loops list theirs there, or its descriptor is closed; unless a
\* connection found no memory, or the program crashed.
Served(c) ==
  \/ client[c] = "listed" /\ pc[e_loop[c]] = "poll"
  \/ client[c] \in {"closed", "leaked"}
ClientsServed == \A c \in Clients : client[c] = "backlog" ~> Served(c) \/ ~Alive
===============================================================================
