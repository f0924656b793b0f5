# A verification of Eloop

Eloop (`src/README.md`) is a small C library for event-driven programs: loops,
each with a thread of its own, that poll sockets, fire timers and run
asynchronous function calls, a TCP layer on top of them, and a ping-pong server
as its example.  This directory holds TLA+ models of that code, the TLC
configurations that check them on small instances, and TLAPS proofs.  Paths of
source files are relative to the repository (`src/src/event_loop.c` and so on;
the text below leaves out the first `src/`).

## 1. The system

| component | source | state | operations |
|---|---|---|---|
| event loop | `src/event_loop.c` | three recursive mutexes, job list, timer list, `thread_abort`, the thread's position | `event_loop_create`, `_delete`, `_add_job`, `_add_timer`, `_remove_timer`, `_add_channel`, `_remove_channel`, `_remove_fd`, `_update_channel`; the thread `_thread_func` with `_fd_proc`, `_timer_proc`, `_job_proc` |
| timers | `src/event_loop.c` 138-289 | list of timers sorted by deadline, next id | `_ts_plus`, `_timer_compare`, `_timer_add`, `_timer_remove`, `_timer_min`, `_timer_proc` |
| channels and polling | `src/event_channel.c`, `src/event_channel_map.c`, `src/event_io_select.c` | per channel a descriptor, a mask and callbacks; the list of channels of a loop; the three descriptor sets of `select` | channel accessors, map add/remove/find, `event_io_add_fd`, `_remove_fd`, `_poll` |
| kqueue backend | `src/event_io_kqueue.c` | array of kernel event slots | the same interface as the select backend |
| buffer pipe | `src/buffer_pipe.c` | a growing byte buffer | write, write_head, read, find_chr |
| list | `src/common/list.c` | nodes with two pointers, head, tail, length | append, append_before, append_after, find, remove, remove_data, remove_node, remove_all |
| TCP connection | `src/net/tcp_connect.c` | channel, loop and three callbacks | create, delete, write, mark and unmark, the read/write/close handlers |
| TCP server, sockets | `src/net/tcp_server.c`, `src/net/net.c` | a listening socket | open, close; wrappers of socket calls |
| loop pool | `src/event_loop_pool.c` | array of loops and a round-robin index | create, delete, next |
| ping-pong server | `pingpong.c` | none of its own | accept, read, write and close handlers |

A loop's thread calls into `event_io`, which calls channel callbacks, which call
the TCP layer, which calls the handlers of the application, which call back into
the API of any loop.  All of this happens with `fd_mtx`, `timer_mtx` or
`job_mtx` of the loop locked.  The difficult behaviour comes from that:

* *Locks held over callbacks.*  A callback that calls another loop waits for that
  loop's pass, callbacks included; a callback that calls its own loop needs the
  mutexes to be recursive.
* *Iteration while the collection changes.*  The job pass, the timer pass and the
  poll all save a next element, call user code, and go on from what they saved.
* *State touched outside its mutex.*  Masks of channels and deadlines of timers
  are read or written before the mutex that guards the rest is locked.
* *Cached values.*  `max_fd`, the descriptor sets against the masks, the poll
  interval taken from the first timer.
* *Failures that nobody looks at.*  `calloc` in `_timer_add` and `_job_add`, and
  for the nodes of their lists, `realloc` under `buffer_pipe_write_head`, `EAGAIN`
  in the middle of a write, `kevent` that takes only some of its changes.
* *Loops that share.*  Threads of several loops take loops from one pool, and put
  channels into each other's lists while they hold their own mutex.
* *Numbers that come back.*  Descriptors, and nodes of lists, are used again while
  events, slots or saved pointers may still name the old owner.

What makes each component correct:

* *event loop*: locks and unlocks are paired on every path; no deadlock; a job that
  is listed is called once and in order; a loop goes on polling; deletion ends and leaves
  nothing running.
* *timers*: sorted; a due timer is not skipped; what is removed or done does not
  fire; a periodic timer is not lost; the pass does not use a freed node.
* *channels*: the sets follow the masks; no closed descriptor stays in them;
  `max_fd` covers them; the walk does not use freed channels; events reported are
  delivered; interest in writing is not lost.
* *buffer pipe*: a queue of bytes, inside its memory, in which what was read can
  be put back.
* *kqueue*: the kernel watches what the masks ask for; slots are given back; an
  event reaches the channel that has the descriptor now.  The code does this only
  in part, which is why the properties say for which slots, channels and
  descriptors.
* *list*: its pointers are those of a sequence.
* *connection and ping-pong*: bytes are sent once and in order; every line gets
  its answer.
* *pool and server*: every loop gets its turn and no index is out of range; a
  connection is complete before another thread sees it; every client is served.

`PROJECT.json` lists the hazards line by line, each with the properties that
would catch it or the reason why none does.

## 2. The modules

| module | what it is |
|---|---|
| `EventLoop` | all loops with their threads, application threads, the mutexes, the job lists, deletion |
| `AsyncCalls` | abstract: what `event_loop_add_job` promises |
| `TimerList` | the timers of one loop, the pass over them, the clock |
| `Timespec` | `_ts_plus` and `_timer_compare` on a `struct timespec` |
| `ChannelPoll` | the channels of one loop, the descriptor sets, the polling pass, marking and removing |
| `BufferPipe` | the block of memory of a pipe |
| `ByteQueue` | abstract: what a pipe promises |
| `LinkedList` | the nodes and pointers of one list, with its searches |
| `Kqueue` | the kqueue backend: its table of changes, what the kernel keeps of it, the poll |
| `LoopPool` | the pool of loops and the threads that take loops from it |
| `Server` | the start of the ping-pong server, its clients, the loops that accept and list them; extends `LoopPool` |
| `TcpConnect` | one connection with the handlers of the ping-pong server, its pipes, its socket and its client |
| `MC...` | instances for TLC |
| `EventLoopProof`, `TimerListProof`, `ChannelPollProof`, `BufferPipeProof`, `TcpConnectProof`, `ServerProof`, `LinkedListProof`, `KqueueProof` | theorems and proofs |

`EventLoop` knows of timers and channels only that a pass runs some callbacks
under `timer_mtx` or `fd_mtx`.  `TimerList` and `ChannelPoll` open that up, one
loop at a time; they take from `EventLoop` that sections of one mutex exclude
each other (`LockDiscipline`, proved).  `TcpConnect` is what happens inside one
callback of `ChannelPoll`; it takes its pipes from `ByteQueue`, and that putting
back what was just read cannot fail from `RoomToPutBack`, both proved of
`BufferPipe`.  `Server` is above them: a poll is one of the passes of `EventLoop`,
and what a connection does in it is `TcpConnect`.  `Kqueue` stands where the
descriptor sets of `ChannelPoll` stand, on the other platform.  The lists that
appear as sequences everywhere else are what `LinkedList` shows of `list.c`.

### EventLoop

`pc[l]` is the place of the loop's thread in `_thread_func`: `check` is the test
of `thread_abort`, `min` the call of `_timer_min`; `fd`, `timer`, `job` are the
locks of the three passes, `in_fd`, `in_timer`, `in_job` the passes themselves;
`drop_timers`, `drop_jobs` are the calls with `cleanup` set.  `owner` and `depth`
are the recursive mutexes.  `node` and `next` are the local variables of
`_job_proc`, of which only "NULL or not" matters: `node` is always the head of
the list (`JobInv` below proves it).  `JobReturns` removes the node after the
call and goes on with the `next` saved before it, as the code does.  `api[t]` and
`req[t]` say whether thread `t` is in an API function, waiting for its mutex or
holding it.  The fd and timer passes run up to `MaxEvents` callbacks; a callback
makes up to `MaxCalls` API calls, chosen from `MayCall`; it is a constant so that
an application is a parameter of the model.  `event_loop_delete` is split at
`pthread_join`.  The kernel wakes the poll by an event or a timeout, so the fd
pass just ends; `_wakeup_thread` signals a condition on which no thread waits, and
has no effect to model.  `Effect` may lose the job, when there is no memory for its
node; `_job_add` reports success all the same (event_loop.c:95 tests its argument).
A job may add to its own loop at any time, however long the list is; `MaxJobs` bounds
what other threads and the events of the loop add.

What callers owe: from the time `event_loop_delete` is called on a loop, nobody
but that loop's own callbacks uses it (`Usable`, `DeleteBegins`), and only
application threads call it.  The code cannot check either: it frees the loop.

### TimerList

A deadline is the time left until `timer->ts`, negative when it has passed, so
that the clock needs no variable; `Tick` moves all of them.  `Insert` is the
search loop of `_timer_add`; `NewTimer` sets the deadline before the mutex is
locked, hence `adding`.  `Add` gives an id and may list nothing, when there is no
memory for the node, since `_timer_add` does not look at the result of `list_append`;
`AppGivesUp` is the failure that the caller is told of.  `Fire` saves `next`,
`Returns` removes the node, lists a forever timer again with the clock as it was
read before the callback (`since`), and goes on with what was saved; the timer is
lost when there is no memory to list it again.  `CallbackRemoves` may remove any
timer, and `node` or `next` only if `RemovesSaved`: `event_loop_remove_timer` checks
nothing, no document says that a callback may remove its own timer, and the pass
would go on with a freed node, of which nothing is modelled.  Time passes freely while the thread polls, and for `MaxSlow` ticks in all
while callbacks and API functions run; `slow` counts those.

`Timespec` has the two functions on deadlines as they are written, with seconds and
nanoseconds; `DeadlinesAreIntegers` (section 4) is why `TimerList` may have integers.

### ChannelPoll

`ec_map`, `mask`, `procs`, `fds`, `is_dirty`, `max_fd` are the fields of the same
names.  Every access of `tcp_connect_mark_write`/`_unmark_write` and
`event_loop_update_channel` to the mask is a step: load and store of the mask,
the callback, the first read outside `fd_mtx`, then inside it mask := all, clear
the bits, mask := what was read, set the bits.  `RemoveFdBegins` and
`RemoveFdEnds` are the two halves of `event_loop_remove_fd`.  `Select` computes
`max_fd` when it is dirty and reports any subset of what it was given; it fails,
reporting nothing, if one of the descriptors is closed.  `Visit`, `CallsChannel`,
`SkipsKind` and `CallbackReturns` are the loop of `event_io_poll`.
`MapRemove` removes the last channel if none has the descriptor: that is what
`_map_find` and its caller do.

What callers owe, each a conjunct of an action: no two calls on a channel are in
progress while it is removed or freed (`NotInUse`); a callback does not remove
the next channel of the walk (`MayUnlist`); it does not delete its own channel
while more events of it were reported, unless `RemovesOwn`; no channel is removed
that is not listed (`RemoveChannel`); only the loop's thread marks, unless
`SharesChannels`.  `AddChannelFails` is the path on which the list finds no memory.

`select` reads the sets while other threads may change them; the code holds
`fd_mtx` over the whole poll, so `Select` and the walk are inside it.  A poll that
reports nothing leaves no trace and is one step.

### BufferPipe

`data` is the block, a function of the offsets; `Memmove` is the library's.  The
bytes added by `realloc` are `Junk`, so that reading a byte that nobody wrote
shows.  `got` and `ret` are what the last call handed out.  All memory operations
of one call are one step: a pipe belongs to one connection, and is used by the
handlers of one loop.

### TcpConnect

`OnRead` and `OnWrite` are the events that the poll reports; a read event may come
when nothing can be read, because `select` reported it for an older connection
with the same descriptor.  A read event is the
loop of `_tcp_connec_on_read`: `Recv` until there is nothing (`RecvStops`), then
`OnClientRead` once if data came, then `EndRead`, which deletes the connection if
`need_close` is still set.  A write event is the loop of `tcp_connect_write`:
`TakeChunk` and `Send`, whose disjuncts are what `send` can return.  `inbox` and
`room` are the two buffers of the socket, `wire`, `sent`, `taken`, `answered`,
`lost` and `deletes` are history.  A byte stands for a whole word or a newline, so
that segments and chunks are cut at every place that matters; `\r` and other words
than ping and exit are left out, an empty line stands for those.

A line fits in the buffer of `_on_client_read`: that restricts the model, since the
client chooses how long its lines are.  What the handler does with longer ones is
not modelled.

### LinkedList

`prev`, `next`, `data`, `head`, `tail` and `length` are the fields of the same
names; `alive` is the nodes allocated, and addresses are used again after they are
freed.  `order` is history: the sequence that the operations ask for, in which a
node is inserted before or behind another one, or from which it is removed.
Linking and unlinking are a step each, since nobody else looks at the list
meanwhile ("non-thread safe", `src/src/common/list.h:9`); a search takes a step
for every node.  What callers owe is `Positions`: the position given is a node of
the list, or `NULL` for an empty one.

### Kqueue

`slots` is `eio->events`; a free slot has the descriptor -1.  `AddFd` fills the
first free slots and submits the table, of which `Submit` (external) takes what
`kevent` would: the longest prefix of changes that are all accepted, each by what
the ones before it have made (`After`); it ends at a free slot at the latest.
`RemoveFd` overwrites the first slot of the descriptor for each kind in turn.
`knotes` is what the kernel watches, with the channel to be told; closing a
descriptor removes them.  `AddChannel`, `RemoveChannel` and `MarkWrite` are the
loop's functions around these two as the repository calls them, `RemoveEvents` is
`event_loop_remove_fd`, which it never calls, with the events `Masks`; each happens
inside `fd_mtx` and so in one step.  `Deliver` hands an event to its channel,
`calling` is the callback that runs then and may make all of these calls; with
`EV_EOF` no callback runs, since no channel has one for closing.

`RemoveChannel` is also `tcp_connect_delete`, which removes a connection with its
read and error events, and with its write event if it is marked.  `RemoveFd` then
gives one slot back and leaves the others, with the freed channel in them.  `spoilt`
is the channels that left a slot behind, `starved` those that found no free slot,
`uneven` those that were treated in a way that can leave one.  Callers owe that a
channel is not freed while an event of it is left in the poll (`MayFree`) and that
what they remove is listed.

### LoopPool and Server

`event_loop_pool_next` is `LockPool`, `ReadLoop`, `Advance`, `Wrap`, `UnlockPool`:
between `Advance` and `Wrap` the index may be outside the array.  `DeletePool`
stops no thread: the code passes a loop where the address of one is expected, and
a loop without timers then looks like none.

`main` is the place of the main thread in `_run_server`, with every failure of the
start; `client[c]` follows a client from the backlog of the socket to the list of
a loop; `pc[l]` is what the thread of loop `l` does: `poll` and the steps of
accepting, `next` (the pool), `create` (`tcp_connect_create`), `add` (waiting for
the `fd_mtx` of the other loop), `list` (inside it).  All of them run inside its own
`fd_mtx`.  `Callback` is a connection that deletes itself.  `CreateFails` is what
happens without memory, including the crash of `tcp_connect_delete` on a
connection without channel; `CloseServer` is the crash of `tcp_server_close`, which
passes the descriptor where its address is expected.

## 3. What the runs show

| run | states | result |
|---|---|---|
| `loop` | 38,006 | locks paired; no circular wait, with callbacks that call only down an order of the loops; deletion quiet; `AsyncCalls` implemented; jobs are called; API calls and deletion return and a loop keeps polling, also with one job that adds itself again and again, until two such jobs wait in one list |
| `timers` | 165,083 | sorted, nothing that was listed is lost, nothing fires again, nothing due is skipped, saved nodes are listed; a timer fires or is removed, late by no more than a poll and the slow code; passes end |
| `channels_safety` | 1,598,065 | sets follow masks, also for closed descriptors, `max_fd` covers, the walk is safe, every event is served, other channels stay, marks take effect |
| `channels_own_removal` | violated | a callback that deletes its own channel with another event left |
| `channels_shared` | violated | the loop's thread unmarks a connection between the two statements with which another thread marks it: the callback is set, the mask does not ask for write events |
| `pipe` | 2,152 | a pipe is a `ByteQueue`, inside its block, and what was read can be put back |
| `tcp` | 262,542 | answers reach the socket in order and once, unless a chunk is dropped on EAGAIN; no input is lost while the connection lives; it is deleted once; answers leave; a client that closes is let go |
| `tcp_two_lines` | violated | of two pings that arrive together the second is not answered |
| `list` | 8,472 | the pointers are those of a sequence; searches are exact |
| `kqueue` | 676,226 | what no left slot precedes is watched, also in a full table; all that is asked for is, until a channel leaves a slot behind or finds none; events on descriptors for which nothing was left reach their owner; what leaves no slot behind |
| `kqueue_closed` | violated | the slot that a removed connection leaves behind keeps a later one from being watched for writing |
| `server` | 29,662 | loops are handed out in turn; a listed connection is complete; every client is served |

A "violated" run shows a disagreement of the code with its own documentation or
comments; `PROJECT.json` quotes both under "findings".  The other runs hold under
the obligations and hypotheses named above.  Every property of them fails when one definition is
replaced by the mutant written next to it (a lock left out, an operand swapped, a
next node read at the wrong time), so none of them holds by the shape of the
model.

### Bounds

* `loop`: two loops are the fewest with a lock order; the application thread uses
  and deletes the upper one, whose callbacks use the lower one.  There are two jobs
  and one call per callback.  Other threads and events add a job while fewer than two
  are in a list (`MaxJobs`), a job that runs adds itself at any length, so that lists
  of three occur: the one that runs, another, and the one it adds.  Without the
  exception for `Crowded` lists TLC finds `KeepsPolling` violated on these bounds.
  The theorems need none of them.
* `timers`: three timers are the fewest for a node, a saved next and another one
  that moves; interval 0 gives timers that are due at once, 2 is longer than the
  poll; code is slow for two ticks in all, as long as an interval.
* `channels_safety`: three channels, two of them with the same descriptor one
  after the other, and one application thread besides the loop's.  That is a
  walk with a current, a next and a last channel, and a descriptor that is reused
  while the pass is going on.
* `tcp`: six bytes from the client are three pings or two pings and an exit; chunks
  of two bytes and a socket with room for two give full, partial and refused sends
  with more waiting in the pipe.
* `pipe`: chunks of up to three bytes of two values, a pipe of up to five, a
  bucket of one byte instead of 4096: growing, moving and overlapping all happen.
* `list`: four nodes have a first, a last and two in between; two values of data
  give neighbours with the same data.
* `kqueue`: a connection and a listening channel with the same descriptor, in either
  order, and a listening channel with another; five slots instead of `FD_SETSIZE` are
  enough for what a removed connection leaves, the next owner of its descriptor and a
  third channel, and few enough to be full after a mark; `event_loop_remove_fd` is
  called for the error event and for the read and error events.  All states are
  explored, those after the table was full included.  `kqueue_closed` has a second
  connection instead of the third channel, and six slots, so that it finds room.  The
  theorems need none of these.
* `server`: two loops, so that the one that accepts puts connections into its own
  list and the other's; three clients and one more thread take every loop twice.

`CHECK_DEADLOCK FALSE` is set where the system may stop: all loops deleted, the
loop of the timers stopped, all channels freed, the main thread failed or crashed.

### Fairness

A thread that can step does (`WF` on the steps of a loop's thread that do not
wait, which includes that user callbacks return).  A step that waits for a mutex
has `SF`: POSIX does not promise it, but without it a thread that unlocks and
locks again could starve every other one, in any program.  Nothing is assumed of
the application: it need not call anything.  In `TimerList` the clock moves on
(`SF` on `Tick`) and an application thread gets the mutex.  In `TcpConnect` an event that is due
again and again is reported (`SF` on `OnRead` with something to read and on
`OnWrite`: a poll looks at both kinds of a channel before it polls again), and the
client reads what it is sent.  In `Server` every thread goes on and gets a mutex
that is free again and again, and a poll reports the listening descriptor while a
client waits; clients need not come.

### Known not to hold

Further facts were met while modelling and follow from the guards named here.

* Two jobs in one list that each add themselves again keep `_job_proc` going for
  ever, since each is listed behind the other before the other returns.  Then the loop
  polls no more, and who waits for its `job_mtx`, or for it to be deleted, waits for
  ever (`KeepsPolling`, `CallsReturn`, both by `Crowded`).  The same job added twice is
  enough.
* A job, or a timer, for whose node there is no memory is not listed although
  `event_loop_add_job` reports success and `event_loop_add_timer` gives an id: it is
  never called and not found (`Effect`, `Add`; the properties are about what was
  listed).
* Two loops whose jobs add jobs to each other can wait for each other for ever, each
  with its `job_mtx` locked (`CallsReturn`, `NoCircularWait`).  So could two loops
  that both accept, each with its `fd_mtx` locked, if a server had two listening
  channels (`ClientsServed`).
* With callbacks that are as slow as their intervals for ever, forever timers keep
  `_timer_proc` going, because it reads the clock again for each timer (`PassesEnd`).
* A callback that removes its own timer, or the next one, leaves the pass with a
  freed node (`SavedNodesListed`, with `RemovesSaved = TRUE`).
* Removing a channel that is not listed, as `tcp_connect_delete` does after
  `event_loop_remove_fd` has unlisted it, removes the last channel of the list
  (`OthersStay`, guard of `RemoveChannel`).
* With kqueue every connection that `tcp_connect_delete` removes leaves slots behind,
  since only one of those for its events is given back, and every mark and unmark
  takes more slots than it gives back.  While the
  table still has room, a slot that was left makes `kevent` refuse all changes behind
  it as soon as its descriptor is closed (`AskedIsWatched`, by `spoilt`;
  `PongsCanLeave`).  When its descriptor is used again it is accepted again, and the
  freed channel in it is told of events: add a connection, delete it, add a channel
  with the same descriptor and poll (`EventsReachOwners`, by `CleanFds`).  In a long
  life the table fills up, and what is asked for after that is not watched
  (`AskedIsWatched`, by `starved`).  A connection unmarked for writing may still be
  told of write events, for which it has no callback then; and nothing is called at
  the end of a client's input, as no close callback is set.

## 4. What is proved

`EventLoopProof`, for all sets of loops, threads and jobs, all `MayCall` and all
bounds, from `EventLoopAssumption` (types of the constants, and names that do not
clash):

* `TypesHold`, `LocksArePaired`, `DeleteIsQuiet`: the invariants `TypeOK`,
  `LockDiscipline`, `QuietAfterDelete`.
* `JobListIsGuarded`: the action property `JobListGuarded`.
* `AsyncCallsImplemented`: refinement of `AsyncCalls`.
* `NoDeadlock`: `NoCircularWait`, if there is a well-founded order `Below` of the
  loops such that callbacks call only their own loop or loops below it.  Two
  loops whose jobs call each other show that the hypothesis is needed.

The inductive invariant is `TypeOK /\ LockInv /\ CallInv /\ JobInv /\ LifeInv`.
`LockDiscipline` alone is not inductive: unlocking at depth 1 must free the mutex
(`LockInv`: an owner exactly while the depth is positive), and a thread must not be
inside a section without being in the pass it belongs to (`CallInv`).  `JobInv`
says that the saved node is the head and that a saved next exists: it is why
removing the head removes the job that ran.  `LifeInv` says who may still use a
loop that is being deleted.  The lemmas follow what an action does to the mutexes
(`MutexLocked`, `MutexUnlocked`, `MutexesKept`) and to the passes; `Inductive`
puts one case per action on them.  For `NoDeadlock`, a waiting thread that is in a
pass of loop `l` waits for the thread of a loop below `l` (`WhoWaits`), a waiting
application thread waits for a loop's thread, so a set of threads that wait only
for each other would have no minimal loop.

`BufferPipeProof`, for all bytes, chunks and lengths, from `BufferPipeAssumption`:

* `PipeIsSafe`: `TypeOK`, `HoldsBytes`, `RoomToPutBack`; the three together are
  inductive.
* `ByteQueueImplemented`: refinement of `ByteQueue`, from one lemma per operation
  (`WriteAppends`, `WriteHeadPrepends`, `ReadTakes`) that says what the moves in
  the block do to the bytes held.

`ServerProof`, for any number of loops, any threads and any clients, from
`LoopPoolAssumption` and `ServerAssumption`:

* `PoolHandsOutInTurn`: `PoolSpec => []InTurn`.  The inductive invariant says what
  each place in `event_loop_pool_next` knows: one thread at most is past the lock, the
  index is inside the array but between `Advance` and `Wrap`, and the loops below
  the index have had exactly one turn more than the others.
* `ServerUsesPool`: `Spec => PoolSpec`; every step of the server is a step of the
  pool or leaves it alone, so the first theorem holds in the server, which is
  `ServerSpreadsClients`.
* `ServerListsReady`: `ReadyWhenListed`; what is set by then does not include the close
  callback, which `tcp_connect_mark_read` writes elsewhere (tcp_connect.c:197).

`LinkedListProof`, for any nodes and data, from `LinkedListAssumption` (`NULL` is
neither):

* `ListIsWellLinked`: `WellLinked`.
* `SearchesAreExact`: the action property `SearchIsExact`.

The inductive invariant (`InvHolds`) is `TypeOK /\ WellLinked /\ SearchInv`.
`SearchInv` says that a search is at a node of the list and that no node before it
holds the data: without it the node that a removal finds and frees might not be in
the list.  `Places` restates `WellLinked` by place in the sequence; `Inserted` and
`Removed` show once that a node put between two places, or taken out, leaves the
pointers right, and each operation is one of the two (`LinksBefore`, `LinksAfter`)
or touches no pointer.

`TimerListProof`, for any finite set of application threads, any intervals and any
bounds, from `TimerListAssumption` (the poll's longest wait, which the code sets to
10 ms, is positive):

* `TypesHold`, `ListStaysSorted`, `NoTimerReturns`, `ForeverTimersStay`,
  `PassNodesStay`, `TimersArePunctual`: the invariants `TypeOK`, `Sorted`,
  `GoneStaysGone`, `ForeverStaysListed`, `SavedNodesListed`, `Punctual`.
* `PassSkipsNothing`: the action property `NothingDueIsSkipped`.

All have the hypothesis that callbacks spare the timer that fires and the one after
it (not `RemovesSaved`).  So `PassNodesStay` is about what the callbacks add, what else
they remove and what other threads do; and `ForeverTimersStay` is about timers that
were listed, since an id may have been given for one that had no memory.

The invariants hold each other up, so the inductive one is all of them with what
the pass knows.  `Given`: ids in the list were given, and there are enough left for
the timers being added.  `ForeverKept`: forever timers are listed during a pass too.
`Saved`: the node that fires is listed, the next one is another one and listed.
`Walked`: a timer that the pass has left behind was listed after it began; that is
what makes `NothingDueIsSkipped` true, since the list is sorted and so an earlier
deadline means further ahead.  `Timely`: how late a timer can be at each place of the
thread, and that timers listed during the pass are late by slow code only.  The lemmas
`Inserted`, `Removed`, `AddList` and `RemoveList` say what inserting and removing do to a
sorted list; the other lemmas take the actions in turn.

`ChannelPollProof`, for any channels, descriptors, threads and masks, from
`ChannelPollAssumption`.  Whatever the constants:

* `TypesHold`, `EventsAreServed`: the invariants `TypeOK`, `EventsServed`.
* `OthersStayListed`: the action property `OthersStay`.

The inductive invariant is `Types /\ Lists /\ Locks /\ Walk /\ Dues`.  `Lists`: listed
channels are open and open ones have different descriptors, so that the search of
`event_channel_map_remove` finds the channel it was called for (`RemovedByFd`).
`Locks`: who is in a stage inside `fd_mtx` owns it, so nobody but the thread of the
loop, in a callback, unlists channels during a pass, and never the next one
(`UnlistsInPass`).  `Dues`: an event that was reported and is neither delivered nor
void belongs to a listed channel that still has its callback, and lies ahead of the
pass: in the kinds left of the channel it looks at, or at a channel not before the
one saved.  `ListSteps` says what any step does to the order of the list.

With a hypothesis on the callers.  `channels_own_removal` shows that it is needed for
`WalkIsSafe`.  On the bounds of `channels_shared` TLC finds `MarksTakeEffect` violated as
well, `SetsMatchMasks` and `MaxFdCovers` only if the other thread may also call
`event_loop_remove_fd`.

* `WalkStaysSafe`, if not `RemovesOwn`: `WalkIsSafe`.  Added to the invariant is
  `Alive`: the channel of a callback is open or has no events left.
* `SetsAreThoseOfMasks`, `MaxFdAlwaysCovers`, `MarksTakeTheirEffect`, if not
  `SharesChannels`: `SetsMatchMasks`, `MaxFdCovers`, and the action property
  `MarksTakeEffect`.  Added are `OnlyL` (only the thread of the loop has calls in
  progress), `Bits` (the bits of the channel of a call, stage by stage; those of all
  others are their masks) and `Marked` (the same for the interest in writing).

`TcpConnectProof`, for any lengths of buffers and any bytes of the client, from
`TcpConnectAssumption`:

* `AnswersStayIntact`, `InputStaysIntact`, `AnswersStayMarked`, `DeletedAtMostOnce`:
  `AnswersIntact`, `InputIntact`, `AnswersAwaitWrite`, `DeletedOnce`.

Besides these the inductive invariant says that a handler runs on a connection that
is allocated (`Allocated`), that a write event was asked for all the time a chunk is
in hand (`Marked`, `HandInv`), and that the input is intact inside the handlers too,
until they are about to close (`Intact`).  `Cut`, `CutBuffer` and `LineCut` say that
what is cut from a sequence and what is left of it are the sequence.

`KqueueProof`, for any channels, descriptors, number of slots and of events in a
poll, from `KqueueAssumption`:

* `FrontStaysWatched`, `AskedStaysWatched`, `SlotsStayThoseOfMasks`,
  `EventsStayWithOwners`: the invariants `FrontIsWatched`, `AskedIsWatched`,
  `SlotsMatchMasks`, `EventsReachOwners`.

None has a hypothesis about the callers; what each is about is in the property, as a
condition on the history.  The inductive invariant is `Typed /\ Tracked /\ CleanNotes
/\ Fronts /\ Counted`, with `AllWatched` until a channel finds no free slot (`starved`) or
leaves one behind (`spoilt`), and with nothing left behind until a channel is starved or
treated unevenly.  `Tracked`: a slot that is taken adds an event of an open channel, or
its channel is in `spoilt`.  `CleanNotes`: what is watched or reported on a descriptor
for which nothing was left is of its open channel.  `Fronts`: in front of the first slot
that is free or was left, what a slot asks for is watched; it is kept because the kernel
takes at least these changes each time the table is submitted, and none behind them
that it takes is of the same descriptor.  `AllWatched` is not inductive without
`Tracked`: up to the first free slot all changes are then those of open descriptors, so
that an addition is never refused.  `Counted`: a channel that is neither starved nor
uneven has as many slots as events, so that it gives back the last one with its last
event.  The lemmas first count the slots that `Fill` takes and say what `Submit`, `AddFd`
and `RemoveFd` do to a table; the others take the actions in turn.

`DeadlinesAreIntegers` of `TimerListProof` relates `Timespec` to `TimerList`, for all
seconds and nanoseconds: a deadline set from the clock has its interval left, less
the time since the clock was read, stays normalised, and `_timer_compare` orders what
is left.  Its numbers are too large for TLC's integers, and it has no run.

`BytesStayInside` of `BufferPipeProof` states `HoldsBytes` by itself.

Each inductive invariant was first checked by TLC on the bounds of the component's
run, with everything it consists of.

Only model-checked:

* liveness (`JobsAreCalled`, `KeepsPolling`, `CallsReturn`, `TimersFire`,
  `PassesEnd`, `AnswersLeave`, `EofDeletes`, `ClientsServed`): out of the prover's
  reach.  Every invariant and every action property of a passing run is a theorem.

## 5. What is not modelled, and why

* Options, the console, the empty client and the output of `pingpong.c`; socket
  options and address conversion in `net.c`.  They keep no state that another part
  reads.
* Widths: lengths of a pipe and times are natural numbers; `size_t` and `time_t`
  do not wrap for values that fit in memory or in a life time.
* `list_create` failing in `event_loop_create`, whose result is not looked at.
* The kqueue backend with threads between its accesses: what they can do is in
  `ChannelPoll`, whose step by step marks are those of both backends.
* What the pass over the timers does with a node that its own callback has freed, and
  what the handler of the server does with a line longer than its buffer.
* `event_channel_clone` and `_copy`, which share pipes between channels and are
  called nowhere; `tcp_connect_mark_read`, which writes through a pointer of the
  wrong type.

## 6. Plan

Built first, because everything else runs inside it: `EventLoop` with its proofs,
then `TimerList`, `ChannelPoll`, `BufferPipe` with its proofs, `TcpConnect`; after
them `LinkedList` with its proofs, `Kqueue`, `LoopPool` and `Server` with its
proofs; then the proofs of `TcpConnect`, `TimerList` and `ChannelPoll`; last those of
`Kqueue`, and `Timespec`.  What is left is listed in section 5; liveness stays with
TLC.

The runs are kept few, one per question.
