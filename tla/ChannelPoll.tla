------------------------------ MODULE ChannelPoll ------------------------------
(***************************************************************************)
(* The channels of one event loop: the list of channels                    *)
(* (src/src/event_channel_map.c), the descriptor sets of the select        *)
(* backend (src/src/event_io_select.c), the mask and the callbacks of each *)
(* channel (src/src/event_channel.c), and the API that changes them        *)
(* (src/src/event_loop.c).                                                 *)
(*                                                                         *)
(* The loop's thread L holds fd_mtx while it polls and while it calls the  *)
(* callbacks of the channels; application threads, and L in its jobs and   *)
(* timers, call the API in between.  tcp_connect_mark_write and            *)
(* tcp_connect_unmark_write touch the channel without fd_mtx, and          *)
(* event_loop_update_channel reads its mask before it locks: each of these *)
(* accesses is a step.                                                     *)
(***************************************************************************)
EXTENDS Integers, SequencesExt

CONSTANTS
  Channels,         \* channels that may be created; none is created twice
  FdOf,             \* the descriptor of a channel; closed descriptors are reused
  L, Apps, None,
  Masks,            \* masks given to event_loop_remove_fd
  RemovesOwn,       \* whether a callback deletes its channel with events left
  SharesChannels    \* whether other threads than L mark channels for writing

Kinds == {"read", "write", "error"}
Fds == {FdOf[c] : c \in Channels}
Actors == {L} \cup Apps

ASSUME ChannelPollAssumption ==
  /\ FdOf \in [Channels -> Nat]
  /\ L \notin Apps /\ None \notin Channels \cup Actors
  /\ Masks \subseteq SUBSET Kinds
  /\ {RemovesOwn, SharesChannels} \subseteq BOOLEAN

VARIABLES
  ec_map,   \* the channels listed, the oldest first
  life,     \* per channel: "none", "open" or "freed"
  mask,     \* per channel: the events it asks for
  procs,    \* per channel: the events that have a callback
  fds,      \* per kind of event: the descriptors given to select
  is_dirty, max_fd,  \* whether max_fd is to be computed again, and its value
  fd_mtx,   \* the thread inside fd_mtx, or None
  call,     \* per thread: its call of mark, unmark or remove_fd
  pc, kind, \* what L does, and for which kind of event
  cur,      \* the channel the pass looks at, or None
  next,     \* the one after it, saved before the callbacks
  back,     \* per kind of event: the descriptors that select reported
  due       \* history: events reported, neither delivered nor made void yet

ioVars   == <<fds, is_dirty, max_fd>>
chanVars == <<life, mask, procs>>
passVars == <<pc, kind, cur, next, back>>
vars == <<ec_map, chanVars, ioVars, fd_mtx, call, passVars, due>>

NoCall == [op |-> "none", c |-> None, at |-> "none", old |-> {}]
NoEvents == [k \in Kinds |-> {}]

Init ==
  /\ ec_map = <<>>
  /\ life = [c \in Channels |-> "none"]
  /\ mask = [c \in Channels |-> {}] /\ procs = [c \in Channels |-> {}]
  /\ fds = NoEvents /\ is_dirty = TRUE /\ max_fd = -1
  /\ fd_mtx = None
  /\ call = [a \in Actors |-> NoCall]
  /\ pc = "idle" /\ kind = "read" /\ cur = None /\ next = None
  /\ back = NoEvents /\ due = {}

-------------------------------------------------------------------------------
(* The list of channels, and the descriptor sets. *)

Listed(c) == c \in Range(ec_map)
At(c) == CHOOSE n \in DOMAIN ec_map : ec_map[n] = c
Following(c) == IF At(c) < Len(ec_map) THEN ec_map[At(c) + 1] ELSE None

\* event_channel_map_add
MapAdd(c) == Append(ec_map, c)

\* Mutant of MapRemove: the search is left out, and the last channel removed.
MapRemoveLast(fd) == IF ec_map = <<>> THEN ec_map ELSE Front(ec_map)

\* event_channel_map_remove: _map_find leaves *nodep at the last node when no
\* channel has the descriptor.
MapRemove(fd) ==
  LET n == SelectInSeq(ec_map, LAMBDA c : FdOf[c] = fd)
  IN  IF ec_map = <<>> THEN ec_map
      ELSE IF n = 0 THEN Front(ec_map) ELSE RemoveAt(ec_map, n)

\* event_channel_map_get_max_fd
MaxFd(s) == Max({-1} \cup {FdOf[c] : c \in Range(s)})

\* Mutant of SetBits: max_fd is not computed again.
SetBitsKeepsMax(c, kinds) ==
  /\ fds' = [k \in Kinds |-> IF k \in kinds THEN fds[k] \cup {FdOf[c]} ELSE fds[k]]
  /\ UNCHANGED <<is_dirty, max_fd>>

\* event_io_add_fd, for a channel whose mask is kinds.
SetBits(c, kinds) ==
  /\ fds' = [k \in Kinds |-> IF k \in kinds THEN fds[k] \cup {FdOf[c]} ELSE fds[k]]
  /\ is_dirty' = TRUE /\ UNCHANGED max_fd

\* event_io_remove_fd, for a channel whose mask is kinds.
ClearBits(c, kinds) ==
  /\ fds' = [k \in Kinds |-> IF k \in kinds THEN fds[k] \ {FdOf[c]} ELSE fds[k]]
  /\ is_dirty' = TRUE /\ UNCHANGED max_fd

-------------------------------------------------------------------------------
(* Who may call, and the mutex. *)

InPass == pc # "idle"

\* Mutant of CanLock: the lock is not taken.
CanLockAlways(a) == TRUE

\* fd_mtx is recursive.
CanLock(a) == fd_mtx \in {None, a}

\* pthread_mutex_unlock, in a section of its own or inside the pass.
Unlock(a) == fd_mtx' = IF a = L /\ InPass THEN L ELSE None

\* L calls from a callback, or from a job or a timer.
MayCall(a) == call[a] = NoCall /\ (a = L => pc \in {"idle", "callback"})

\* No other call on the channel is in progress: its callers see to that.
NotInUse(c) == \A a \in Actors : call[a].c # c

\* The kinds that the pass looks at after this one.
LaterKinds(k) == CASE k = "read" -> {"write", "error"} [] k = "write" -> {"error"} [] OTHER -> {}
Reported(c, k) == FdOf[c] \in back[k]

\* What callbacks must not do unless the constants say so: delete the channel
\* they were called for while it has events left, or the next one.
MayFree(c) ==
  InPass /\ c = cur =>
    pc = "callback" /\ (RemovesOwn \/ \A k \in LaterKinds(kind) : ~Reported(c, k))
MayUnlist(c) == InPass => c # next

Go(a, at) == call' = [call EXCEPT ![a].at = at]
Doing(a, at) == call[a].at = at
\* The channel's memory is gone, and what it held with it.
FreeMemory(c) ==
  /\ life' = [life EXCEPT ![c] = "freed"]
  /\ mask' = [mask EXCEPT ![c] = {}] /\ procs' = [procs EXCEPT ![c] = {}]

Forget(c) == due' = {d \in due : d[1] # c}

-------------------------------------------------------------------------------
(* The API. *)

\* tcp_connect_create, or the same by hand: a channel for a new descriptor,
\* which asks for read and error events, is added to the loop.
AddChannel(a, c) ==
  /\ MayCall(a) /\ CanLock(a)
  /\ life[c] = "none"
  /\ \A d \in Channels : FdOf[d] = FdOf[c] => life[d] # "open"
  /\ life' = [life EXCEPT ![c] = "open"]
  /\ mask' = [mask EXCEPT ![c] = {"read", "error"}]
  /\ procs' = [procs EXCEPT ![c] = {"read"}]
  /\ ec_map' = MapAdd(c)
  /\ SetBits(c, {"read", "error"})
  /\ UNCHANGED <<fd_mtx, call, passVars, due>>

\* event_channel_map_add finds no memory: the caller closes the descriptor and
\* frees the channel.
AddChannelFails(a, c) ==
  /\ MayCall(a) /\ CanLock(a)
  /\ life[c] = "none"
  /\ FreeMemory(c)
  /\ UNCHANGED <<ec_map, ioVars, fd_mtx, call, passVars, due>>

\* event_loop_remove_channel, and the caller closes the descriptor and frees the
\* channel, as in tcp_connect_delete.  It owes that the channel is listed.
RemoveChannel(a, c) ==
  /\ MayCall(a) /\ CanLock(a) /\ NotInUse(c)
  /\ life[c] = "open" /\ Listed(c)
  /\ a = L => MayFree(c) /\ MayUnlist(c)
  /\ ClearBits(c, mask[c])
  /\ ec_map' = MapRemove(FdOf[c])
  /\ FreeMemory(c)
  /\ Forget(c)
  /\ UNCHANGED <<fd_mtx, call, passVars>>

\* event_loop_remove_fd: the mask is m for a while, so that the bits of m are
\* cleared.
RemoveFdBegins(a, c, m) ==
  /\ MayCall(a) /\ CanLock(a) /\ NotInUse(c) /\ Listed(c)
  /\ a = L \/ SharesChannels
  /\ a = L /\ mask[c] \subseteq m => MayUnlist(c)
  /\ call' = [call EXCEPT ![a] = [op |-> "remove_fd", c |-> c, at |-> "remove", old |-> mask[c] \ m]]
  /\ mask' = [mask EXCEPT ![c] = m]
  /\ fd_mtx' = a
  /\ UNCHANGED <<ec_map, life, procs, ioVars, passVars, due>>

\* Then the mask is what is left of it, and an empty one unlists the channel.
RemoveFdEnds(a) ==
  LET c == call[a].c
      rest == call[a].old
  IN  /\ Doing(a, "remove")
      /\ ClearBits(c, mask[c])
      /\ mask' = [mask EXCEPT ![c] = rest]
      /\ ec_map' = IF rest = {} THEN MapRemove(FdOf[c]) ELSE ec_map
      /\ due' = {d \in due : d[1] = c => d[2] \in rest}
      /\ call' = [call EXCEPT ![a] = NoCall]
      /\ Unlock(a)
      /\ UNCHANGED <<life, procs, passVars>>

\* event_loop_remove_fd said is_delete: the caller frees the channel.
FreeChannel(a, c) ==
  /\ MayCall(a) /\ NotInUse(c)
  /\ life[c] = "open" /\ ~Listed(c) /\ MayFree(c)
  /\ FreeMemory(c)
  /\ UNCHANGED <<ec_map, ioVars, fd_mtx, call, passVars, due>>

\* tcp_connect_mark_write and tcp_connect_unmark_write: event_channel_add_mask
\* or event_channel_remove_mask loads the mask
Mark(a, c, op) ==
  /\ MayCall(a) /\ Listed(c)
  /\ a = L \/ SharesChannels
  /\ call' = [call EXCEPT ![a] = [op |-> op, c |-> c, at |-> "store", old |-> mask[c]]]
  /\ UNCHANGED <<ec_map, chanVars, ioVars, fd_mtx, passVars, due>>

\* and stores it;
StoreMask(a) ==
  LET old == call[a].old
  IN  /\ Doing(a, "store")
      /\ mask' = [mask EXCEPT ![call[a].c] =
                    IF call[a].op = "mark" THEN old \cup {"write"} ELSE old \ {"write"}]
      /\ Go(a, "proc")
      /\ UNCHANGED <<ec_map, life, procs, ioVars, fd_mtx, passVars, due>>

\* Mutant of StoreProc: unmarking leaves the callback.
StoreProcKeeps(a) ==
  LET c == call[a].c
      marks == call[a].op = "mark"
  IN  /\ Doing(a, "proc")
      /\ procs' = [procs EXCEPT ![c] = @ \cup {"write"}]
      /\ due' = IF marks THEN due ELSE due \ {<<c, "write">>}
      /\ Go(a, "origin")
      /\ UNCHANGED <<ec_map, life, mask, ioVars, fd_mtx, passVars>>

\* event_channel_set_write_proc;
StoreProc(a) ==
  LET c == call[a].c
      marks == call[a].op = "mark"
  IN  /\ Doing(a, "proc")
      /\ procs' = [procs EXCEPT ![c] = IF marks THEN @ \cup {"write"} ELSE @ \ {"write"}]
      /\ due' = IF marks THEN due ELSE due \ {<<c, "write">>}
      /\ Go(a, "origin")
      /\ UNCHANGED <<ec_map, life, mask, ioVars, fd_mtx, passVars>>

\* event_loop_update_channel: the mask is read,
ReadOrigin(a) ==
  /\ Doing(a, "origin")
  /\ call' = [call EXCEPT ![a].at = "lock", ![a].old = mask[call[a].c]]
  /\ UNCHANGED <<ec_map, chanVars, ioVars, fd_mtx, passVars, due>>

\* Mutant of MaskAll: the mask stays, so the bits it lost are not cleared.
MaskKept(a) ==
  /\ Doing(a, "lock") /\ CanLock(a)
  /\ fd_mtx' = a
  /\ Go(a, "clear")
  /\ UNCHANGED <<ec_map, chanVars, ioVars, passVars, due>>

\* fd_mtx is locked, and the mask is everything
MaskAll(a) ==
  /\ Doing(a, "lock") /\ CanLock(a)
  /\ fd_mtx' = a
  /\ mask' = [mask EXCEPT ![call[a].c] = Kinds]
  /\ Go(a, "clear")
  /\ UNCHANGED <<ec_map, life, procs, ioVars, passVars, due>>

\* while event_io_remove_fd clears the bits.
ClearAll(a) ==
  /\ Doing(a, "clear")
  /\ ClearBits(call[a].c, mask[call[a].c])
  /\ Go(a, "restore")
  /\ UNCHANGED <<ec_map, chanVars, fd_mtx, passVars, due>>

\* The mask is what was read before,
RestoreMask(a) ==
  /\ Doing(a, "restore")
  /\ mask' = [mask EXCEPT ![call[a].c] = call[a].old]
  /\ Go(a, "add")
  /\ UNCHANGED <<ec_map, life, procs, ioVars, fd_mtx, passVars, due>>

\* event_io_add_fd sets the bits, and fd_mtx is unlocked.
AddBits(a) ==
  /\ Doing(a, "add")
  /\ SetBits(call[a].c, mask[call[a].c])
  /\ call' = [call EXCEPT ![a] = NoCall]
  /\ Unlock(a)
  /\ UNCHANGED <<ec_map, chanVars, passVars, due>>

-------------------------------------------------------------------------------
(* event_io_poll, by L inside fd_mtx. *)

\* What select can report: descriptors of the sets, up to max_fd; it fails when
\* one of them is closed.
Reports(m) ==
  IF \E k \in Kinds : \E f \in fds[k] : f <= m /\ \A c \in Channels : FdOf[c] = f => life[c] # "open"
  THEN {NoEvents}
  ELSE {ev \in [Kinds -> SUBSET Fds] : \A k \in Kinds : ev[k] \subseteq {f \in fds[k] : f <= m}}

\* With no channel listed event_io_poll returns at once, and changes nothing.
Select ==
  LET m == IF is_dirty THEN MaxFd(ec_map) ELSE max_fd
  IN  /\ pc = "idle" /\ call[L] = NoCall /\ fd_mtx = None
      /\ ec_map # <<>>
      /\ is_dirty' = FALSE /\ max_fd' = m
      /\ \E ev \in Reports(m) :
           \/ /\ ev = NoEvents
              /\ UNCHANGED <<passVars, due, fd_mtx>>
           \/ /\ ev # NoEvents
              /\ back' = ev
              /\ due' = {d \in Range(ec_map) \X Kinds : FdOf[d[1]] \in ev[d[2]] /\ d[2] \in procs[d[1]]}
              /\ cur' = Head(ec_map) /\ pc' = "visit" /\ fd_mtx' = L
              /\ UNCHANGED <<kind, next>>
      /\ UNCHANGED <<ec_map, chanVars, fds, call>>

\* event_channel_map_get_next, before the callbacks.
Visit ==
  /\ pc = "visit" /\ Listed(cur)
  /\ next' = Following(cur)
  /\ pc' = "check" /\ kind' = "read"
  /\ UNCHANGED <<ec_map, chanVars, ioVars, fd_mtx, call, cur, back, due>>

\* Mutant of NextChannel: the next channel is read from the list again.
RereadsNext ==
  /\ pc' = IF Listed(cur) /\ Following(cur) # None THEN "visit" ELSE "idle"
  /\ cur' = IF Listed(cur) THEN Following(cur) ELSE None
  /\ IF pc' = "idle" THEN fd_mtx' = None /\ back' = NoEvents ELSE UNCHANGED <<fd_mtx, back>>
  /\ next' = None /\ kind' = "read"

\* The pass goes on with the channel saved, or is over.
NextChannel ==
  /\ cur' = next /\ next' = None /\ kind' = "read"
  /\ \/ next # None /\ pc' = "visit" /\ UNCHANGED <<fd_mtx, back>>
     \/ next = None /\ pc' = "idle" /\ fd_mtx' = None /\ back' = NoEvents

NextKind ==
  \/ /\ kind # "error"
     /\ kind' = IF kind = "read" THEN "write" ELSE "error"
     /\ pc' = "check"
     /\ UNCHANGED <<fd_mtx, back, cur, next>>
  \/ kind = "error" /\ NextChannel

\* FD_ISSET and event_channel_on_read, _on_write or _on_error of the channel,
\* which must not be freed; without a callback these do nothing.
Calls == Reported(cur, kind) /\ kind \in procs[cur]
CallsChannel ==
  /\ pc = "check" /\ Calls /\ life[cur] = "open"
  /\ pc' = "callback"
  /\ due' = due \ {<<cur, kind>>}
  /\ UNCHANGED <<ec_map, chanVars, ioVars, fd_mtx, call, kind, cur, next, back>>

SkipsKind ==
  /\ pc = "check" /\ ~Calls
  /\ NextKind
  /\ UNCHANGED <<ec_map, chanVars, ioVars, call, due>>

CallbackReturns ==
  /\ pc = "callback" /\ call[L] = NoCall
  /\ NextKind
  /\ UNCHANGED <<ec_map, chanVars, ioVars, call, due>>

-------------------------------------------------------------------------------
CallSteps(a) ==
  \/ RemoveFdEnds(a) \/ StoreMask(a) \/ StoreProc(a) \/ ReadOrigin(a)
  \/ MaskAll(a) \/ ClearAll(a) \/ RestoreMask(a) \/ AddBits(a)

Next ==
  \/ Select \/ Visit \/ CallsChannel \/ SkipsKind \/ CallbackReturns
  \/ \E a \in Actors :
       \/ CallSteps(a)
       \/ \E c \in Channels :
            \/ AddChannel(a, c) \/ AddChannelFails(a, c) \/ RemoveChannel(a, c) \/ FreeChannel(a, c)
            \/ \E m \in Masks : RemoveFdBegins(a, c, m)
            \/ \E op \in {"mark", "unmark"} : Mark(a, c, op)

Spec == Init /\ [][Next]_vars

-------------------------------------------------------------------------------
(* Properties. *)

TypeOK ==
  /\ ec_map \in Seq(Channels)
  /\ life \in [Channels -> {"none", "open", "freed"}]
  /\ mask \in [Channels -> SUBSET Kinds] /\ procs \in [Channels -> SUBSET Kinds]
  /\ fds \in [Kinds -> SUBSET Fds] /\ back \in [Kinds -> SUBSET Fds]
  /\ is_dirty \in BOOLEAN /\ max_fd \in Fds \cup {-1}
  /\ fd_mtx \in Actors \cup {None}
  /\ \A a \in Actors : call[a].c \in Channels \cup {None} /\ call[a].old \subseteq Kinds
  /\ pc \in {"idle", "visit", "check", "callback"} /\ kind \in Kinds
  /\ {cur, next} \subseteq Channels \cup {None}
  /\ due \subseteq Channels \X Kinds

\* While no call on a listed channel is in progress, select is given its
\* descriptor for exactly the events the channel asks for; and it is never given
\* a descriptor of no listed channel: a closed one makes each call of select
\* fail, so that no channel gets its events any more.
SetsMatchMasks ==
  /\ \A c \in Channels, k \in Kinds :
       Listed(c) /\ NotInUse(c) => (FdOf[c] \in fds[k] <=> k \in mask[c])
  /\ \A k \in Kinds : \A f \in fds[k] : \E c \in Range(ec_map) : FdOf[c] = f

\* The cached max_fd, when it is used, covers every descriptor that select is
\* given; one above it is never reported.
MaxFdCovers == ~is_dirty => \A k \in Kinds : \A f \in fds[k] : f <= max_fd

\* The pass never follows the list node of a channel that was removed, nor
\* calls a channel that was freed: not even the one whose callback just ran.
WalkIsSafe ==
  /\ pc = "visit" => Listed(cur)
  /\ pc = "check" /\ Reported(cur, kind) => life[cur] = "open"

\* When the pass is over, every event that select reported has been delivered to
\* the callback of its channel, or the channel was removed or unmarked.
EventsServed == ~InPass => due = {}

\* When the last call of mark or unmark on a channel returns, the channel asks
\* for write events if and only if it has the callback for them: the interest in
\* writing does not get lost, or data would wait for a write that never comes.
MarksTakeEffect ==
  [][\A a \in Actors :
       LET c == call[a].c
       IN  call[a].op \in {"mark", "unmark"} /\ c \notin {call'[b].c : b \in Actors}
             => ("write" \in mask'[c] <=> "write" \in procs'[c])]_vars


\* A channel leaves the list only when it is removed itself.
OthersStay ==
  [][\A c \in Channels : Listed(c) /\ c \notin Range(ec_map') =>
       \/ life'[c] = "freed"
       \/ \E a \in Actors : call[a].op = "remove_fd" /\ call[a].c = c]_vars
===============================================================================
