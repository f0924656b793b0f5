-------------------------------- MODULE Kqueue --------------------------------
(***************************************************************************)
(* The kqueue backend (src/src/event_io_kqueue.c): its table of changes,   *)
(* what the kernel keeps of them, and the events that a poll hands to the  *)
(* channels.                                                               *)
(*                                                                         *)
(* event_io_add_fd gives the kernel the whole table, free slots included.  *)
(* The kernel takes the changes in order and refuses the rest after the    *)
(* first that it cannot make: one of a free slot, of a closed descriptor,  *)
(* or the deletion of what it does not have.  event_loop_add_channel does  *)
(* not look at the result.                                                 *)
(*                                                                         *)
(* Everything happens inside fd_mtx, so that a call is a step; what can    *)
(* come between the accesses of two threads is ChannelPoll.                *)
(***************************************************************************)
EXTENDS Integers, FiniteSets, SequencesExt

CONSTANTS
  Channels,  \* channels that may be created; none is created twice
  Conns,     \* those of connections; the others listen
  FdOf,      \* the descriptor of a channel; closed descriptors are reused
  NSlots,    \* FD_SETSIZE, the length of the table
  MaxEvents, \* bound: events that a poll reports
  None,
  Masks      \* events that event_loop_remove_fd is called with; the repository
             \* never calls it

Kinds == {"read", "write", "error"}
Fds == {FdOf[c] : c \in Channels}

ASSUME KqueueAssumption ==
  /\ FdOf \in [Channels -> Nat] /\ Conns \subseteq Channels
  /\ NSlots \in Nat \ {0} /\ MaxEvents \in Nat
  /\ None \notin Channels /\ Masks \subseteq SUBSET Kinds

VARIABLES
  slots,    \* the table: eio->events
  knotes,   \* what the kernel watches: descriptor, kind, and channel to be told
  listed,   \* the channels of the loop
  life,     \* per channel: "none", "open" or "freed"
  mask,     \* per channel: the events it asks for
  procs,    \* per channel: the events that have a callback
  events,   \* events that kevent reported and the poll has not looked at
  calling,  \* the channel whose callback runs, or None
  starved,  \* history: channels that found no free slot
  uneven,   \* history: channels marked or unmarked for writing, or removed for
            \* several events, or for one not asked for, in one call
  spoilt    \* history: channels that left a slot behind

chanVars == <<listed, life, mask, procs>>
pollVars == <<events, calling>>
histories == <<starved, uneven, spoilt>>
vars == <<slots, knotes, chanVars, pollVars, histories>>

Free == [fd |-> -1, kind |-> "none", flag |-> "none", udata |-> None]

Init ==
  /\ slots = [i \in 1..NSlots |-> Free] /\ knotes = {}
  /\ listed = {} /\ life = [c \in Channels |-> "none"]
  /\ mask = [c \in Channels |-> {}] /\ procs = mask
  /\ events = {} /\ calling = None
  /\ starved = {} /\ uneven = {} /\ spoilt = {}

-------------------------------------------------------------------------------
(* The kernel: kqueue and kevent. *)

OpenFds == {FdOf[c] : c \in {d \in Channels : life[d] = "open"}}
Same(x, s) == x.fd = s.fd /\ x.kind = s.kind

Accepts(kn, s, open) ==
  /\ s.fd \in open
  /\ s.flag = "delete" => \E x \in kn : Same(x, s)

\* Adding what is there already changes the channel that is told.
Apply(kn, s) ==
  {x \in kn : ~Same(x, s)}
    \cup {x \in {[fd |-> s.fd, kind |-> s.kind, udata |-> s.udata]} : s.flag = "add"}

\* What the kernel has after the first n changes of a table.
After(table, n, kn) ==
  {x \in kn : \A i \in 1..n : ~Same(x, table[i])}
    \cup {[fd |-> table[i].fd, kind |-> table[i].kind, udata |-> table[i].udata] :
            i \in {j \in 1..n : /\ table[j].flag = "add"
                              /\ \A k \in (j + 1)..n : ~Same(table[j], table[k])}}

\* kevent with the whole table as its changes.
Submit(table, kn, open) ==
  After(table, Max({n \in 0..Len(table) :
                      \A i \in 1..n : Accepts(After(table, i - 1, kn), table[i], open)}), kn)

-------------------------------------------------------------------------------
(* The table. *)

Asked(k, m) == IF k \in m THEN <<k>> ELSE <<>>
KindSeq(m) == Asked("read", m) \o Asked("write", m) \o Asked("error", m)
Io == [slots |-> slots, knotes |-> knotes]
FreeSlots(table) == {i \in DOMAIN table : table[i] = Free}

\* Mutant of Fill: one slot is given to all kinds.
FillOne(table, c, m) ==
  LET i == SelectInSeq(table, LAMBDA s : s = Free)
  IN  IF i = 0 THEN table
      ELSE [table EXCEPT ![i] = [fd |-> FdOf[c], kind |-> Last(KindSeq(m)), flag |-> "add", udata |-> c]]

\* The loop of event_io_add_fd: every kind takes the first slot that is free.
Fill(table, c, m) ==
  [i \in DOMAIN table |->
     LET n == Cardinality({j \in FreeSlots(table) : j <= i})
     IN  IF table[i] = Free /\ n <= Cardinality(m)
         THEN [fd |-> FdOf[c], kind |-> KindSeq(m)[n], flag |-> "add", udata |-> c]
         ELSE table[i]]

\* event_io_add_fd, for a channel whose mask is m.
AddFd(io, c, m, open) ==
  LET table == Fill(io.slots, c, m)
  IN  [slots |-> table, knotes |-> Submit(table, io.knotes, open)]

\* Mutant of RemoveFd: the slot stays taken when the kernel has deleted.
RemoveFdKeepsSlot(io, c, m) ==
  LET i == SelectInSeq(io.slots, LAMBDA s : s.fd = FdOf[c])
  IN  IF i = 0 \/ m = {} THEN io
      ELSE [io EXCEPT !.knotes = {x \in @ : ~(x.fd = FdOf[c] /\ x.kind = Last(KindSeq(m)))}]

\* event_io_remove_fd, for a channel whose mask is m: the first slot of the
\* descriptor is overwritten for each kind in turn, and only the last one is
\* given to the kernel.
RemoveFd(io, c, m) ==
  LET i == SelectInSeq(io.slots, LAMBDA s : s.fd = FdOf[c])
      change == [fd |-> FdOf[c], kind |-> Last(KindSeq(m)), flag |-> "delete", udata |-> c]
  IN  IF i = 0 \/ m = {} THEN io
      ELSE IF Accepts(io.knotes, change, OpenFds)
           THEN [slots |-> [io.slots EXCEPT ![i] = Free], knotes |-> Apply(io.knotes, change)]
           ELSE [io EXCEPT !.slots[i] = change]

Becomes(io) == slots' = io.slots /\ knotes' = io.knotes

\* Mutant of CloseIt: the kernel keeps what it has of a closed descriptor.
CloseItKeepsNotes(c, io) == Becomes(io)

\* Closing a descriptor removes what the kernel has of it.
CloseIt(c, io) == Becomes([io EXCEPT !.knotes = {x \in @ : x.fd # FdOf[c]}])

Starves(io, c, m) ==
  starved' = IF Cardinality(FreeSlots(io.slots)) < Cardinality(m) THEN starved \cup {c} ELSE starved

\* A slot is left behind when its channel is freed, and when the kernel refuses to
\* delete what it was for.
Spoils ==
  spoilt' = spoilt \cup
    {c \in Channels : \E i \in 1..NSlots :
       slots'[i].udata = c /\ (slots'[i].flag = "delete" \/ life'[c] = "freed")}

-------------------------------------------------------------------------------
(* The calls of the loop, in callbacks and between two polls. *)

MayCall == events = {} \/ calling # None

\* A callback does not free a channel that has events left.
MayFree(c) == \A e \in events : e.udata # c

FreeMemory(c) ==
  /\ life' = [life EXCEPT ![c] = "freed"]
  /\ mask' = [mask EXCEPT ![c] = {}] /\ procs' = [procs EXCEPT ![c] = {}]

\* event_loop_add_channel with a channel for a new descriptor.
AddChannel(c) ==
  LET m == IF c \in Conns THEN {"read", "error"} ELSE {"read"}
  IN  /\ MayCall /\ life[c] = "none" /\ FdOf[c] \notin OpenFds
      /\ life' = [life EXCEPT ![c] = "open"] /\ listed' = listed \cup {c}
      /\ mask' = [mask EXCEPT ![c] = m] /\ procs' = [procs EXCEPT ![c] = {"read"}]
      /\ Becomes(AddFd(Io, c, m, OpenFds \cup {FdOf[c]}))
      /\ Starves(Io, c, m)
      /\ UNCHANGED <<pollVars, uneven>>
      /\ Spoils

\* event_loop_remove_channel; the caller closes the descriptor and frees the
\* channel, as in tcp_connect_delete.  A connection has at least its read and error
\* events left then.
RemoveChannel(c) ==
  /\ MayCall /\ MayFree(c) /\ c \in listed
  /\ CloseIt(c, RemoveFd(Io, c, mask[c]))
  /\ listed' = listed \ {c} /\ FreeMemory(c)
  /\ uneven' = IF Cardinality(mask[c]) > 1 THEN uneven \cup {c} ELSE uneven
  /\ UNCHANGED <<pollVars, starved>>
  /\ Spoils

\* event_loop_remove_fd
RemoveEvents(c, m) ==
  /\ MayCall /\ c \in listed
  /\ Becomes(RemoveFd(Io, c, m))
  /\ mask' = [mask EXCEPT ![c] = @ \ m]
  /\ listed' = IF mask[c] \subseteq m THEN listed \ {c} ELSE listed
  /\ uneven' = IF Cardinality(m) > 1 \/ ~(m \subseteq mask[c]) THEN uneven \cup {c} ELSE uneven
  /\ UNCHANGED <<life, procs, pollVars, starved>>
  /\ Spoils

\* It said is_delete: the caller closes the descriptor and frees the channel.
FreeChannel(c) ==
  /\ MayCall /\ MayFree(c) /\ life[c] = "open" /\ c \notin listed
  /\ CloseIt(c, Io) /\ FreeMemory(c)
  /\ UNCHANGED <<listed, pollVars, starved, uneven>>
  /\ Spoils

\* tcp_connect_mark_write and tcp_connect_unmark_write: event_loop_update_channel
\* removes the descriptor for all kinds and adds it for those of its mask.
MarkWrite(c, marks) ==
  LET m == IF marks THEN mask[c] \cup {"write"} ELSE mask[c] \ {"write"}
      io == RemoveFd(Io, c, Kinds)
  IN  /\ MayCall /\ c \in Conns /\ life[c] = "open"
      /\ mask' = [mask EXCEPT ![c] = m]
      /\ procs' = [procs EXCEPT ![c] = IF marks THEN @ \cup {"write"} ELSE @ \ {"write"}]
      /\ Becomes(AddFd(io, c, m, OpenFds))
      /\ Starves(io, c, m)
      /\ uneven' = uneven \cup {c}
      /\ UNCHANGED <<listed, life, pollVars>>
      /\ Spoils

-------------------------------------------------------------------------------
(* event_io_poll. *)

\* kevent reports some of what it watches, in any order.  With no channel listed
\* event_io_poll returns at once.
Poll ==
  /\ events = {} /\ calling = None /\ listed # {}
  /\ \E found \in SUBSET knotes :
       /\ Cardinality(found) \in 1..MaxEvents
       /\ events' = found
  /\ UNCHANGED <<slots, knotes, chanVars, calling, histories>>

\* event_channel_on_read, _on_write or _on_error of the channel, which must not be
\* freed.  EV_EOF asks for the close callback instead, which no channel has.
Deliver(e) ==
  /\ calling = None
  /\ life[e.udata] = "open"
  /\ calling' \in {None} \cup (IF e.kind \in procs[e.udata] THEN {e.udata} ELSE {})
  /\ events' = events \ {e}
  /\ UNCHANGED <<slots, knotes, chanVars, histories>>

CallbackReturns ==
  /\ calling # None
  /\ calling' = None
  /\ UNCHANGED <<slots, knotes, chanVars, events, histories>>

Next ==
  \/ Poll \/ CallbackReturns
  \/ \E e \in events : Deliver(e)
  \/ \E c \in Channels :
       \/ AddChannel(c) \/ RemoveChannel(c) \/ FreeChannel(c)
       \/ \E m \in Masks : RemoveEvents(c, m)
       \/ \E marks \in BOOLEAN : MarkWrite(c, marks)

Spec == Init /\ [][Next]_vars

-------------------------------------------------------------------------------
(* Properties. *)

Watched(c, k) == [fd |-> FdOf[c], kind |-> k, udata |-> c] \in knotes

\* What tcp_connect_delete leaves in the table stops neither the polls nor the
\* channels before it: of a slot that only slots of open channels precede, and whose
\* descriptor has no slot left by another, its own channel is told, however often
\* the table was submitted, and whether or not a channel found it full.
Owned(s) == s.flag = "add" /\ life[s.udata] = "open"
InFront(i) == \A j \in 1..NSlots : j <= i \/ slots[j].fd = slots[i].fd => Owned(slots[j])
FrontIsWatched == \A i \in 1..NSlots : InFront(i) => Watched(slots[i].udata, slots[i].kind)

\* As long as the table has room and nothing was left in it, the kernel watches every
\* event that a listed channel asks for, and tells that channel, although every
\* addition submits the changes of all channels again and stops at the first that
\* is refused.
AskedIsWatched ==
  starved = {} /\ spoilt = {} => \A c \in listed : \A k \in mask[c] : Watched(c, k)

\* The descriptors of channels that left nothing behind.
CleanFds == Fds \ {FdOf[c] : c \in spoilt}

\* event_io_add_fd and event_io_remove_fd agree on the table as long as it has room and
\* channels are removed one event at a time and never marked for writing: then no
\* slot is left behind.  Whatever other channels do, one that was treated so has as
\* many slots as events it asks for.
SlotsMatchMasks ==
  /\ starved = {} /\ uneven = {} => spoilt = {}
  /\ \A c \in Channels \ (starved \cup uneven) : life[c] = "open" /\ FdOf[c] \in CleanFds =>
       Cardinality({i \in 1..NSlots : slots[i].fd = FdOf[c]}) = Cardinality(mask[c])

\* An event goes to the channel that has its descriptor, which is not freed, unless
\* a channel that had the descriptor left a slot behind, which tells that channel
\* when the descriptor is used again.
EventsReachOwners ==
  \A e \in events : e.fd \in CleanFds => life[e.udata] = "open" /\ FdOf[e.udata] = e.fd

\* A connection marked for writing, and with it the pong that waits to be sent,
\* is watched for writing.
PongsCanLeave ==
  starved = {} => \A c \in listed : "write" \in mask[c] => Watched(c, "write")
===============================================================================
