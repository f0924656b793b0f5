------------------------------ MODULE TcpConnect ------------------------------
(***************************************************************************)
(* One connection of src/src/net/tcp_connect.c with the handlers that      *)
(* src/pingpong.c gives it, between a client and the thread of a loop.     *)
(* The thread reads what arrived into the receive pipe, takes a line,      *)
(* writes its answer into the send pipe and marks the connection for       *)
(* writing; when the socket can be written it sends the pipe chunk by      *)
(* chunk and puts back what did not fit.                                   *)
(*                                                                         *)
(* The pipes are the byte queues that BufferPipe implements: putting back  *)
(* bytes just read cannot fail (RoomToPutBack), other writes can.  A byte  *)
(* stands for a word or for the end of a line; a line is shorter than the  *)
(* buffer that _on_client_read takes it into.                              *)
(***************************************************************************)
EXTENDS Integers, SequencesExt

CONSTANTS
  Buffer,      \* bytes read or sent at a time
  MaxRoom,     \* the room in the send buffer of the socket
  MaxSent,     \* bound: bytes that the client sends
  MemoryFails  \* whether buffer_pipe_write can fail

ASSUME TcpConnectAssumption ==
  /\ Buffer \in Nat \ {0} /\ MaxRoom \in Nat \ {0} /\ MaxSent \in Nat
  /\ MemoryFails \in BOOLEAN

Words == {"ping", "exit", "nl"}

VARIABLES
  inbox,      \* what has arrived and was not read by recv
  eof,        \* the client has shut down its side
  broken,     \* the connection was reset
  room,       \* the free room in the send buffer of the socket
  alive,      \* the struct tcp_connect is allocated
  recv_pipe, send_pipe,
  marked,     \* the connection waits for a write event
  pc,         \* where the thread is
  hand,       \* the chunk that tcp_connect_write has taken from the send pipe
  has_data, need_close,
  wire,       \* history: what the socket took
  sent,       \* history: what the client sent
  taken,      \* history: the lines taken from the receive pipe
  answered,   \* history: pings taken
  lost,       \* history: an answer was dropped
  deletes     \* history: calls of tcp_connect_delete

netVars  == <<inbox, eof, broken, room>>
connVars == <<alive, recv_pipe, send_pipe, marked>>
locals   == <<hand, has_data, need_close>>
history  == <<wire, sent, taken, answered, lost, deletes>>
vars == <<netVars, connVars, pc, locals, history>>

Init ==
  /\ inbox = <<>> /\ eof = FALSE /\ broken = FALSE /\ room = MaxRoom
  /\ alive = TRUE /\ recv_pipe = <<>> /\ send_pipe = <<>> /\ marked = FALSE
  /\ pc = "idle" /\ hand = <<>> /\ has_data = FALSE /\ need_close = FALSE
  /\ wire = <<>> /\ sent = <<>> /\ taken = <<>>
  /\ answered = 0 /\ lost = FALSE /\ deletes = 0

\* The first n bytes of a pipe, and what is left of it.
First(s, n) == SubSeq(s, 1, n)
Rest(s, n) == SubSeq(s, n + 1, Len(s))

\* tcp_connect_delete: the channel, its pipes and the descriptor are gone.
Delete ==
  /\ alive' = FALSE /\ deletes' = deletes + 1
  /\ recv_pipe' = <<>> /\ send_pipe' = <<>> /\ inbox' = <<>>
  /\ marked' = FALSE

-------------------------------------------------------------------------------
(* The client and the network. *)

\* Any bytes can arrive together; a line has at most one word.
ClientSends(b) ==
  /\ alive /\ ~eof /\ ~broken /\ Len(sent) < MaxSent
  /\ b = "nl" \/ Last(<<"nl">> \o sent) = "nl"
  /\ inbox' = Append(inbox, b) /\ sent' = Append(sent, b)
  /\ UNCHANGED <<eof, broken, room, connVars, pc, locals, wire, taken, answered, lost, deletes>>

ClientCloses ==
  /\ ~eof /\ ~broken
  /\ eof' = TRUE
  /\ UNCHANGED <<inbox, broken, room, connVars, pc, locals, history>>

\* The client reads, so that the socket can send.
ClientReads ==
  /\ alive /\ ~broken /\ room < MaxRoom
  /\ room' = room + 1
  /\ UNCHANGED <<inbox, eof, broken, connVars, pc, locals, history>>

Reset ==
  /\ alive /\ ~broken
  /\ broken' = TRUE
  /\ UNCHANGED <<inbox, eof, room, connVars, pc, locals, history>>

-------------------------------------------------------------------------------
(* A read event: _tcp_connec_on_read. *)

Readable == inbox # <<>> \/ eof \/ broken

\* The poll also calls it for an event of an older connection that had the same
\* descriptor, when there is nothing to read.
OnRead ==
  /\ pc = "idle" /\ alive
  /\ pc' = "recv" /\ has_data' = FALSE /\ need_close' = FALSE
  /\ UNCHANGED <<netVars, connVars, hand, history>>

RecvStops(closes) ==
  /\ inbox = <<>> \/ broken
  /\ need_close' = closes
  /\ pc' = "handle"
  /\ UNCHANGED <<inbox, recv_pipe, has_data>>

\* What the socket has goes to the receive pipe.
RecvData ==
  /\ inbox # <<>> /\ ~broken
  /\ inbox' = Rest(inbox, Buffer)
  /\ \/ /\ recv_pipe' = recv_pipe \o First(inbox, IF Len(inbox) < Buffer THEN Len(inbox) ELSE Buffer)
        /\ has_data' = TRUE
        /\ UNCHANGED <<pc, need_close>>
     \/ /\ MemoryFails
        /\ need_close' = TRUE /\ pc' = "handle"
        /\ UNCHANGED <<recv_pipe, has_data>>

\* Mutant of Recv: reading nothing is taken for "nothing yet".
RecvIgnoresEof ==
  /\ pc = "recv"
  /\ RecvData \/ RecvStops(broken)
  /\ UNCHANGED <<eof, broken, room, alive, send_pipe, marked, hand, history>>

\* Mutant of Recv: a failure to keep what was read goes unnoticed.
RecvIgnoresMemory ==
  /\ pc = "recv"
  /\ \/ RecvData /\ ~need_close'
     \/ /\ inbox # <<>> /\ ~broken /\ MemoryFails
        /\ inbox' = Rest(inbox, Buffer)
        /\ UNCHANGED <<recv_pipe, has_data, need_close, pc>>
     \/ RecvStops(eof \/ broken)
  /\ UNCHANGED <<eof, broken, room, alive, send_pipe, marked, hand, history>>

\* One call of net_fd_read: it returns data, 0 at the end of what the client
\* sent, EAGAIN when there is nothing yet, or an error.
Recv ==
  /\ pc = "recv"
  /\ RecvData \/ RecvStops(eof \/ broken)
  /\ UNCHANGED <<eof, broken, room, alive, send_pipe, marked, hand, history>>

\* buffer_pipe_find_chr(pipe_recv, '\n', &pos), or 0
LineEnd == SelectInSeq(recv_pipe, LAMBDA b : b = "nl")
HasLine == LineEnd # 0
Line == First(recv_pipe, LineEnd)

\* Mutant of Pong: the connection is not marked for writing.
PongUnmarked ==
  /\ Line = <<"ping", "nl">>
  /\ \/ send_pipe' = send_pipe \o <<"pong", "nl">> /\ UNCHANGED lost
     \/ MemoryFails /\ UNCHANGED send_pipe /\ lost' = TRUE
  /\ answered' = answered + 1
  /\ UNCHANGED <<marked, alive, inbox, need_close, deletes>>

\* The answer to a ping; whether it could be written is not looked at.
Pong ==
  /\ Line = <<"ping", "nl">>
  /\ \/ send_pipe' = send_pipe \o <<"pong", "nl">> /\ UNCHANGED lost
     \/ MemoryFails /\ UNCHANGED send_pipe /\ lost' = TRUE
  /\ marked' = TRUE
  /\ answered' = answered + 1
  /\ UNCHANGED <<alive, inbox, need_close, deletes>>

\* Mutant of Exit: the handler does not say that it has closed the connection.
ExitReturnsZero ==
  /\ Line = <<"exit", "nl">>
  /\ Delete
  /\ UNCHANGED <<answered, lost, need_close>>

\* The connection is deleted, and ret = 1 says so.
Exit ==
  /\ Line = <<"exit", "nl">>
  /\ Delete
  /\ need_close' = FALSE
  /\ UNCHANGED <<answered, lost>>

OtherLine ==
  /\ Line \notin {<<"ping", "nl">>, <<"exit", "nl">>}
  /\ UNCHANGED <<send_pipe, marked, alive, inbox, need_close, answered, lost, deletes>>

\* _on_client_read, called if data was read: it takes one line.
OnClientRead ==
  /\ pc = "handle" /\ has_data /\ HasLine
  /\ taken' = taken \o Line
  /\ \/ (Pong \/ OtherLine) /\ recv_pipe' = Rest(recv_pipe, LineEnd)
     \/ Exit
  /\ pc' = "close"
  /\ UNCHANGED <<eof, broken, room, hand, has_data, wire, sent>>

NothingToHandle ==
  /\ pc = "handle" /\ ~(has_data /\ HasLine)
  /\ pc' = "close"
  /\ UNCHANGED <<netVars, connVars, locals, history>>

\* _tcp_connec_on_close if need_close, and the handler of the channel returns.
EndRead ==
  /\ pc = "close"
  /\ pc' = "idle"
  /\ \/ need_close /\ Delete
     \/ ~need_close /\ UNCHANGED <<inbox, connVars, deletes>>
  /\ UNCHANGED <<eof, broken, room, locals, wire, sent, taken, answered, lost>>

-------------------------------------------------------------------------------
(* A write event: _tcp_connec_on_write, _on_client_write, tcp_connect_write. *)

OnWrite ==
  /\ pc = "idle" /\ alive /\ marked
  /\ room > 0 \/ broken
  /\ pc' = "write"
  /\ UNCHANGED <<netVars, connVars, locals, history>>

\* buffer_pipe_read; when nothing is left the connection is unmarked.
TakeChunk ==
  /\ pc = "write"
  /\ \/ /\ send_pipe = <<>>
        /\ marked' = FALSE /\ pc' = "idle"
        /\ UNCHANGED <<send_pipe, hand>>
     \/ /\ send_pipe # <<>>
        /\ hand' = First(send_pipe, IF Len(send_pipe) < Buffer THEN Len(send_pipe) ELSE Buffer)
        /\ send_pipe' = Rest(send_pipe, Buffer)
        /\ pc' = "send"
        /\ UNCHANGED marked
  /\ UNCHANGED <<netVars, alive, recv_pipe, has_data, need_close, history>>

SendsAll ==
  /\ ~broken /\ Len(hand) <= room
  /\ wire' = wire \o hand /\ room' = room - Len(hand)
  /\ pc' = "write"
  /\ UNCHANGED <<send_pipe, marked, lost>>

\* Mutant of SendsPart: the rest goes to the end of the pipe.
SendsPartToTail ==
  /\ ~broken /\ room \in 1..(Len(hand) - 1)
  /\ wire' = wire \o First(hand, room) /\ room' = 0
  /\ send_pipe' = send_pipe \o Rest(hand, room)
  /\ pc' = "idle"
  /\ UNCHANGED <<marked, lost>>

\* buffer_pipe_write_head puts the rest back, and the next write event is awaited.
SendsPart ==
  /\ ~broken /\ room \in 1..(Len(hand) - 1)
  /\ wire' = wire \o First(hand, room) /\ room' = 0
  /\ send_pipe' = Rest(hand, room) \o send_pipe
  /\ pc' = "idle"
  /\ UNCHANGED <<marked, lost>>

\* EAGAIN: the chunk is neither sent nor put back, and the loop goes on.
SendsNothing ==
  /\ ~broken /\ room = 0
  /\ pc' = "write" /\ lost' = TRUE
  /\ UNCHANGED <<wire, room, send_pipe, marked>>

Send ==
  /\ pc = "send" /\ hand' = <<>>
  /\ \/ SendsAll \/ SendsPart \/ SendsNothing
  /\ UNCHANGED <<inbox, eof, broken, alive, recv_pipe, has_data, need_close,
                 sent, taken, answered, deletes>>

\* send fails for another reason: _on_client_write closes the connection.
SendFails ==
  /\ pc = "send" /\ broken
  /\ hand' = <<>> /\ pc' = "idle"
  /\ Delete
  /\ UNCHANGED <<eof, broken, room, has_data, need_close, wire, sent, taken, answered, lost>>

-------------------------------------------------------------------------------
Handler ==
  \/ Recv \/ OnClientRead \/ NothingToHandle \/ EndRead
  \/ TakeChunk \/ Send \/ SendFails

Next ==
  \/ OnRead \/ OnWrite \/ Handler
  \/ \E b \in Words : ClientSends(b)
  \/ ClientCloses \/ ClientReads \/ Reset

Spec == Init /\ [][Next]_vars

\* The loop's thread goes on, and every poll reports what can be read and what
\* can be written; a client reads what it is sent.
Fairness ==
  /\ WF_vars(Handler) /\ SF_vars(OnRead /\ Readable) /\ SF_vars(OnWrite)
  /\ WF_vars(ClientReads)
FairSpec == Spec /\ Fairness

-------------------------------------------------------------------------------
(* Properties. *)

\* What the socket took, the chunk in hand and the send pipe are together the
\* pongs for the pings that were taken, in order and each of them once, however
\* the chunks are cut by the socket; unless a chunk was dropped on EAGAIN or a
\* pong found no memory.
Pongs == [i \in 1..(2 * answered) |-> IF i % 2 = 1 THEN "pong" ELSE "nl"]
AnswersIntact == alive /\ ~lost => wire \o hand \o send_pipe = Pongs

\* Between two events nothing that the client sent is missing or out of order: a
\* connection that could not keep what it read is closed.
InputIntact == alive /\ pc = "idle" => taken \o recv_pipe \o inbox = sent

\* Whenever the thread waits for events, a connection with bytes to send waits
\* for a write event.
AnswersAwaitWrite == alive /\ pc = "idle" /\ send_pipe # <<>> => marked

\* A connection is deleted once, although the read handler, the end of input,
\* and errors of both directions all delete it.
DeletedOnce == deletes = IF alive THEN 0 ELSE 1

\* Answers are sent, or the connection is closed.
AnswersLeave == alive /\ send_pipe # <<>> ~> send_pipe = <<>> \/ ~alive

\* When the client has shut down its side, the connection is deleted.
EofDeletes == eof ~> ~alive

\* A ping that has arrived is taken from the pipe and answered.
PingWaits == alive /\ HasLine /\ Line = <<"ping", "nl">>
PingsAnswered == PingWaits ~> ~PingWaits
===============================================================================
