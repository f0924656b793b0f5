---------------------------- MODULE TcpConnectProof ----------------------------
(***************************************************************************)
(* Theorems about TcpConnect, for all buffers, all room in the socket and  *)
(* any bytes of the client.                                                *)
(***************************************************************************)
EXTENDS TcpConnect, SequenceTheorems, WellFoundedInduction, TLAPS

Bytes == Words \cup {"pong"}

\* The flags, which are only tested, need no type.
Types ==
  /\ inbox \in Seq(Bytes) /\ sent \in Seq(Bytes) /\ taken \in Seq(Bytes)
  /\ recv_pipe \in Seq(Bytes) /\ send_pipe \in Seq(Bytes)
  /\ hand \in Seq(Bytes) /\ wire \in Seq(Bytes)
  /\ room \in Nat /\ answered \in Nat /\ deletes \in Nat
  /\ pc \in {"idle", "recv", "handle", "close", "write", "send"}

\* A handler runs on a connection that is allocated: only a close that was
\* asked for, and not done yet, is left to do for one that may be gone.
Allocated ==
  /\ pc \in {"recv", "handle", "write", "send"} => alive
  /\ pc = "close" /\ need_close => alive

\* A connection with bytes to send, or that is sending, waits for a write event.
Marked == alive /\ (send_pipe # <<>> \/ pc \in {"write", "send"}) => marked

HandInv == pc # "send" => hand = <<>>

\* Input is intact inside the handler too, unless it is about to close.
Complete == alive /\ ~(pc \in {"handle", "close"} /\ need_close)
Intact == Complete => (taken \o recv_pipe) \o inbox = sent

Inv == Types /\ Allocated /\ Marked /\ HandInv /\ DeletedOnce /\ AnswersIntact /\ Intact

-------------------------------------------------------------------------------
(* Lemmas about numbers and sequences. *)

\* A set of naturals that is not empty has a least element.
LEMMA LeastOf ==
  ASSUME NEW S \in SUBSET Nat, S # {}
  PROVE  Min(S) \in S /\ \A x \in S : Min(S) <= x
<1> DEFINE R == {ss \in Nat \X Nat : ss[1] < ss[2]}
<1>1. IsWellFoundedOn(R, Nat)
  BY NatLessThanWellFounded DEF OpToRel
<1> HIDE DEF R
<1>2. PICK m \in S : \A x \in S : <<x, m>> \notin R
  BY <1>1, WFMin
<1>3. ASSUME NEW x \in S PROVE m <= x
  <2>1. x \in Nat /\ m \in Nat /\ (x < m => <<x, m>> \in R)
    BY DEF R
  <2> QED
    BY <1>2, <2>1
<1> QED
  BY <1>3 DEF Min

-------------------------------------------------------------------------------
(* Sequences. *)

\* A sequence that is cut in two is the two parts.
LEMMA Cut ==
  ASSUME NEW S, NEW s \in Seq(S), NEW n \in 0..Len(s)
  PROVE  /\ First(s, n) \in Seq(S) /\ Rest(s, n) \in Seq(S)
         /\ First(s, n) \o Rest(s, n) = s
<1>1. Len(s) \in Nat /\ \A i \in 1..Len(s) : s[i] \in S
  BY LenProperties, ElementOfSeq
<1>2. 1 \in 1..(Len(s) + 1) /\ n \in (1 - 1)..Len(s) /\ Len(s) \in n..Len(s) /\ n \in Int /\ n + 1 \in Int
  BY <1>1
<1>3. \A i \in 1..n : s[i] \in S
  BY <1>1, <1>2
<1>4. \A i \in (n + 1)..Len(s) : s[i] \in S
  BY <1>1, <1>2
<1>5. SubSeq(s, 1, n) \in Seq(S) /\ SubSeq(s, n + 1, Len(s)) \in Seq(S)
  BY <1>1, <1>2, <1>3, <1>4, SubSeqProperties
<1>6. SubSeq(s, 1, n) \o SubSeq(s, n + 1, Len(s)) = SubSeq(s, 1, Len(s))
  BY <1>2, ConcatAdjacentSubSeq
<1> QED
  BY <1>5, <1>6, SubSeqFull DEF First, Rest

\* So is one from which a buffer is filled.
LEMMA CutBuffer ==
  ASSUME NEW S, NEW s \in Seq(S)
  PROVE  LET c == First(s, IF Len(s) < Buffer THEN Len(s) ELSE Buffer)
         IN  c \in Seq(S) /\ Rest(s, Buffer) \in Seq(S) /\ c \o Rest(s, Buffer) = s
<1>1. Len(s) \in Nat /\ Buffer \in Nat
  BY LenProperties, TcpConnectAssumption
<1>2. CASE Len(s) < Buffer
  <2>1. Rest(s, Len(s)) = <<>> /\ Rest(s, Buffer) = <<>>
    BY <1>1, <1>2, SubSeqEmpty DEF Rest
  <2> QED
    BY <1>1, <1>2, <2>1, Cut
<1>3. CASE Buffer <= Len(s)
  <2>1. Buffer \in 0..Len(s) /\ ~(Len(s) < Buffer)
    BY <1>1, <1>3
  <2> QED
    BY <2>1, Cut
<1> QED
  BY <1>1, <1>2, <1>3

\* Three sequences are concatenated from either end.
LEMMA Grouping == \A s, t, u \in Seq(Bytes) : (s \o t) \o u = s \o (t \o u)
<1> SUFFICES ASSUME NEW S, NEW s \in Seq(S), NEW t \in Seq(S), NEW u \in Seq(S)
             PROVE  (s \o t) \o u = s \o (t \o u)
  OBVIOUS
<1> QED
  BY ConcatAssociative, Z3

\* A line ends inside the pipe.
LEMMA LineInPipe ==
  ASSUME Types, HasLine
  PROVE  LineEnd \in 0..Len(recv_pipe)
<1> DEFINE I == {i \in 1..Len(recv_pipe) : recv_pipe[i] = "nl"}
<1>1. LineEnd = IF I # {} THEN Min(I) ELSE 0
  BY DEF LineEnd, SelectInSeq
<1>2. Len(recv_pipe) \in Nat
  BY LenProperties DEF Types
<1>3. I \in SUBSET Nat
  BY <1>2
<1>4. I # {} => Min(I) \in I
  BY <1>3, LeastOf
<1> QED
  BY <1>1, <1>2, <1>4

\* One more ping makes one more pong.
LEMMA OneMorePong ==
  ASSUME answered \in Nat, answered' = answered + 1
  PROVE  Pongs \in Seq(Bytes) /\ Pongs' = Pongs \o <<"pong", "nl">>
<1> DEFINE p == <<"pong", "nl">>
<1>1. Pongs \in Seq(Bytes) /\ Len(Pongs) = 2 * answered
  BY DEF Pongs, Bytes, Words
<1>2. Pongs' \in Seq(Bytes) /\ Len(Pongs') = 2 * answered + 2
  BY DEF Pongs, Bytes, Words
<1>3. p \in Seq(Bytes) /\ Len(p) = 2 /\ p[1] = "pong" /\ p[2] = "nl"
  BY DEF Bytes, Words
<1> HIDE DEF p
<1>4. /\ Pongs \o p \in Seq(Bytes) /\ Len(Pongs \o p) = 2 * answered + 2
      /\ \A i \in 1..(2 * answered + 2) :
           (Pongs \o p)[i] = IF i <= 2 * answered THEN Pongs[i] ELSE p[i - 2 * answered]
  <2>1. 2 * answered \in Nat
    OBVIOUS
  <2>2. /\ Pongs \o p \in Seq(Bytes) /\ Len(Pongs \o p) = Len(Pongs) + Len(p)
        /\ \A i \in 1..(Len(Pongs) + Len(p)) :
             (Pongs \o p)[i] = IF i <= Len(Pongs) THEN Pongs[i] ELSE p[i - Len(Pongs)]
    BY <1>1, <1>3, ConcatProperties
  <2> QED
    BY <2>1, <2>2, <1>1, <1>3
<1>5. ASSUME NEW i \in 1..(2 * answered + 2)
      PROVE  Pongs'[i] = (Pongs \o p)[i]
  <2>1. Pongs'[i] = IF i % 2 = 1 THEN "pong" ELSE "nl"
    BY DEF Pongs
  <2>2. CASE i <= 2 * answered
    BY <1>4, <2>1, <2>2 DEF Pongs
  <2>3. CASE i = 2 * answered + 1
    <3>1. i % 2 = 1 /\ i - 2 * answered = 1 /\ ~(i <= 2 * answered)
      BY <2>3
    <3> QED
      BY <1>3, <1>4, <2>1, <3>1
  <2>4. CASE i = 2 * answered + 2
    <3>1. i % 2 = 0 /\ i - 2 * answered = 2 /\ ~(i <= 2 * answered)
      BY <2>4
    <3> QED
      BY <1>3, <1>4, <2>1, <3>1
  <2>5. i <= 2 * answered \/ i = 2 * answered + 1 \/ i = 2 * answered + 2
    <3>1. 2 * answered \in Nat
      OBVIOUS
    <3> QED
      BY <3>1
  <2> QED
    BY <2>2, <2>3, <2>4, <2>5
<1> QED
  BY <1>1, <1>2, <1>4, <1>5, SeqEqual DEF p

-------------------------------------------------------------------------------
(* The invariant. *)

LEMMA InvInit == Init => Inv
<1> SUFFICES ASSUME Init PROVE Inv
  OBVIOUS
<1>1. <<>> \in Seq(Bytes) /\ <<>> \o <<>> = <<>> /\ Pongs = <<>>
  BY EmptySeq, ConcatEmptySeq DEF Init, Pongs
<1>2. Types
  BY <1>1, TcpConnectAssumption DEF Init, Types
<1> QED
  BY <1>1, <1>2 DEF Init, Inv, Allocated, Marked, HandInv, DeletedOnce, AnswersIntact, Intact

\* What a line and a chunk are.
LEMMA LineCut ==
  ASSUME Types, HasLine
  PROVE  /\ Line \in Seq(Bytes) /\ Rest(recv_pipe, LineEnd) \in Seq(Bytes)
         /\ Line \o Rest(recv_pipe, LineEnd) = recv_pipe
BY LineInPipe, Cut DEF Types, Line

LEMMA TypeNext == Inv /\ [Next]_vars => Types'
<1> SUFFICES ASSUME Types, [Next]_vars PROVE Types'
  BY DEF Inv
<1>0. <<>> \in Seq(Bytes) /\ <<"pong", "nl">> \in Seq(Bytes)
  BY DEF Bytes, Words
<1>1. ASSUME NEW b \in Words, ClientSends(b) PROVE Types'
  <2>1. Append(inbox, b) \in Seq(Bytes) /\ Append(sent, b) \in Seq(Bytes)
    BY AppendProperties DEF Types, Bytes
  <2> QED
    BY <1>1, <2>1 DEF ClientSends, Types, connVars, locals
<1>2. CASE ClientCloses \/ ClientReads \/ Reset
  BY <1>2 DEF ClientCloses, ClientReads, Reset, Types, connVars, locals, history
<1>3. CASE OnRead \/ OnWrite
  BY <1>3 DEF OnRead, OnWrite, Types, netVars, connVars, locals, history
<1>4. CASE Recv
  <2> DEFINE c == First(inbox, IF Len(inbox) < Buffer THEN Len(inbox) ELSE Buffer)
  <2>1. c \in Seq(Bytes) /\ Rest(inbox, Buffer) \in Seq(Bytes)
    BY CutBuffer DEF Types
  <2>2. recv_pipe \o c \in Seq(Bytes)
    BY <2>1, ConcatProperties DEF Types
  <2> HIDE DEF c
  <2>0. /\ pc = "recv"
        /\ UNCHANGED <<room, send_pipe, hand, wire, sent, taken, answered, lost, deletes>>
    BY <1>4, Zenon DEF Recv, history
  <2>3. CASE RecvStops(eof \/ broken)
    <3>1. pc' = "handle" /\ UNCHANGED <<inbox, recv_pipe>>
      BY <2>3, Zenon DEF RecvStops
    <3> QED
      BY <2>0, <3>1 DEF Types
  <2>4. CASE RecvData
    <3>1. /\ inbox' = Rest(inbox, Buffer)
          /\ recv_pipe' \in {recv_pipe, recv_pipe \o c}
          /\ pc' \in {"recv", "handle"}
      BY <2>0, <2>4 DEF RecvData, c, Types
    <3> QED
      BY <2>0, <2>1, <2>2, <3>1 DEF Types
  <2> QED
    BY <1>4, <2>3, <2>4 DEF Recv
<1>5. CASE OnClientRead
  <2>1. /\ Line \in Seq(Bytes) /\ Rest(recv_pipe, LineEnd) \in Seq(Bytes)
    BY <1>5, LineCut DEF OnClientRead
  <2> DEFINE longer == send_pipe \o <<"pong", "nl">>
  <2>2. taken \o Line \in Seq(Bytes) /\ longer \in Seq(Bytes)
    BY <1>0, <2>1, ConcatProperties DEF Types
  <2> HIDE DEF longer
  <2>3. CASE Pong /\ recv_pipe' = Rest(recv_pipe, LineEnd)
    <3>1. send_pipe' \in {send_pipe, longer} /\ answered' = answered + 1
      BY <2>3 DEF Pong, longer
    <3>2. /\ UNCHANGED <<inbox, room, hand, wire, sent, deletes>>
          /\ pc' = "close" /\ taken' = taken \o Line
          /\ recv_pipe' = Rest(recv_pipe, LineEnd)
      BY <1>5, <2>3 DEF OnClientRead, Pong
    <3> QED
      BY <2>1, <2>2, <3>1, <3>2 DEF Types
  <2>4. CASE OtherLine /\ recv_pipe' = Rest(recv_pipe, LineEnd)
    BY <1>5, <2>1, <2>2, <2>4 DEF OnClientRead, OtherLine, Types
  <2>5. CASE Exit
    BY <1>0, <1>5, <2>2, <2>5 DEF OnClientRead, Exit, Delete, Types
  <2> QED
    BY <1>5, <2>3, <2>4, <2>5 DEF OnClientRead
<1>6. CASE NothingToHandle
  BY <1>6 DEF NothingToHandle, Types, netVars, connVars, locals, history
<1>7. CASE EndRead
  <2>1. /\ pc' = "idle"
        /\ UNCHANGED <<room, hand, wire, sent, taken, answered>>
        /\ Delete \/ UNCHANGED <<inbox, connVars, deletes>>
    BY <1>7, Zenon DEF EndRead, locals
  <2>2. CASE Delete
    BY <1>0, <2>1, <2>2 DEF Delete, Types
  <2>3. CASE UNCHANGED <<inbox, connVars, deletes>>
    BY <2>1, <2>3 DEF Types, connVars
  <2> QED
    BY <2>1, <2>2, <2>3
<1>8. CASE TakeChunk
  <2> DEFINE c == First(send_pipe, IF Len(send_pipe) < Buffer THEN Len(send_pipe) ELSE Buffer)
  <2>1. c \in Seq(Bytes) /\ Rest(send_pipe, Buffer) \in Seq(Bytes)
    BY CutBuffer DEF Types
  <2> HIDE DEF c
  <2>2. /\ hand' \in {hand, c} /\ send_pipe' \in {send_pipe, Rest(send_pipe, Buffer)}
        /\ pc' \in {"idle", "send"}
    BY <1>8 DEF TakeChunk, c
  <2> QED
    BY <1>8, <2>1, <2>2 DEF TakeChunk, Types, netVars, history
<1>9. CASE Send
  <2>1. wire \o hand \in Seq(Bytes) /\ Len(hand) \in Nat
    BY ConcatProperties, LenProperties DEF Types
  <2>2. CASE SendsAll
    BY <1>0, <1>9, <2>1, <2>2 DEF Send, SendsAll, Types
  <2>3. CASE SendsNothing
    BY <1>0, <1>9, <2>3 DEF Send, SendsNothing, Types
  <2>4. CASE SendsPart
    <3>1. room \in 0..Len(hand)
      BY <2>1, <2>4 DEF SendsPart
    <3>2. First(hand, room) \in Seq(Bytes) /\ Rest(hand, room) \in Seq(Bytes)
      BY <3>1, Cut DEF Types
    <3>3. /\ wire \o First(hand, room) \in Seq(Bytes)
          /\ Rest(hand, room) \o send_pipe \in Seq(Bytes)
      BY <3>2, ConcatProperties DEF Types
    <3> QED
      BY <1>0, <1>9, <2>4, <3>3 DEF Send, SendsPart, Types
  <2> QED
    BY <1>9, <2>2, <2>3, <2>4 DEF Send
<1>10. CASE SendFails
  BY <1>0, <1>10 DEF SendFails, Delete, Types
<1>11. CASE UNCHANGED vars
  BY <1>11 DEF vars, netVars, connVars, locals, history, Types
<1> QED
  BY <1>1, <1>2, <1>3, <1>4, <1>5, <1>6, <1>7, <1>8, <1>9, <1>10, <1>11 DEF Next, Handler

\* A connection that is deleted was allocated, and is deleted for the first time.
LEMMA DeleteOnce ==
  ASSUME DeletedOnce, alive, Delete
  PROVE  DeletedOnce' /\ ~alive'
<1>1. deletes = 0
  BY DEF DeletedOnce
<1>2. deletes' = 1 /\ ~alive'
  BY <1>1 DEF Delete
<1> QED
  BY <1>2 DEF DeletedOnce

Flow == Allocated /\ Marked /\ HandInv /\ DeletedOnce

LEMMA FlowNext == Inv /\ [Next]_vars => Flow'
<1> SUFFICES ASSUME Flow, [Next]_vars PROVE Flow'
  BY DEF Inv, Flow
<1> USE DEF Flow, Allocated, Marked, HandInv
<1>1. CASE ClientCloses \/ ClientReads \/ Reset \/ \E b \in Words : ClientSends(b)
  <2>1. UNCHANGED <<alive, send_pipe, marked, pc, hand, need_close, deletes>>
    BY <1>1, Zenon DEF ClientSends, ClientCloses, ClientReads, Reset, connVars, locals, history
  <2> QED
    BY <2>1, Zenon DEF DeletedOnce
<1>2. CASE OnRead
  <2>1. /\ alive /\ pc = "idle" /\ pc' = "recv"
        /\ UNCHANGED <<alive, send_pipe, marked, hand, deletes>>
    BY <1>2, Zenon DEF OnRead, connVars, history
  <2> QED
    BY <2>1 DEF DeletedOnce
<1>3. CASE OnWrite
  <2>1. /\ alive /\ marked /\ pc = "idle" /\ pc' = "write"
        /\ UNCHANGED <<alive, send_pipe, marked, hand, deletes>>
    BY <1>3, Zenon DEF OnWrite, connVars, locals, history
  <2> QED
    BY <2>1 DEF DeletedOnce
<1>4. CASE Recv
  <2>1. pc = "recv" /\ pc' \in {"recv", "handle"}
    BY <1>4, Zenon DEF Recv, RecvData, RecvStops
  <2>2. UNCHANGED <<alive, send_pipe, marked, hand, deletes>>
    BY <1>4, Zenon DEF Recv, history
  <2> QED
    BY <2>1, <2>2 DEF DeletedOnce
<1>5. CASE OnClientRead
  <2>1. pc = "handle" /\ alive /\ pc' = "close" /\ hand' = hand
    BY <1>5, Zenon DEF OnClientRead
  <2>2. CASE Exit
    BY <2>1, <2>2, DeleteOnce DEF Exit
  <2>3. CASE Pong \/ OtherLine
    <3>1. alive' = alive /\ deletes' = deletes /\ need_close' = need_close
      BY <2>3, Zenon DEF Pong, OtherLine
    <3>2. marked' = TRUE \/ UNCHANGED <<send_pipe, marked>>
      BY <2>3, Zenon DEF Pong, OtherLine
    <3> QED
      BY <2>1, <3>1, <3>2 DEF DeletedOnce
  <2> QED
    BY <1>5, <2>2, <2>3 DEF OnClientRead
<1>6. CASE NothingToHandle
  <2>1. /\ pc = "handle" /\ pc' = "close"
        /\ UNCHANGED <<alive, send_pipe, marked, hand, need_close, deletes>>
    BY <1>6, Zenon DEF NothingToHandle, connVars, locals, history
  <2> QED
    BY <2>1 DEF DeletedOnce
<1>7. CASE EndRead
  <2>1. pc = "close" /\ pc' = "idle" /\ hand' = hand
    BY <1>7, Zenon DEF EndRead, locals
  <2>2. CASE need_close /\ Delete
    BY <2>1, <2>2, DeleteOnce
  <2>3. CASE UNCHANGED <<alive, send_pipe, marked, deletes>>
    BY <2>1, <2>3 DEF DeletedOnce
  <2> QED
    BY <1>7, <2>2, <2>3 DEF EndRead, connVars
<1>8. CASE TakeChunk
  <2>1. pc = "write" /\ alive /\ alive' = alive /\ deletes' = deletes
    BY <1>8, Zenon DEF TakeChunk, history
  <2>2. CASE pc' = "idle"
    <3>1. send_pipe' = <<>> /\ hand' = hand
      BY <1>8, <2>2 DEF TakeChunk
    <3> QED
      BY <2>1, <2>2, <3>1 DEF DeletedOnce
  <2>3. CASE pc' = "send"
    <3>1. marked' = marked
      BY <1>8, <2>3 DEF TakeChunk
    <3> QED
      BY <2>1, <2>3, <3>1 DEF DeletedOnce
  <2> QED
    BY <1>8, <2>2, <2>3 DEF TakeChunk
<1>9. CASE Send
  <2>1. /\ pc = "send" /\ alive /\ hand' = <<>> /\ pc' \in {"write", "idle"}
        /\ UNCHANGED <<alive, marked, deletes>>
    BY <1>9, Zenon DEF Send, SendsAll, SendsPart, SendsNothing
  <2> QED
    BY <2>1 DEF DeletedOnce
<1>10. CASE SendFails
  <2>1. pc = "send" /\ alive /\ hand' = <<>> /\ pc' = "idle" /\ Delete
    BY <1>10, Zenon DEF SendFails
  <2> QED
    BY <2>1, DeleteOnce
<1>11. CASE UNCHANGED vars
  <2>1. UNCHANGED <<alive, send_pipe, marked, pc, hand, need_close, deletes>>
    BY <1>11, Zenon DEF vars, connVars, locals, history
  <2> QED
    BY <2>1, Zenon DEF DeletedOnce
<1> QED
  BY <1>1, <1>2, <1>3, <1>4, <1>5, <1>6, <1>7, <1>8, <1>9, <1>10, <1>11 DEF Next, Handler

-------------------------------------------------------------------------------
(* The answers. *)

Out == (wire \o hand) \o send_pipe

\* A step that leaves the bytes of the answers in their order.
LEMMA AnswersKept ==
  ASSUME AnswersIntact, alive' /\ ~lost' => alive /\ ~lost, Out' = Out, answered' = answered
  PROVE  AnswersIntact'
<1>1. Pongs' = Pongs
  BY DEF Pongs
<1>2. CASE alive' /\ ~lost'
  <2>1. Out = Pongs
    BY <1>2, Zenon DEF AnswersIntact, Out
  <2>2. Out' = Pongs'
    BY <1>1, <2>1
  <2> QED
    BY <2>2, Zenon DEF AnswersIntact, Out
<1> QED
  BY <1>2, Zenon DEF AnswersIntact

LEMMA AnswersNext == Inv /\ [Next]_vars => AnswersIntact'
<1> SUFFICES ASSUME Inv, [Next]_vars PROVE AnswersIntact'
  OBVIOUS
<1>0. AnswersIntact /\ Types /\ HandInv
  BY DEF Inv
<1>t. wire \in Seq(Bytes) /\ hand \in Seq(Bytes) /\ send_pipe \in Seq(Bytes)
  BY <1>0 DEF Types
<1>1. ASSUME UNCHANGED <<wire, hand, send_pipe>>, answered' = answered,
             alive' /\ ~lost' => alive /\ ~lost
      PROVE  AnswersIntact'
  <2>1. Out' = Out
    BY <1>1 DEF Out
  <2> QED
    BY <1>0, <1>1, <2>1, AnswersKept, Zenon
<1>2. ASSUME ~alive' PROVE AnswersIntact'
  BY <1>2, Zenon DEF AnswersIntact
<1>3. CASE ClientCloses \/ ClientReads \/ Reset \/ \E b \in Words : ClientSends(b)
  <2>1. UNCHANGED <<wire, hand, send_pipe, answered, alive, lost>>
    BY <1>3, Zenon DEF ClientSends, ClientCloses, ClientReads, Reset, connVars, locals, history
  <2> QED
    BY <1>1, <2>1, Zenon
<1>4. CASE OnRead \/ OnWrite \/ NothingToHandle \/ Recv
  <2>1. UNCHANGED <<wire, hand, send_pipe, answered, alive, lost>>
    BY <1>4, Zenon DEF OnRead, OnWrite, NothingToHandle, Recv, connVars, locals, history
  <2> QED
    BY <1>1, <2>1, Zenon
<1>5. CASE OnClientRead
  <2>1. UNCHANGED <<wire, hand>> /\ alive
    <3>1. UNCHANGED <<wire, hand>> /\ pc = "handle"
      BY <1>5, Zenon DEF OnClientRead
    <3> QED
      BY <3>1, Zenon DEF Inv, Allocated
  <2>2. CASE Exit
    BY <1>2, <2>2, Zenon DEF Exit, Delete
  <2>3. CASE OtherLine
    <3>1. UNCHANGED <<send_pipe, answered, alive, lost>>
      BY <2>3, Zenon DEF OtherLine
    <3> QED
      BY <1>1, <2>1, <3>1, Zenon
  <2>4. CASE Pong
    <3> DEFINE p == <<"pong", "nl">>
               wh == wire \o hand
    <3>1. /\ answered' = answered + 1 /\ alive' = alive
          /\ \/ send_pipe' = send_pipe \o p /\ lost' = lost
             \/ lost' = TRUE
      BY <2>4, Zenon DEF Pong
    <3>2. CASE send_pipe' = send_pipe \o p /\ lost' = lost
      <4>1. p \in Seq(Bytes) /\ wh \in Seq(Bytes) /\ wh' = wh
        BY <1>0, <2>1, ConcatProperties DEF Types, Bytes, Words
      <4>2. Pongs' = Pongs \o p
        BY <1>0, <3>1, OneMorePong, Zenon DEF Types
      <4> HIDE DEF p, wh
      <4>3. wh \o (send_pipe \o p) = (wh \o send_pipe) \o p
        <5>1. wh \in Seq(Bytes) /\ send_pipe \in Seq(Bytes) /\ p \in Seq(Bytes)
          BY <1>t, <4>1
        <5> QED
          BY <5>1, Grouping, Zenon
      <4>4. alive /\ ~lost => wh \o send_pipe = Pongs
        BY <1>0, Zenon DEF AnswersIntact, wh
      <4>5. alive' /\ ~lost' => wh' \o send_pipe' = Pongs'
        <5>1. SUFFICES ASSUME alive', ~lost' PROVE wh' \o send_pipe' = Pongs'
          OBVIOUS
        <5>2. wh \o send_pipe = Pongs
          BY <3>1, <3>2, <4>4, <5>1, Zenon
        <5>3. send_pipe' = send_pipe \o p
          BY <3>2
        <5> QED
          BY <4>1, <4>2, <4>3, <5>2, <5>3
      <4> QED
        BY <4>5, Zenon DEF AnswersIntact, wh
    <3>3. CASE lost' = TRUE
      BY <3>3, Zenon DEF AnswersIntact
    <3> QED
      BY <3>1, <3>2, <3>3, Zenon
  <2> QED
    BY <1>5, <2>2, <2>3, <2>4, Zenon DEF OnClientRead
<1>6. CASE EndRead
  <2>1. UNCHANGED <<wire, hand, answered, lost>> /\ (Delete \/ UNCHANGED <<alive, send_pipe>>)
    BY <1>6, Zenon DEF EndRead, locals, connVars
  <2>2. CASE Delete
    BY <1>2, <2>2, Zenon DEF Delete
  <2>3. CASE UNCHANGED <<alive, send_pipe>>
    BY <1>1, <2>1, <2>3, Zenon
  <2> QED
    BY <2>1, <2>2, <2>3, Zenon
<1>7. CASE TakeChunk
  <2> DEFINE c == First(send_pipe, IF Len(send_pipe) < Buffer THEN Len(send_pipe) ELSE Buffer)
             r == Rest(send_pipe, Buffer)
  <2>1. UNCHANGED <<wire, answered, alive, lost>> /\ pc = "write"
    BY <1>7, Zenon DEF TakeChunk, history
  <2>2. hand = <<>>
    BY <1>0, <2>1 DEF HandInv
  <2>3. CASE UNCHANGED <<send_pipe, hand>>
    BY <1>1, <2>1, <2>3, Zenon
  <2>4. CASE hand' = c /\ send_pipe' = r
    <3>1. c \in Seq(Bytes) /\ r \in Seq(Bytes) /\ c \o r = send_pipe
      BY <1>0, CutBuffer DEF Types
    <3> HIDE DEF c, r
    <3>a. c \in Seq(Bytes) /\ r \in Seq(Bytes)
      BY <3>1
    <3>2. (wire \o c) \o r = wire \o (c \o r)
      BY <1>t, <3>a, Grouping, Zenon
    <3>3. wire \o hand = wire
      BY <1>0, <2>2, ConcatEmptySeq DEF Types
    <3>4. Out' = Out
      BY <2>1, <2>4, <3>1, <3>2, <3>3 DEF Out
    <3> QED
      BY <1>0, <2>1, <3>4, AnswersKept, Zenon
  <2> QED
    BY <1>7, <2>3, <2>4, Zenon DEF TakeChunk
<1>8. CASE Send
  <2>1. UNCHANGED <<answered, alive>> /\ hand' = <<>>
    BY <1>8, Zenon DEF Send
  <2> DEFINE wh == wire \o hand
  <2>2. CASE SendsAll
    <3>1. wire' = wh /\ UNCHANGED <<send_pipe, lost>>
      BY <2>2, Zenon DEF SendsAll
    <3>2. wh \in Seq(Bytes)
      BY <1>0, ConcatProperties DEF Types
    <3>3. wh \o <<>> = wh
      BY <3>2, ConcatEmptySeq, Zenon
    <3>4. Out' = Out
      BY <2>1, <3>1, <3>3 DEF Out
    <3> QED
      BY <1>0, <2>1, <3>1, <3>4, AnswersKept, Zenon
  <2>3. CASE SendsNothing
    BY <2>3, Zenon DEF SendsNothing, AnswersIntact
  <2>4. CASE SendsPart
    <3> DEFINE f == First(hand, room)
               r == Rest(hand, room)
               wf == wire \o f
    <3>1. wire' = wf /\ send_pipe' = r \o send_pipe /\ lost' = lost
      BY <2>4, Zenon DEF SendsPart
    <3>2. room \in 0..Len(hand)
      <4>1. Len(hand) \in Nat
        BY <1>0, LenProperties DEF Types
      <4> QED
        BY <2>4, <4>1 DEF SendsPart
    <3>3. f \in Seq(Bytes) /\ r \in Seq(Bytes) /\ f \o r = hand
      BY <1>0, <3>2, Cut DEF Types
    <3> HIDE DEF f, r
    <3>4. f \in Seq(Bytes) /\ r \in Seq(Bytes)
      BY <3>3
    <3>5. wf \in Seq(Bytes)
      BY <1>t, <3>4, ConcatProperties
    <3>6. wf \o r = wire \o (f \o r)
      BY <1>t, <3>4, Grouping, Zenon
    <3> HIDE DEF wf
    <3>7. (wf \o r) \o send_pipe = wf \o (r \o send_pipe)
      BY <1>t, <3>4, <3>5, Grouping, Zenon
    <3>8. wf \o <<>> = wf
      BY <3>5, ConcatEmptySeq, Zenon
    <3>9. Out' = Out
      BY <2>1, <3>1, <3>3, <3>6, <3>7, <3>8 DEF Out
    <3> QED
      BY <1>0, <2>1, <3>1, <3>9, AnswersKept, Zenon
  <2> QED
    BY <1>8, <2>2, <2>3, <2>4, Zenon DEF Send
<1>9. CASE SendFails
  BY <1>2, <1>9, Zenon DEF SendFails, Delete
<1>10. CASE UNCHANGED vars
  <2>1. UNCHANGED <<wire, hand, send_pipe, answered, alive, lost>>
    BY <1>10, Zenon DEF vars, connVars, locals, history
  <2> QED
    BY <1>1, <2>1, Zenon
<1> QED
  BY <1>3, <1>4, <1>5, <1>6, <1>7, <1>8, <1>9, <1>10 DEF Next, Handler

-------------------------------------------------------------------------------
(* The input. *)

In == (taken \o recv_pipe) \o inbox

\* A step that leaves the bytes of the input in their order.
LEMMA InputKept ==
  ASSUME Intact, Complete' => Complete, In' = In, sent' = sent
  PROVE  Intact'
<1>1. CASE Complete'
  <2>1. In = sent
    BY <1>1, Zenon DEF Intact, In
  <2>2. In' = sent'
    BY <2>1
  <2> QED
    BY <2>2, Zenon DEF Intact, In
<1> QED
  BY <1>1, Zenon DEF Intact

LEMMA InputNext == Inv /\ [Next]_vars => Intact'
<1> SUFFICES ASSUME Inv, [Next]_vars PROVE Intact'
  OBVIOUS
<1>0. Intact /\ Types
  BY DEF Inv
<1>t. /\ taken \in Seq(Bytes) /\ recv_pipe \in Seq(Bytes) /\ inbox \in Seq(Bytes)
      /\ sent \in Seq(Bytes)
  BY <1>0 DEF Types
<1> DEFINE tr == taken \o recv_pipe
<1>tr. tr \in Seq(Bytes)
  BY <1>t, ConcatProperties
<1>1. ASSUME UNCHANGED <<taken, recv_pipe, inbox, sent>>, Complete' => Complete
      PROVE  Intact'
  <2>1. In' = In
    BY <1>1 DEF In
  <2> QED
    BY <1>0, <1>1, <2>1, InputKept, Zenon
<1>2. ASSUME ~alive' PROVE Intact'
  BY <1>2, Zenon DEF Intact, Complete
<1>3. ASSUME NEW b \in Words, ClientSends(b) PROVE Intact'
  <2>1. /\ inbox' = Append(inbox, b) /\ sent' = Append(sent, b)
        /\ UNCHANGED <<taken, recv_pipe, alive, pc, need_close>>
    BY <1>3, Zenon DEF ClientSends, connVars, locals
  <2> DEFINE e == <<b>>
  <2>2. e \in Seq(Bytes) /\ inbox' = inbox \o e /\ sent' = sent \o e
    BY <1>t, <2>1, AppendIsConcat DEF Bytes
  <2>3. tr' = tr
    BY <2>1
  <2> HIDE DEF e, tr
  <2>4. tr \o (inbox \o e) = (tr \o inbox) \o e
    <3>1. e \in Seq(Bytes) /\ tr \in Seq(Bytes) /\ inbox \in Seq(Bytes)
      BY <1>t, <1>tr, <2>2
    <3> QED
      BY <3>1, Grouping, Zenon
  <2>5. Complete => tr \o inbox = sent
    BY <1>0, Zenon DEF Intact, tr
  <2>6. Complete => tr' \o inbox' = sent'
    BY <2>2, <2>3, <2>4, <2>5
  <2>7. Complete' => Complete
    BY <2>1, Zenon DEF Complete
  <2> QED
    BY <2>6, <2>7, Zenon DEF Intact, tr
<1>4. CASE ClientCloses \/ ClientReads \/ Reset
  <2>1. UNCHANGED <<taken, recv_pipe, inbox, sent, alive, pc, need_close>>
    BY <1>4, Zenon DEF ClientCloses, ClientReads, Reset, connVars, locals, history
  <2>2. Complete' => Complete
    BY <2>1, Zenon DEF Complete
  <2> QED
    BY <1>1, <2>1, <2>2, Zenon
<1>5. CASE OnRead \/ OnWrite
  <2>1. UNCHANGED <<taken, recv_pipe, inbox, sent, alive>> /\ pc = "idle"
    BY <1>5, Zenon DEF OnRead, OnWrite, netVars, connVars, history
  <2>2. Complete' => Complete
    <3>1. pc \notin {"handle", "close"}
      BY <2>1
    <3> QED
      BY <2>1, <3>1, Zenon DEF Complete
  <2> QED
    BY <1>1, <2>1, <2>2, Zenon
<1>6. CASE Recv
  <2>1. UNCHANGED <<taken, sent, alive>> /\ pc = "recv"
    BY <1>6, Zenon DEF Recv, history
  <2>2. Complete' => Complete
    <3>1. pc \notin {"handle", "close"}
      BY <2>1
    <3> QED
      BY <2>1, <3>1, Zenon DEF Complete
  <2> DEFINE c == First(inbox, IF Len(inbox) < Buffer THEN Len(inbox) ELSE Buffer)
             r == Rest(inbox, Buffer)
  <2>3. CASE UNCHANGED <<recv_pipe, inbox>>
    BY <1>1, <2>1, <2>2, <2>3, Zenon
  <2>4. CASE need_close' = TRUE /\ pc' = "handle"
    <3>1. pc' \in {"handle", "close"}
      BY <2>4
    <3>2. ~Complete'
      BY <2>4, <3>1, Zenon DEF Complete
    <3> QED
      BY <3>2, Zenon DEF Intact
  <2>5. CASE inbox' = r /\ recv_pipe' = recv_pipe \o c
    <3> DEFINE rc == recv_pipe \o c
    <3>1. c \in Seq(Bytes) /\ r \in Seq(Bytes) /\ c \o r = inbox
      BY <1>t, CutBuffer
    <3> HIDE DEF c, r
    <3>2. c \in Seq(Bytes) /\ r \in Seq(Bytes)
      BY <3>1
    <3>3. taken \o rc = tr \o c
      <4>1. taken \in Seq(Bytes) /\ recv_pipe \in Seq(Bytes) /\ c \in Seq(Bytes)
        BY <1>t, <3>2
      <4> QED
        BY <4>1, Grouping, Zenon
    <3> HIDE DEF rc, tr
    <3>4. (tr \o c) \o r = tr \o (c \o r)
      BY <1>tr, <3>2, Grouping, Zenon
    <3>5. In' = (taken \o rc) \o r
      BY <2>1, <2>5 DEF In, rc
    <3>6. In = tr \o inbox
      BY Zenon DEF In, tr
    <3>7. In' = In
      BY <3>1, <3>3, <3>4, <3>5, <3>6
    <3> QED
      BY <1>0, <2>1, <2>2, <3>7, InputKept, Zenon
  <2> QED
    BY <1>6, <2>3, <2>4, <2>5, Zenon DEF Recv, RecvData, RecvStops
<1>7. CASE OnClientRead
  <2>1. taken' = taken \o Line /\ sent' = sent /\ pc = "handle" /\ HasLine
    BY <1>7, Zenon DEF OnClientRead
  <2>2. CASE Exit
    BY <1>2, <2>2, Zenon DEF Exit, Delete
  <2>3. CASE (Pong \/ OtherLine) /\ recv_pipe' = Rest(recv_pipe, LineEnd)
    <3> DEFINE l == Line
               r == Rest(recv_pipe, LineEnd)
    <3>1. UNCHANGED <<inbox, alive, need_close>>
      BY <2>3, Zenon DEF Pong, OtherLine
    <3>2. Complete' => Complete
      <4>1. pc' \in {"handle", "close"}
        BY <1>7 DEF OnClientRead
      <4> QED
        BY <3>1, <4>1, Zenon DEF Complete
    <3>3. l \in Seq(Bytes) /\ r \in Seq(Bytes) /\ l \o r = recv_pipe
      BY <1>0, <2>1, LineCut, Zenon
    <3> HIDE DEF l, r
    <3>4. l \in Seq(Bytes) /\ r \in Seq(Bytes)
      BY <3>3
    <3>5. (taken \o l) \o r = taken \o (l \o r)
      <4>1. taken \in Seq(Bytes)
        BY <1>t
      <4> QED
        BY <3>4, <4>1, Grouping, Zenon
    <3>6. In' = ((taken \o l) \o r) \o inbox
      BY <2>1, <2>3, <3>1, Zenon DEF In, l, r
    <3>7. In' = In
      BY <3>3, <3>5, <3>6 DEF In
    <3> QED
      BY <1>0, <2>1, <3>2, <3>7, InputKept, Zenon
  <2> QED
    BY <1>7, <2>2, <2>3, Zenon DEF OnClientRead
<1>8. CASE NothingToHandle
  <2>1. UNCHANGED <<taken, recv_pipe, inbox, sent, alive, need_close>> /\ pc' = "close"
    BY <1>8, Zenon DEF NothingToHandle, netVars, connVars, locals, history
  <2>2. Complete' => Complete
    <3>1. pc' \in {"handle", "close"}
      BY <2>1
    <3> QED
      BY <2>1, <3>1, Zenon DEF Complete
  <2> QED
    BY <1>1, <2>1, <2>2, Zenon
<1>9. CASE EndRead
  <2>1. taken' = taken /\ sent' = sent
    BY <1>9, Zenon DEF EndRead
  <2>2. CASE Delete
    BY <1>2, <2>2, Zenon DEF Delete
  <2>3. CASE ~need_close /\ UNCHANGED <<inbox, recv_pipe, alive>>
    BY <1>1, <2>1, <2>3, Zenon DEF Complete
  <2> QED
    BY <1>9, <2>2, <2>3, Zenon DEF EndRead, connVars
<1>10. CASE TakeChunk \/ Send
  <2>1. UNCHANGED <<taken, recv_pipe, inbox, sent, alive>> /\ pc \in {"write", "send"}
    BY <1>10 DEF TakeChunk, Send, netVars, history
  <2>2. Complete' => Complete
    <3>1. pc \notin {"handle", "close"}
      BY <2>1
    <3> QED
      BY <2>1, <3>1, Zenon DEF Complete
  <2> QED
    BY <1>1, <2>1, <2>2, Zenon
<1>11. CASE SendFails
  BY <1>2, <1>11, Zenon DEF SendFails, Delete
<1>12. CASE UNCHANGED vars
  <2>1. UNCHANGED <<taken, recv_pipe, inbox, sent, alive, pc, need_close>>
    BY <1>12, Zenon DEF vars, netVars, connVars, locals, history
  <2>2. Complete' => Complete
    BY <2>1, Zenon DEF Complete
  <2> QED
    BY <1>1, <2>1, <2>2, Zenon
<1> QED
  BY <1>3, <1>4, <1>5, <1>6, <1>7, <1>8, <1>9, <1>10, <1>11, <1>12 DEF Next, Handler

LEMMA InvHolds == Spec => []Inv
<1>1. Inv /\ [Next]_vars => Inv'
  BY TypeNext, FlowNext, AnswersNext, InputNext, Zenon DEF Inv, Flow
<1> QED
  BY InvInit, <1>1, PTL DEF Spec

-------------------------------------------------------------------------------
(* The properties. *)

\* What the socket took, the chunk in hand and the send pipe are the pongs for
\* the pings that were taken, in order and each of them once, until a chunk is
\* dropped on EAGAIN or a pong finds no memory.
THEOREM AnswersStayIntact == Spec => []AnswersIntact
<1>1. Inv => AnswersIntact
  BY DEF Inv
<1> QED
  BY InvHolds, <1>1, PTL

\* Between two events, what was taken from the receive pipe, the pipe and what
\* has not been read are what the client sent: a connection that could not keep
\* what it read is gone.
THEOREM InputStaysIntact == Spec => []InputIntact
<1>1. Inv => InputIntact
  <2>1. pc = "idle" => pc \notin {"handle", "close"}
    OBVIOUS
  <2> QED
    BY <2>1, Zenon DEF Inv, Intact, Complete, InputIntact
<1> QED
  BY InvHolds, <1>1, PTL

\* A connection with bytes to send waits for a write event.
THEOREM AnswersStayMarked == Spec => []AnswersAwaitWrite
<1>1. Inv => AnswersAwaitWrite
  BY Zenon DEF Inv, Marked, AnswersAwaitWrite
<1> QED
  BY InvHolds, <1>1, PTL

\* No path of the handlers deletes a connection twice.
THEOREM DeletedAtMostOnce == Spec => []DeletedOnce
<1>1. Inv => DeletedOnce
  BY DEF Inv
<1> QED
  BY InvHolds, <1>1, PTL

===============================================================================
