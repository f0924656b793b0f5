------------------------------- MODULE ByteQueue -------------------------------
(***************************************************************************)
(* What a buffer_pipe promises: a queue of bytes to which chunks are       *)
(* written at the end or put back in front, and which refuses a chunk as a *)
(* whole when there is no memory for it.                                   *)
(***************************************************************************)
EXTENDS Integers, Sequences

CONSTANTS
  Chunks  \* the chunks written

VARIABLES
  queue,  \* the bytes written and not read
  got,    \* the bytes that the last operation read
  ret     \* what it returned: 0, or -1 if it failed

vars == <<queue, got, ret>>

Init == queue = <<>> /\ got = <<>> /\ ret = 0

Holds(q) == queue' = q /\ got' = <<>> /\ ret' = 0
Refuses == UNCHANGED queue /\ got' = <<>> /\ ret' = -1

Write(chunk) == Holds(queue \o chunk) \/ Refuses
WriteHead(chunk) == Holds(chunk \o queue) \/ Refuses

Read(n) ==
  /\ got' = SubSeq(queue, 1, n)
  /\ queue' = SubSeq(queue, n + 1, Len(queue))
  /\ ret' = 0

Next ==
  \/ \E chunk \in Chunks : Write(chunk) \/ WriteHead(chunk)
  \/ \E n \in 0..Len(queue) : Read(n)

Spec == Init /\ [][Next]_vars
================================================================================
