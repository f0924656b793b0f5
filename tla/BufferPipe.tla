------------------------------ MODULE BufferPipe -------------------------------
(***************************************************************************)
(* A buffer_pipe (src/src/buffer_pipe.c): bytes in one block of memory     *)
(* that grows when it has to.  Reading moves the rest to the front, and    *)
(* what tcp_connect_write could not send is put back in front.             *)
(*                                                                         *)
(* data is the block, indexed from 0; the bytes that realloc adds are Junk *)
(* until they are written.                                                 *)
(***************************************************************************)
EXTENDS Integers, Sequences

CONSTANTS
  Bytes,
  Junk,       \* a byte that was never written
  Chunks,     \* the chunks written
  Lengths,    \* the lengths asked for by readers
  BUCKET_LENGTH,
  MaxLength   \* bound: bytes held

ASSUME BufferPipeAssumption ==
  /\ Junk \notin Bytes
  /\ Chunks \subseteq Seq(Bytes) /\ Lengths \subseteq Nat
  /\ BUCKET_LENGTH \in Nat /\ MaxLength \in Nat

VARIABLES
  data,           \* the block
  length,         \* the bytes of it in use
  actual_length,  \* its size
  got, ret        \* what the last operation read and returned

vars == <<data, length, actual_length, got, ret>>

\* The bytes held, the oldest first.
Contents == [i \in 1..length |-> data[i - 1]]

\* buffer_pipe_create
Init ==
  /\ data = <<>> /\ length = 0 /\ actual_length = 0
  /\ got = <<>> /\ ret = 0

\* memmove of n bytes, the first one source[from], to block + to.
Memmove(block, to, n, source, from) ==
  [i \in DOMAIN block |-> IF i \in to..(to + n - 1) THEN source[i - to + from] ELSE block[i]]

\* Mutant of Grown: the block has room for the bytes of the bucket only.
GrownByBucket(n) == length + BUCKET_LENGTH

\* buffer_pipe_expand
Grown(n) == length + n + BUCKET_LENGTH

Realloc(size) == [i \in 0..(size - 1) |-> IF i < actual_length THEN data[i] ELSE Junk]

Fits(n) == length + n <= actual_length

\* The memory that a write of n bytes works on: the block, or a larger one.
Size(n) == IF Fits(n) THEN actual_length ELSE Grown(n)
Block(n) == IF Fits(n) THEN data ELSE Realloc(Grown(n))

Holds(block, n) ==
  /\ data' = block
  /\ length' = length + n /\ actual_length' = Size(n)
  /\ got' = <<>> /\ ret' = 0

\* realloc fails, and the pipe stays as it is.
NoMemory(n) ==
  /\ ~Fits(n)
  /\ got' = <<>> /\ ret' = -1
  /\ UNCHANGED <<data, length, actual_length>>

\* buffer_pipe_write
Write(chunk) ==
  LET n == Len(chunk)
  IN  /\ length + n <= MaxLength
      /\ \/ Holds(Memmove(Block(n), length, n, chunk, 1), n)
         \/ NoMemory(n)

\* Mutant of MovedBack: the bytes are copied one by one from the front, over
\* bytes that are still to be copied.
OverlappingCopy(n) ==
  LET b == Block(n)
  IN  [i \in DOMAIN b |-> IF n > 0 /\ i \in n..(n + length - 1) THEN b[i % n] ELSE b[i]]

\* The bytes held, n places further in the block.
MovedBack(n) == Memmove(Block(n), n, length, Block(n), 0)

\* buffer_pipe_write_head
WriteHead(chunk) ==
  LET n == Len(chunk)
  IN  /\ length + n <= MaxLength
      /\ \/ Holds(Memmove(MovedBack(n), 0, n, chunk, 1), n)
         \/ NoMemory(n)

\* Mutant of Read: the bytes read are not taken out of the count.
ReadKeepsLength(wanted) ==
  LET n == IF length < wanted THEN length ELSE wanted
  IN  /\ got' = [i \in 1..n |-> data[i - 1]] /\ ret' = 0
      /\ data' = Memmove(data, 0, length - n, data, n)
      /\ UNCHANGED <<length, actual_length>>

\* buffer_pipe_read
Read(wanted) ==
  LET n == IF length < wanted THEN length ELSE wanted
  IN  /\ got' = [i \in 1..n |-> data[i - 1]] /\ ret' = 0
      /\ data' = Memmove(data, 0, length - n, data, n)
      /\ length' = length - n
      /\ UNCHANGED actual_length

Next ==
  \/ \E chunk \in Chunks : Write(chunk) \/ WriteHead(chunk)
  \/ \E wanted \in Lengths : Read(wanted)

Spec == Init /\ [][Next]_vars

-------------------------------------------------------------------------------
(* Properties. *)

\* The block has the size that is remembered.
TypeOK ==
  /\ length \in Nat /\ actual_length \in Nat
  /\ data \in [0..(actual_length - 1) -> Bytes \cup {Junk}]
  /\ got \in Seq(Bytes) /\ ret \in {0, -1}

\* The bytes in use are inside the block, and each of them was written.
HoldsBytes == length <= actual_length /\ Contents \in Seq(Bytes)

\* What was just read always fits again without more memory, so that the rest
\* of a partial write put back by tcp_connect_write cannot get lost.
RoomToPutBack == length + Len(got) <= actual_length

\* The pipe is a queue of bytes, whatever is moved around in the block.
Queue == INSTANCE ByteQueue WITH queue <- Contents
ImplementsByteQueue == Queue!Spec
================================================================================
