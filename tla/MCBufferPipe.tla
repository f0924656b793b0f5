----------------------------- MODULE MCBufferPipe -----------------------------
(* An instance of BufferPipe for TLC. *)
EXTENDS BufferPipe

CONSTANTS b1, b2

TwoBytes == {b1, b2}
ShortChunks == UNION {[1..n -> TwoBytes] : n \in 0..3}
UpTo5 == 0..5
===============================================================================
