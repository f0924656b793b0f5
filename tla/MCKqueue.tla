------------------------------- MODULE MCKqueue -------------------------------
(* A channel that listens, a connection that has the same descriptor, before or
   after it, and another channel, which listens too or is a connection. *)
EXTENDS Kqueue

CONSTANTS listener, c1, other

Fd == [c \in Channels |-> IF c = other THEN 5 ELSE 4]
===============================================================================
