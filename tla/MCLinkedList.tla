----------------------------- MODULE MCLinkedList -----------------------------
(* An instance of LinkedList for TLC. *)
EXTENDS LinkedList

CONSTANTS n1, n2, n3, n4, d1, d2

FourNodes == {n1, n2, n3, n4}
TwoData == {d1, d2}
===============================================================================
