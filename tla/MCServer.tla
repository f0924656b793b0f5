------------------------------- MODULE MCServer -------------------------------
(* Two loops, handed out to the main thread, to the three clients and to one more
   thread, so that every loop is reached again. *)
EXTENDS Server

CONSTANTS app

Threads == Loops \cup {app, Main}
===============================================================================
