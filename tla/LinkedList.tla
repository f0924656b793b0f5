------------------------------ MODULE LinkedList ------------------------------
(***************************************************************************)
(* The doubly linked list of src/src/common/list.c, node by node: the      *)
(* pointers of the nodes, the head, the tail and the length, changed one   *)
(* operation after the other.  A search, alone or on behalf of a removal,  *)
(* takes a step for every node it looks at.                                *)
(*                                                                         *)
(* The list is "non-thread safe" (src/src/common/list.h:9): its user       *)
(* calls one function at a time.  EventLoop, TimerList and ChannelPoll     *)
(* keep their lists as sequences; this module shows that they may.         *)
(* When calloc fails an operation changes nothing.                         *)
(***************************************************************************)
EXTENDS Integers, SequencesExt

CONSTANTS
  Nodes,  \* the addresses that calloc can return
  Data,   \* what a node can hold
  NULL

ASSUME LinkedListAssumption == NULL \notin Nodes \cup Data

VARIABLES
  head, tail, length,
  prev, next, data,  \* per node, NULL where nothing is allocated
  alive,             \* the nodes allocated and not freed
  op,                \* the search that is going on
  cursor,            \* the node it looks at next
  what,              \* the data it looks for
  order              \* history: the nodes in the order the operations ask for

listVars == <<head, tail, length, prev, next, data, alive, order>>
searchVars == <<op, cursor, what>>
vars == <<listVars, searchVars>>

Ops == {"idle", "find", "remove", "remove_data", "remove_all"}

Init ==
  /\ head = NULL /\ tail = NULL /\ length = 0
  /\ prev = [n \in Nodes |-> NULL] /\ next = prev /\ data = prev
  /\ alive = {} /\ order = <<>>
  /\ op = "idle" /\ cursor = NULL /\ what = NULL

\* The place of a node; 0 for NULL, which stands before the first.
Position(n) == IF n = NULL THEN 0 ELSE CHOOSE k \in DOMAIN order : order[k] = n

-------------------------------------------------------------------------------
(* Linking and unlinking. *)

\* _data_2_node
Allocate(n, d) ==
  /\ n \in Nodes \ alive
  /\ alive' = alive \cup {n}
  /\ data' = [data EXCEPT ![n] = d]
  /\ length' = length + 1

\* Mutant of LinkBefore: the node before pos keeps its next node.
LinkBeforeOneWay(n, pos) ==
  /\ next' = [next EXCEPT ![n] = pos]
  /\ prev' = [m \in Nodes |-> CASE m = n   -> IF pos = NULL THEN NULL ELSE prev[pos]
                                [] m = pos -> n
                                [] OTHER   -> prev[m]]
  /\ head' = IF head = pos THEN n ELSE head
  /\ tail' = IF tail = NULL THEN n ELSE tail
  /\ order' = InsertAt(order, IF pos = NULL THEN 1 ELSE Position(pos), n)

\* The assignments of list_append_before.
LinkBefore(n, pos) ==
  /\ next' = [m \in Nodes |-> IF m = n THEN pos
                              ELSE IF pos # NULL /\ m = prev[pos] THEN n ELSE next[m]]
  /\ prev' = [m \in Nodes |-> CASE m = n   -> IF pos = NULL THEN NULL ELSE prev[pos]
                                [] m = pos -> n
                                [] OTHER   -> prev[m]]
  /\ head' = IF head = pos THEN n ELSE head
  /\ tail' = IF tail = NULL THEN n ELSE tail
  /\ order' = InsertAt(order, IF pos = NULL THEN 1 ELSE Position(pos), n)

\* The assignments of list_append_after.
LinkAfter(n, pos) ==
  /\ prev' = [m \in Nodes |-> IF m = n THEN pos
                              ELSE IF pos # NULL /\ m = next[pos] THEN n ELSE prev[m]]
  /\ next' = [m \in Nodes |-> CASE m = n   -> IF pos = NULL THEN NULL ELSE next[pos]
                                [] m = pos -> n
                                [] OTHER   -> next[m]]
  /\ head' = IF head = NULL THEN n ELSE head
  /\ tail' = IF tail = pos THEN n ELSE tail
  /\ order' = InsertAt(order, Position(pos) + 1, n)

\* list_remove_node, which frees the node.
Unlink(n) ==
  /\ next' = [m \in Nodes |-> CASE m = n       -> NULL
                                [] m = prev[n] -> next[n]
                                [] OTHER       -> next[m]]
  /\ prev' = [m \in Nodes |-> CASE m = n       -> NULL
                                [] m = next[n] -> prev[n]
                                [] OTHER       -> prev[m]]
  /\ head' = IF head = n THEN next[n] ELSE head
  /\ tail' = IF tail = n THEN prev[n] ELSE tail
  /\ length' = IF length > 0 THEN length - 1 ELSE length
  /\ data' = [data EXCEPT ![n] = NULL]
  /\ alive' = alive \ {n}
  /\ order' = RemoveAt(order, Position(n))

-------------------------------------------------------------------------------
(* The operations. *)

\* pos is a node of the list, or NULL when there is none.
Positions == IF head = NULL THEN {NULL} ELSE alive

AppendBefore(n, d, pos) ==
  /\ op = "idle" /\ pos \in Positions
  /\ Allocate(n, d) /\ LinkBefore(n, pos)
  /\ UNCHANGED searchVars

\* list_append is list_append_after with the tail.
AppendAfter(n, d, pos) ==
  /\ op = "idle" /\ pos \in Positions
  /\ Allocate(n, d) /\ LinkAfter(n, pos)
  /\ UNCHANGED searchVars

RemoveNode(n) ==
  /\ op = "idle" /\ n \in alive
  /\ Unlink(n)
  /\ UNCHANGED searchVars

\* list_find and list_is_exist, list_remove, list_remove_data
BeginSearch(o, d) ==
  /\ op = "idle"
  /\ op' = o /\ cursor' = head /\ what' = d
  /\ UNCHANGED listVars

Searching == op \in {"find", "remove", "remove_data"}
Stop == op' = "idle" /\ cursor' = NULL /\ what' = NULL
GoTo(n) == cursor' = n /\ UNCHANGED <<op, what>>

\* list_find_begin: the node does not hold the data.
PassBy ==
  /\ Searching /\ cursor # NULL /\ data[cursor] # what
  /\ GoTo(next[cursor])
  /\ UNCHANGED listVars

NotFound ==
  /\ Searching /\ cursor = NULL
  /\ Stop
  /\ UNCHANGED listVars

\* Mutant of Found: list_remove_data goes on from a node that is freed.
FoundGoesOnFromFreed ==
  /\ Searching /\ cursor # NULL /\ data[cursor] = what
  /\ \/ op = "find" /\ Stop /\ UNCHANGED listVars
     \/ op = "remove" /\ Stop /\ Unlink(cursor)
     \/ op = "remove_data" /\ Unlink(cursor) /\ GoTo(next'[cursor])

\* The node holds the data; list_remove_data goes on behind it.
Found ==
  /\ Searching /\ cursor # NULL /\ data[cursor] = what
  /\ \/ op = "find" /\ Stop /\ UNCHANGED listVars
     \/ op = "remove" /\ Stop /\ Unlink(cursor)
     \/ op = "remove_data" /\ GoTo(next[cursor]) /\ Unlink(cursor)

\* list_remove_all and list_delete: the head is removed until there is none.
BeginRemoveAll ==
  /\ op = "idle"
  /\ op' = "remove_all"
  /\ UNCHANGED <<listVars, cursor, what>>

RemoveHead ==
  /\ op = "remove_all" /\ head # NULL
  /\ Unlink(head)
  /\ UNCHANGED searchVars

AllRemoved ==
  /\ op = "remove_all" /\ head = NULL
  /\ Stop
  /\ UNCHANGED listVars

Next ==
  \/ \E n \in Nodes, d \in Data, pos \in Nodes \cup {NULL} :
       AppendBefore(n, d, pos) \/ AppendAfter(n, d, pos)
  \/ \E n \in Nodes : RemoveNode(n)
  \/ \E o \in {"find", "remove", "remove_data"}, d \in Data : BeginSearch(o, d)
  \/ PassBy \/ NotFound \/ Found
  \/ BeginRemoveAll \/ RemoveHead \/ AllRemoved

Spec == Init /\ [][Next]_vars

-------------------------------------------------------------------------------
(* Properties. *)

TypeOK ==
  /\ {head, tail, cursor} \subseteq Nodes \cup {NULL} /\ length \in Nat
  /\ prev \in [Nodes -> Nodes \cup {NULL}] /\ next \in [Nodes -> Nodes \cup {NULL}]
  /\ data \in [Nodes -> Data \cup {NULL}] /\ what \in Data \cup {NULL}
  /\ alive \subseteq Nodes /\ op \in Ops
  /\ order \in Seq(Nodes)

\* The node at place k, or NULL outside the list.
Nth(k) == IF k \in DOMAIN order THEN order[k] ELSE NULL

\* Forwards from the head and backwards from the tail the pointers lead through
\* exactly the nodes that the operations should have left, in their order: each
\* once, none of them freed, none forgotten, and length counts them.
WellLinked ==
  /\ head = Nth(1) /\ tail = Nth(Len(order)) /\ length = Len(order)
  /\ \A k \in DOMAIN order :
       next[order[k]] = Nth(k + 1) /\ prev[order[k]] = Nth(k - 1)
  /\ \A j, k \in DOMAIN order : order[j] = order[k] => j = k
  /\ alive = Range(order)

\* A search returns, or removes, the first node with the data; and
\* list_remove_data leaves none with it.
SearchIsExact ==
  [][ /\ op \in {"find", "remove"} /\ op' = "idle" =>
           \A k \in DOMAIN order :
             data[order[k]] = what => Position(cursor) \in 1..k
      /\ op = "remove_data" /\ op' = "idle" =>
           \A k \in DOMAIN order : data[order[k]] # what ]_vars
===============================================================================
