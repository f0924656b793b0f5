---------------------------- MODULE LinkedListProof ----------------------------
(***************************************************************************)
(* Theorems about LinkedList, for all sets of nodes and data.              *)
(***************************************************************************)
EXTENDS LinkedList, SequenceTheorems, TLAPS

\* What a search knows: it is at a node of the list, or behind its end, and no
\* node before that place has the data.
SearchInv ==
  /\ cursor # NULL => cursor \in alive
  /\ ~Searching => cursor = NULL
  /\ Searching => \A k \in DOMAIN order :
       data[order[k]] = what => cursor # NULL /\ Position(cursor) <= k

Inv == TypeOK /\ WellLinked /\ SearchInv

-------------------------------------------------------------------------------
(* Lemmas about sequences. *)

\* What InsertAt puts at every place.
LEMMA InsertAtSeq ==
  ASSUME NEW S, NEW s \in Seq(S), NEW k \in 1..(Len(s) + 1), NEW e \in S
  PROVE  /\ InsertAt(s, k, e) \in Seq(S)
         /\ Len(InsertAt(s, k, e)) = Len(s) + 1
         /\ \A j \in 1..(Len(s) + 1) :
              InsertAt(s, k, e)[j] = IF j < k THEN s[j] ELSE IF j = k THEN e ELSE s[j - 1]
<1> DEFINE a == SubSeq(s, 1, k - 1)
           b == SubSeq(s, k, Len(s))
           c == a \o <<e>>
<1>1. /\ a \in Seq(S) /\ Len(a) = k - 1
      /\ \A j \in 1..(k - 1) : a[j] = s[j]
  OBVIOUS
<1>2. /\ b \in Seq(S) /\ Len(b) = Len(s) - k + 1
      /\ \A j \in 1..(Len(s) - k + 1) : b[j] = s[k + j - 1]
  OBVIOUS
<1>3. InsertAt(s, k, e) = c \o b
  BY DEF InsertAt
<1>4. Len(s) \in Nat /\ k \in Nat
  OBVIOUS
<1> HIDE DEF a, b
<1>5. /\ c \in Seq(S) /\ Len(c) = k
      /\ \A j \in 1..k : c[j] = IF j < k THEN s[j] ELSE e
  BY <1>1
<1> HIDE DEF c
<1>6. /\ c \o b \in Seq(S) /\ Len(c \o b) = Len(c) + Len(b)
      /\ \A j \in 1..(Len(c) + Len(b)) :
           (c \o b)[j] = IF j <= Len(c) THEN c[j] ELSE b[j - Len(c)]
  BY <1>2, <1>5, ConcatProperties
<1>7. Len(c) + Len(b) = Len(s) + 1
  BY <1>2, <1>4, <1>5
<1>8. ASSUME NEW j \in 1..(Len(s) + 1)
      PROVE  (c \o b)[j] = IF j < k THEN s[j] ELSE IF j = k THEN e ELSE s[j - 1]
  <2>1. CASE j <= k
    BY <2>1, <1>4, <1>5, <1>6, <1>7
  <2>2. CASE j > k
    <3> DEFINE i == j - k
    <3>1. i \in 1..(Len(s) - k + 1) /\ k + i - 1 = j - 1 /\ ~(j < k) /\ j # k
      BY <2>2, <1>4
    <3>2. (c \o b)[j] = b[i]
      BY <2>2, <1>4, <1>5, <1>6, <1>7
    <3> HIDE DEF i
    <3>3. b[i] = s[j - 1]
      BY <3>1, <1>2
    <3> QED
      BY <3>1, <3>2, <3>3
  <2>3. j <= k \/ j > k
    BY <1>4
  <2> QED
    BY <2>1, <2>2, <2>3
<1> QED
  BY <1>3, <1>6, <1>7, <1>8

\* What RemoveAt leaves at every place.
LEMMA RemoveAtSeq ==
  ASSUME NEW S, NEW s \in Seq(S), NEW k \in 1..Len(s)
  PROVE  /\ RemoveAt(s, k) \in Seq(S)
         /\ Len(RemoveAt(s, k)) = Len(s) - 1
         /\ \A j \in 1..(Len(s) - 1) :
              RemoveAt(s, k)[j] = IF j < k THEN s[j] ELSE s[j + 1]
<1> DEFINE a == SubSeq(s, 1, k - 1)
           b == SubSeq(s, k + 1, Len(s))
<1>1. /\ a \in Seq(S) /\ Len(a) = k - 1
      /\ \A j \in 1..(k - 1) : a[j] = s[j]
  OBVIOUS
<1>2. /\ b \in Seq(S) /\ Len(b) = Len(s) - k
      /\ \A j \in 1..(Len(s) - k) : b[j] = s[k + j]
  OBVIOUS
<1>3. RemoveAt(s, k) = a \o b
  BY DEF RemoveAt
<1>4. Len(s) \in Nat /\ k \in Nat
  OBVIOUS
<1> HIDE DEF a, b
<1>5. /\ a \o b \in Seq(S) /\ Len(a \o b) = Len(a) + Len(b)
      /\ \A j \in 1..(Len(a) + Len(b)) :
           (a \o b)[j] = IF j <= Len(a) THEN a[j] ELSE b[j - Len(a)]
  BY <1>1, <1>2, ConcatProperties
<1>6. Len(a) + Len(b) = Len(s) - 1
  BY <1>1, <1>2, <1>4
<1>7. ASSUME NEW j \in 1..(Len(s) - 1)
      PROVE  (a \o b)[j] = IF j < k THEN s[j] ELSE s[j + 1]
  <2>1. CASE j < k
    BY <2>1, <1>1, <1>4, <1>5, <1>6
  <2>2. CASE j >= k
    <3> DEFINE i == j - (k - 1)
    <3>1. i \in 1..(Len(s) - k) /\ k + i = j + 1 /\ ~(j <= k - 1)
      BY <2>2, <1>4
    <3>2. (a \o b)[j] = b[i]
      BY <3>1, <1>1, <1>4, <1>5, <1>6
    <3> HIDE DEF i
    <3>3. b[i] = s[k + i]
      BY <3>1, <1>2
    <3> QED
      BY <2>2, <3>1, <3>2, <3>3, <1>4
  <2>3. j < k \/ j >= k
    BY <1>4
  <2> QED
    BY <2>1, <2>2, <2>3
<1> QED
  BY <1>3, <1>5, <1>6, <1>7

-------------------------------------------------------------------------------
\* Every node allocated has one place in the list.
LEMMA PositionOf ==
  ASSUME TypeOK, WellLinked, NEW n \in alive
  PROVE  /\ n \in Nodes /\ n # NULL
         /\ Position(n) \in 1..Len(order) /\ order[Position(n)] = n
         /\ \A k \in 1..Len(order) : order[k] = n => k = Position(n)
<1>1. PICK k \in DOMAIN order : order[k] = n
  BY DEF WellLinked, Range
<1>2. n \in Nodes /\ n # NULL
  BY LinkedListAssumption DEF TypeOK
<1>3. DOMAIN order = 1..Len(order)
  BY DEF TypeOK
<1>4. Position(n) \in DOMAIN order /\ order[Position(n)] = n
  BY <1>1, <1>2 DEF Position
<1> QED
  BY <1>2, <1>3, <1>4 DEF WellLinked

\* The list is empty if and only if it has no head.
LEMMA EmptyList ==
  ASSUME TypeOK, WellLinked
  PROVE  /\ head = NULL <=> order = <<>>
         /\ tail = NULL <=> order = <<>>
         /\ head = NULL => alive = {}
         /\ \A k \in 1..Len(order) : order[k] \in alive
<1>1. DOMAIN order = 1..Len(order) /\ Len(order) \in Nat
  BY DEF TypeOK
<1>2. \A k \in 1..Len(order) : order[k] \in Nodes /\ order[k] # NULL /\ order[k] \in alive
  BY <1>1, LinkedListAssumption DEF TypeOK, WellLinked, Range
<1>3. order = <<>> => head = NULL /\ tail = NULL /\ alive = {}
  BY <1>1 DEF WellLinked, Nth, Range
<1>4. order # <<>> => head # NULL /\ tail # NULL
  <2> SUFFICES ASSUME order # <<>> PROVE head # NULL /\ tail # NULL
    OBVIOUS
  <2>1. 1 \in DOMAIN order /\ Len(order) \in DOMAIN order
    BY <1>1 DEF TypeOK
  <2> QED
    BY <1>1, <1>2, <2>1 DEF WellLinked, Nth
<1> QED
  BY <1>2, <1>3, <1>4

\* What WellLinked says, place by place.
LEMMA Places ==
  ASSUME TypeOK, WellLinked
  PROVE  /\ order \in Seq(Nodes) /\ Len(order) \in Nat /\ length = Len(order)
         /\ head = (IF Len(order) = 0 THEN NULL ELSE order[1])
         /\ tail = (IF Len(order) = 0 THEN NULL ELSE order[Len(order)])
         /\ \A k \in 1..Len(order) :
              /\ order[k] \in Nodes /\ order[k] # NULL /\ order[k] \in alive
              /\ next[order[k]] = (IF k = Len(order) THEN NULL ELSE order[k + 1])
              /\ prev[order[k]] = (IF k = 1 THEN NULL ELSE order[k - 1])
         /\ \A j, k \in 1..Len(order) : order[j] = order[k] => j = k
         /\ \A n \in alive : \E k \in 1..Len(order) : n = order[k]
<1>1. Len(order) \in Nat /\ DOMAIN order = 1..Len(order) /\ order \in Seq(Nodes)
  BY DEF TypeOK
<1>2. \A k \in 1..Len(order) : order[k] \in Nodes /\ order[k] # NULL /\ order[k] \in alive
  BY EmptyList, LinkedListAssumption DEF TypeOK
<1>4. ASSUME NEW k \in 1..Len(order)
      PROVE  /\ next[order[k]] = (IF k = Len(order) THEN NULL ELSE order[k + 1])
             /\ prev[order[k]] = (IF k = 1 THEN NULL ELSE order[k - 1])
  <2>1. next[order[k]] = Nth(k + 1) /\ prev[order[k]] = Nth(k - 1)
    BY <1>1 DEF WellLinked
  <2>2. /\ Nth(k + 1) = IF k + 1 \in 1..Len(order) THEN order[k + 1] ELSE NULL
        /\ Nth(k - 1) = IF k - 1 \in 1..Len(order) THEN order[k - 1] ELSE NULL
    BY <1>1 DEF Nth
  <2>0. Len(order) \in Nat
    BY <1>1
  <2>3. /\ (k + 1 \in 1..Len(order)) <=> (k # Len(order))
        /\ (k - 1 \in 1..Len(order)) <=> (k # 1)
    BY <2>0
  <2> QED
    BY <2>1, <2>2, <2>3
<1>5. /\ head = (IF Len(order) = 0 THEN NULL ELSE order[1])
      /\ tail = (IF Len(order) = 0 THEN NULL ELSE order[Len(order)])
      /\ length = Len(order)
  <2>1. head = Nth(1) /\ tail = Nth(Len(order)) /\ length = Len(order)
    BY DEF WellLinked
  <2> QED
    BY <2>1, <1>1 DEF Nth
<1>6. \A j, k \in 1..Len(order) : order[j] = order[k] => j = k
  BY <1>1 DEF WellLinked
<1>7. \A n \in alive : \E k \in 1..Len(order) : n = order[k]
  BY <1>1 DEF WellLinked, Range
<1> QED
  BY <1>1, <1>2, <1>4, <1>5, <1>6, <1>7

\* Well linked is what has these places.
LEMMA PlacesSuffice ==
  ASSUME NEW m \in Nat, order' \in Seq(Nodes), Len(order') = m, length' = m,
         head' = (IF m = 0 THEN NULL ELSE order'[1]),
         tail' = (IF m = 0 THEN NULL ELSE order'[m]),
         \A k \in 1..m : /\ next'[order'[k]] = (IF k = m THEN NULL ELSE order'[k + 1])
                        /\ prev'[order'[k]] = (IF k = 1 THEN NULL ELSE order'[k - 1]),
         \A j, k \in 1..m : order'[j] = order'[k] => j = k,
         \A n : n \in alive' <=> \E k \in 1..m : n = order'[k]
  PROVE  WellLinked'
<1>1. DOMAIN order' = 1..m
  OBVIOUS
<1>2. head' = Nth(1)' /\ tail' = Nth(Len(order))' /\ length' = Len(order')
  BY <1>1 DEF Nth
<1>3. ASSUME NEW k \in 1..m
      PROVE  next'[order'[k]] = Nth(k + 1)' /\ prev'[order'[k]] = Nth(k - 1)'
  BY <1>1 DEF Nth
<1>4. alive' = Range(order')
  BY <1>1 DEF Range
<1> QED
  BY <1>1, <1>2, <1>3, <1>4 DEF WellLinked

\* A node that is linked between two places keeps the list well linked.
LEMMA Inserted ==
  ASSUME TypeOK, WellLinked, NEW n \in Nodes \ alive, NEW p \in 1..(Len(order) + 1),
         order' = InsertAt(order, p, n), alive' = alive \cup {n}, length' = length + 1,
         head' = (IF p = 1 THEN n ELSE head),
         tail' = (IF p = Len(order) + 1 THEN n ELSE tail),
         next'[n] = (IF p = Len(order) + 1 THEN NULL ELSE order[p]),
         prev'[n] = (IF p = 1 THEN NULL ELSE order[p - 1]),
         \A k \in 1..Len(order) :
           /\ next'[order[k]] = (IF k = p - 1 THEN n ELSE next[order[k]])
           /\ prev'[order[k]] = (IF k = p THEN n ELSE prev[order[k]])
  PROVE  WellLinked' /\ order' \in Seq(Nodes)
<1> DEFINE m == Len(order)
<1>1. /\ order \in Seq(Nodes) /\ m \in Nat /\ p \in Nat /\ 1 <= p /\ p <= m + 1 /\ length = m
      /\ head = (IF m = 0 THEN NULL ELSE order[1])
      /\ tail = (IF m = 0 THEN NULL ELSE order[m])
  BY Places
<1>2. \A k \in 1..m :
        /\ order[k] \in alive /\ order[k] # n
        /\ next[order[k]] = (IF k = m THEN NULL ELSE order[k + 1])
        /\ prev[order[k]] = (IF k = 1 THEN NULL ELSE order[k - 1])
  <2>1. \A k \in 1..m :
          /\ order[k] \in alive
          /\ next[order[k]] = (IF k = m THEN NULL ELSE order[k + 1])
          /\ prev[order[k]] = (IF k = 1 THEN NULL ELSE order[k - 1])
    BY Places, Zenon
  <2> QED
    BY <2>1
<1>3. \A j, k \in 1..m : order[j] = order[k] => j = k
  BY Places
<1>4. \A x \in alive : \E k \in 1..m : x = order[k]
  BY Places
<1>0. n \in Nodes /\ order \in Seq(Nodes) /\ p \in 1..(Len(order) + 1)
  BY <1>1
<1>5. /\ InsertAt(order, p, n) \in Seq(Nodes) /\ Len(InsertAt(order, p, n)) = Len(order) + 1
      /\ \A j \in 1..(Len(order) + 1) :
           InsertAt(order, p, n)[j] = IF j < p THEN order[j] ELSE IF j = p THEN n ELSE order[j - 1]
  BY <1>0, InsertAtSeq
<1>6. /\ order' \in Seq(Nodes) /\ Len(order') = m + 1
      /\ \A j \in 1..(m + 1) :
           order'[j] = IF j < p THEN order[j] ELSE IF j = p THEN n ELSE order[j - 1]
  BY <1>5, Zenon
<1> HIDE DEF m
<1>7. head' = order'[1] /\ tail' = order'[m + 1] /\ length' = m + 1
  BY <1>1, <1>6 DEF m
<1>8. ASSUME NEW k \in 1..(m + 1)
      PROVE  /\ next'[order'[k]] = (IF k = m + 1 THEN NULL ELSE order'[k + 1])
             /\ prev'[order'[k]] = (IF k = 1 THEN NULL ELSE order'[k - 1])
  <2>1. CASE k = p
    BY <2>1, <1>1, <1>6 DEF m
  <2>2. CASE k < p
    <3>1. order'[k] = order[k] /\ k \in 1..m
      BY <2>2, <1>1, <1>6
    <3>2. /\ next'[order[k]] = (IF k = p - 1 THEN n ELSE order[k + 1])
          /\ prev'[order[k]] = (IF k = 1 THEN NULL ELSE order[k - 1])
      BY <3>1, <2>2, <1>1, <1>2 DEF m
    <3> QED
      BY <3>1, <3>2, <2>2, <1>1, <1>6
  <2>3. CASE k > p
    <3> DEFINE i == k - 1
    <3>1. order'[k] = order[i] /\ i \in 1..m /\ k = i + 1 /\ i >= p
      BY <2>3, <1>1, <1>6
    <3> HIDE DEF i
    <3>2. /\ next'[order[i]] = (IF i = m THEN NULL ELSE order[i + 1])
          /\ prev'[order[i]] = (IF i = p THEN n ELSE order[i - 1])
      BY <3>1, <1>1, <1>2 DEF m
    <3>3. i # m => order'[i + 2] = order[i + 1]
      <4>0. m \in Nat /\ p \in Nat /\ i \in 1..m /\ i >= p
        BY <3>1, <1>1
      <4>1. i # m => i + 2 \in 1..(m + 1) /\ (i + 2) - 1 = i + 1 /\ ~(i + 2 < p) /\ i + 2 # p
        BY <4>0
      <4> QED
        BY <4>1, <1>6
    <3>4. order'[i] = IF i = p THEN n ELSE order[i - 1]
      BY <3>1, <1>1, <1>6
    <3> QED
      BY <3>1, <3>2, <3>3, <3>4, <1>1
  <2> QED
    BY <2>1, <2>2, <2>3, <1>1
<1>9. ASSUME NEW j \in 1..(m + 1), NEW k \in 1..(m + 1), order'[j] = order'[k]
      PROVE  j = k
  <2>1. /\ j < p => j \in 1..m /\ order'[j] = order[j]
        /\ j > p => j - 1 \in 1..m /\ order'[j] = order[j - 1]
        /\ j = p => order'[j] = n
    BY <1>1, <1>6
  <2>2. /\ k < p => k \in 1..m /\ order'[k] = order[k]
        /\ k > p => k - 1 \in 1..m /\ order'[k] = order[k - 1]
        /\ k = p => order'[k] = n
    BY <1>1, <1>6
  <2> QED
    <3>0. j \in Int /\ k \in Int /\ p \in Int
      BY <1>1
    <3>1. CASE j = p
      BY <3>1, <2>1, <2>2, <1>1, <1>2, <1>9
    <3>2. CASE k = p
      BY <3>2, <2>1, <2>2, <1>1, <1>2, <1>9
    <3>3. CASE j < p
      <4>1. k < p => j = k
        BY <3>3, <2>1, <2>2, <1>3, <1>9
      <4>2. k > p => j = k - 1
        BY <3>3, <2>1, <2>2, <1>3, <1>9
      <4> QED
        BY <4>1, <4>2, <3>0, <3>2, <3>3
    <3>4. CASE j > p
      <4>1. k < p => j - 1 = k
        BY <3>4, <2>1, <2>2, <1>3, <1>9
      <4>2. k > p => j - 1 = k - 1
        BY <3>4, <2>1, <2>2, <1>3, <1>9
      <4> QED
        BY <4>1, <4>2, <3>0, <3>2, <3>4
    <3> QED
      BY <3>1, <3>2, <3>3, <3>4, <1>1
<1>10. ASSUME NEW x
       PROVE  x \in alive' <=> \E k \in 1..(m + 1) : x = order'[k]
  <2>1. ASSUME NEW k \in 1..m
        PROVE  \E j \in 1..(m + 1) : order[k] = order'[j]
    <3>1. CASE k < p
      <4>1. k \in 1..(m + 1) /\ order'[k] = order[k]
        BY <3>1, <1>1, <1>6
      <4> QED
        BY <4>1
    <3>2. CASE k >= p
      <4>1. k + 1 \in 1..(m + 1) /\ order'[k + 1] = order[(k + 1) - 1] /\ (k + 1) - 1 = k
        BY <3>2, <1>1, <1>6
      <4> QED
        BY <4>1
    <3> QED
      BY <3>1, <3>2, <1>1
  <2>2. p \in 1..(m + 1) /\ order'[p] = n
    BY <1>1, <1>6
  <2>3. x \in alive' => \E k \in 1..(m + 1) : x = order'[k]
    BY <2>1, <2>2, <1>4
  <2>4. ASSUME NEW k \in 1..(m + 1)
        PROVE  order'[k] \in alive'
    <3>1. /\ k < p => k \in 1..m /\ order'[k] = order[k]
          /\ k > p => k - 1 \in 1..m /\ order'[k] = order[k - 1]
          /\ k = p => order'[k] = n
      BY <1>1, <1>6
    <3> QED
      BY <3>1, <1>1, <1>2
  <2> QED
    BY <2>3, <2>4
<1>11. m + 1 \in Nat /\ m + 1 # 0
  BY <1>1
<1> QED
  BY <1>6, <1>7, <1>8, <1>9, <1>10, <1>11, PlacesSuffice

\* So does a node that is taken out of it.
LEMMA Removed ==
  ASSUME TypeOK, WellLinked, NEW n \in alive, Unlink(n)
  PROVE  /\ WellLinked' /\ order' \in Seq(Nodes)
         /\ Len(order') = Len(order) - 1
         /\ \A j \in 1..(Len(order) - 1) :
              order'[j] = IF j < Position(n) THEN order[j] ELSE order[j + 1]
<1> DEFINE m == Len(order)
           p == Position(n)
<1>1. /\ order \in Seq(Nodes) /\ m \in Nat /\ length = m
      /\ head = (IF m = 0 THEN NULL ELSE order[1])
      /\ tail = (IF m = 0 THEN NULL ELSE order[m])
      /\ n \in Nodes /\ n # NULL
      /\ p \in 1..m /\ order[p] = n
  BY Places, PositionOf
<1>2. \A k \in 1..m :
        /\ order[k] \in alive /\ order[k] \in Nodes /\ order[k] # NULL
        /\ next[order[k]] = (IF k = m THEN NULL ELSE order[k + 1])
        /\ prev[order[k]] = (IF k = 1 THEN NULL ELSE order[k - 1])
  BY Places
<1>3. \A j, k \in 1..m : order[j] = order[k] => j = k
  BY Places
<1>4. \A x \in alive : \E k \in 1..m : x = order[k]
  BY Places
<1> HIDE DEF p
<1>5. /\ RemoveAt(order, p) \in Seq(Nodes) /\ Len(RemoveAt(order, p)) = Len(order) - 1
      /\ \A j \in 1..(Len(order) - 1) :
           RemoveAt(order, p)[j] = IF j < p THEN order[j] ELSE order[j + 1]
  BY <1>1, RemoveAtSeq, Zenon
<1>6. /\ order' \in Seq(Nodes) /\ Len(order') = m - 1
      /\ \A j \in 1..(m - 1) : order'[j] = IF j < p THEN order[j] ELSE order[j + 1]
  BY <1>5 DEF Unlink, p
<1>7. /\ length' = m - 1
      /\ head' = (IF p = 1 THEN next[n] ELSE head)
      /\ tail' = (IF p = m THEN prev[n] ELSE tail)
      /\ alive' = alive \ {n}
  BY <1>1, <1>3 DEF Unlink
<1>8. ASSUME NEW k \in 1..m, k # p
      PROVE  /\ next'[order[k]] = (IF k = p - 1 THEN next[n] ELSE next[order[k]])
             /\ prev'[order[k]] = (IF k = p + 1 THEN prev[n] ELSE prev[order[k]])
  <2>1. order[k] # n /\ order[k] # NULL /\ order[k] \in Nodes
    BY <1>1, <1>2, <1>3, <1>8
  <2>2. order[k] = prev[n] <=> k = p - 1
    <3>1. p # 1 => p - 1 \in 1..m
      BY <1>1
    <3> QED
      BY <3>1, <2>1, <1>1, <1>2, <1>3
  <2>3. order[k] = next[n] <=> k = p + 1
    <3>1. p # m => p + 1 \in 1..m
      BY <1>1
    <3> QED
      BY <3>1, <2>1, <1>1, <1>2, <1>3
  <2> QED
    BY <2>1, <2>2, <2>3 DEF Unlink
<1> HIDE DEF m
<1>9. /\ next[n] = (IF p = m THEN NULL ELSE order[p + 1])
      /\ prev[n] = (IF p = 1 THEN NULL ELSE order[p - 1])
  BY <1>1, <1>2
<1>10. /\ head' = (IF m - 1 = 0 THEN NULL ELSE order'[1])
       /\ tail' = (IF m - 1 = 0 THEN NULL ELSE order'[m - 1])
  BY <1>1, <1>6, <1>7, <1>9
<1>11. ASSUME NEW k \in 1..(m - 1)
       PROVE  /\ next'[order'[k]] = (IF k = m - 1 THEN NULL ELSE order'[k + 1])
              /\ prev'[order'[k]] = (IF k = 1 THEN NULL ELSE order'[k - 1])
  <2>1. CASE k < p
    <3>1. order'[k] = order[k] /\ k \in 1..m /\ k # p
      BY <2>1, <1>1, <1>6
    <3>2. /\ next'[order[k]] = (IF k = p - 1 THEN next[n] ELSE order[k + 1])
          /\ prev'[order[k]] = (IF k = 1 THEN NULL ELSE order[k - 1])
      <4>1. /\ next[order[k]] = (IF k = m THEN NULL ELSE order[k + 1])
            /\ prev[order[k]] = (IF k = 1 THEN NULL ELSE order[k - 1])
        BY <3>1, <1>2
      <4>2. /\ next'[order[k]] = (IF k = p - 1 THEN next[n] ELSE next[order[k]])
            /\ prev'[order[k]] = (IF k = p + 1 THEN prev[n] ELSE prev[order[k]])
        BY <3>1, <1>8
      <4>3. k # m /\ k # p + 1
        BY <3>1, <2>1, <1>1
      <4> QED
        BY <4>1, <4>2, <4>3
    <3> QED
      BY <3>1, <3>2, <2>1, <1>1, <1>6, <1>9
  <2>2. CASE k >= p
    <3> DEFINE i == k + 1
    <3>0. m \in Nat /\ p \in 1..m
      BY <1>1
    <3>1. order'[k] = order[i] /\ i \in 1..m /\ i # p /\ k = i - 1 /\ i > p
      BY <2>2, <3>0, <1>6
    <3> HIDE DEF i
    <3>2. /\ next'[order[i]] = (IF i = m THEN NULL ELSE order[i + 1])
          /\ prev'[order[i]] = (IF i = p + 1 THEN prev[n] ELSE order[i - 1])
      <4>1. /\ next[order[i]] = (IF i = m THEN NULL ELSE order[i + 1])
            /\ prev[order[i]] = (IF i = 1 THEN NULL ELSE order[i - 1])
        BY <3>1, <1>2
      <4>2. /\ next'[order[i]] = (IF i = p - 1 THEN next[n] ELSE next[order[i]])
            /\ prev'[order[i]] = (IF i = p + 1 THEN prev[n] ELSE prev[order[i]])
        BY <3>1, <1>8
      <4>3. i # 1 /\ i # p - 1
        BY <3>0, <3>1
      <4> QED
        BY <4>1, <4>2, <4>3
    <3>3. i # m => order'[i] = order[i + 1]
      <4>1. i # m => i \in 1..(m - 1) /\ ~(i < p)
        BY <3>0, <3>1
      <4> QED
        BY <4>1, <1>6
    <3>4. k # 1 => order'[k - 1] = IF i = p + 1 THEN order[p - 1] ELSE order[i - 1]
      BY <3>1, <1>1, <1>6
    <3>5. i = p + 1 => k = p
      BY <3>1, <1>1
    <3> QED
      BY <3>1, <3>2, <3>3, <3>4, <3>5, <1>1, <1>9
  <2> QED
    BY <2>1, <2>2, <1>1
<1>12. ASSUME NEW j \in 1..(m - 1), NEW k \in 1..(m - 1), order'[j] = order'[k]
       PROVE  j = k
  <2>1. /\ j < p => j \in 1..m /\ order'[j] = order[j]
        /\ j >= p => j + 1 \in 1..m /\ order'[j] = order[j + 1]
    BY <1>1, <1>6
  <2>2. /\ k < p => k \in 1..m /\ order'[k] = order[k]
        /\ k >= p => k + 1 \in 1..m /\ order'[k] = order[k + 1]
    BY <1>1, <1>6
  <2> QED
    BY <2>1, <2>2, <1>1, <1>3, <1>12
<1>13. ASSUME NEW x
       PROVE  x \in alive' <=> \E k \in 1..(m - 1) : x = order'[k]
  <2>1. ASSUME NEW k \in 1..m, k # p
        PROVE  \E j \in 1..(m - 1) : order[k] = order'[j]
    <3>1. CASE k < p
      <4>1. k \in 1..(m - 1) /\ order'[k] = order[k]
        BY <3>1, <1>1, <1>6
      <4> QED
        BY <4>1
    <3>2. CASE k > p
      <4>1. k - 1 \in 1..(m - 1) /\ order'[k - 1] = order[(k - 1) + 1] /\ (k - 1) + 1 = k
        BY <3>2, <1>1, <1>6
      <4> QED
        BY <4>1
    <3> QED
      BY <3>1, <3>2, <2>1, <1>1
  <2>2. x \in alive' => \E k \in 1..(m - 1) : x = order'[k]
    <3> SUFFICES ASSUME x \in alive' PROVE \E k \in 1..(m - 1) : x = order'[k]
      OBVIOUS
    <3>1. x \in alive /\ x # n
      BY <1>7
    <3>2. PICK k \in 1..m : x = order[k]
      BY <3>1, <1>4
    <3>3. k # p
      BY <3>1, <3>2, <1>1
    <3> QED
      BY <3>2, <3>3, <2>1
  <2>3. ASSUME NEW k \in 1..(m - 1)
        PROVE  order'[k] \in alive'
    <3>1. /\ k < p => k \in 1..m /\ k # p /\ order'[k] = order[k]
          /\ k >= p => k + 1 \in 1..m /\ k + 1 # p /\ order'[k] = order[k + 1]
      BY <1>1, <1>6
    <3> QED
      BY <3>1, <1>1, <1>2, <1>3, <1>7
  <2> QED
    BY <2>2, <2>3
<1>14. m - 1 \in Nat
  BY <1>1
<1>15. WellLinked'
  BY <1>6, <1>7, <1>10, <1>11, <1>12, <1>13, <1>14, PlacesSuffice
<1> QED
  BY <1>6, <1>15 DEF m, p

LEMMA LinksBefore ==
  ASSUME TypeOK, WellLinked, NEW n, NEW d \in Data, NEW pos \in Positions,
         Allocate(n, d), LinkBefore(n, pos)
  PROVE  WellLinked' /\ order' \in Seq(Nodes)
<1>1. /\ n \in Nodes \ alive /\ alive' = alive \cup {n} /\ length' = length + 1
      /\ \A k \in 1..Len(order) : order[k] # n /\ order[k] \in Nodes /\ order[k] # NULL
  BY Places DEF Allocate
<1>2. /\ Len(order) \in Nat
      /\ head = (IF Len(order) = 0 THEN NULL ELSE order[1])
      /\ tail = (IF Len(order) = 0 THEN NULL ELSE order[Len(order)])
  BY Places
<1>3. CASE pos = NULL
  <2>1. order = <<>> /\ Len(order) = 0 /\ 1 \in 1..(Len(order) + 1)
    BY <1>2, <1>3, PositionOf, EmptyList, LinkedListAssumption DEF Positions, TypeOK
  <2>2. order' = InsertAt(order, 1, n) /\ head' = n /\ tail' = n
    BY <1>2, <1>3, <2>1 DEF LinkBefore
  <2>3. next'[n] = NULL /\ prev'[n] = NULL
    BY <1>1, <1>3 DEF LinkBefore
  <2> QED
    BY <1>1, <2>1, <2>2, <2>3, Inserted
<1>4. CASE pos # NULL
  <2> DEFINE p == Position(pos)
  <2>1. p \in 1..Len(order) /\ order[p] = pos /\ pos \in alive /\ pos # n
    BY <1>1, <1>4, PositionOf DEF Positions
  <2>2. order' = InsertAt(order, p, n)
    BY <1>4 DEF LinkBefore
  <2> HIDE DEF p
  <2>3. prev[pos] = (IF p = 1 THEN NULL ELSE order[p - 1])
    BY <2>1, Places
  <2>4. head' = (IF p = 1 THEN n ELSE head) /\ tail' = tail
    <3>1. pos = order[1] <=> p = 1
      BY <2>1, <1>2, Places
    <3> QED
      BY <3>1, <2>1, <1>1, <1>2 DEF LinkBefore
  <2>5. next'[n] = order[p] /\ prev'[n] = (IF p = 1 THEN NULL ELSE order[p - 1])
    BY <1>1, <1>4, <2>1, <2>3 DEF LinkBefore
  <2>6. ASSUME NEW k \in 1..Len(order)
        PROVE  /\ next'[order[k]] = (IF k = p - 1 THEN n ELSE next[order[k]])
               /\ prev'[order[k]] = (IF k = p THEN n ELSE prev[order[k]])
    <3>1. order[k] = pos <=> k = p
      BY <2>1, Places
    <3>2. order[k] = prev[pos] <=> k = p - 1
      <4>1. p # 1 => p - 1 \in 1..Len(order)
        BY <2>1, <1>2
      <4>2. \A j \in 1..Len(order) : order[j] = order[k] => j = k
        BY Places
      <4> QED
        BY <4>1, <4>2, <2>1, <2>3, <1>1, <1>2
    <3> QED
      BY <3>1, <3>2, <1>1, <1>4 DEF LinkBefore
  <2>7. p \in 1..(Len(order) + 1) /\ p # Len(order) + 1
    BY <2>1, <1>2
  <2> QED
    BY <1>1, <2>2, <2>4, <2>5, <2>6, <2>7, Inserted
<1> QED
  BY <1>3, <1>4

LEMMA LinksAfter ==
  ASSUME TypeOK, WellLinked, NEW n, NEW d \in Data, NEW pos \in Positions,
         Allocate(n, d), LinkAfter(n, pos)
  PROVE  WellLinked' /\ order' \in Seq(Nodes)
<1>1. /\ n \in Nodes \ alive /\ alive' = alive \cup {n} /\ length' = length + 1
      /\ \A k \in 1..Len(order) : order[k] # n /\ order[k] \in Nodes /\ order[k] # NULL
  BY Places DEF Allocate
<1>2. /\ Len(order) \in Nat
      /\ head = (IF Len(order) = 0 THEN NULL ELSE order[1])
      /\ tail = (IF Len(order) = 0 THEN NULL ELSE order[Len(order)])
  BY Places
<1>3. CASE pos = NULL
  <2>1. order = <<>> /\ Len(order) = 0 /\ 1 \in 1..(Len(order) + 1)
    BY <1>2, <1>3, PositionOf, EmptyList, LinkedListAssumption DEF Positions, TypeOK
  <2>2. order' = InsertAt(order, 1, n) /\ head' = n /\ tail' = n
    BY <1>2, <1>3, <2>1 DEF LinkAfter, Position
  <2>3. next'[n] = NULL /\ prev'[n] = NULL
    BY <1>1, <1>3 DEF LinkAfter
  <2> QED
    BY <1>1, <2>1, <2>2, <2>3, Inserted
<1>4. CASE pos # NULL
  <2> DEFINE q == Position(pos)
             p == q + 1
  <2>1. q \in 1..Len(order) /\ order[q] = pos /\ pos \in alive /\ pos # n
    BY <1>1, <1>4, PositionOf DEF Positions
  <2>2. order' = InsertAt(order, p, n)
    BY <1>4 DEF LinkAfter
  <2> HIDE DEF q
  <2>3. next[pos] = (IF q = Len(order) THEN NULL ELSE order[q + 1])
    BY <2>1, Places
  <2>4. head' = head /\ tail' = (IF q = Len(order) THEN n ELSE tail)
    <3>1. pos = order[Len(order)] <=> q = Len(order)
      BY <2>1, <1>2, Places
    <3> QED
      BY <3>1, <2>1, <1>1, <1>2 DEF LinkAfter
  <2>5. next'[n] = (IF q = Len(order) THEN NULL ELSE order[q + 1]) /\ prev'[n] = order[q]
    BY <1>1, <1>4, <2>1, <2>3 DEF LinkAfter
  <2>6. ASSUME NEW k \in 1..Len(order)
        PROVE  /\ next'[order[k]] = (IF k = q THEN n ELSE next[order[k]])
               /\ prev'[order[k]] = (IF k = q + 1 THEN n ELSE prev[order[k]])
    <3>1. order[k] = pos <=> k = q
      BY <2>1, Places
    <3>2. order[k] = next[pos] <=> k = q + 1
      <4>1. q # Len(order) => q + 1 \in 1..Len(order)
        BY <2>1, <1>2
      <4>2. \A j \in 1..Len(order) : order[j] = order[k] => j = k
        BY Places
      <4> QED
        BY <4>1, <4>2, <2>1, <2>3, <1>1, <1>2
    <3> QED
      BY <3>1, <3>2, <1>1, <1>4 DEF LinkAfter
  <2>7. /\ p \in 1..(Len(order) + 1) /\ p # 1 /\ p - 1 = q
        /\ p = Len(order) + 1 <=> q = Len(order)
    BY <2>1, <1>2
  <2> HIDE DEF p
  <2>8. q + 1 = p
    BY DEF p
  <2> QED
    BY <1>1, <2>2, <2>4, <2>5, <2>6, <2>7, <2>8, Inserted
<1> QED
  BY <1>3, <1>4

-------------------------------------------------------------------------------
(* The invariant. *)

LEMMA InvInit == Init => Inv
<1> SUFFICES ASSUME Init PROVE Inv
  OBVIOUS
<1>1. TypeOK
  BY DEF Init, TypeOK, Ops
<1>2. order = <<>> /\ Len(order) = 0 /\ DOMAIN order = {}
  BY DEF Init
<1>3. WellLinked
  BY <1>2 DEF Init, WellLinked, Nth, Range
<1>4. SearchInv
  BY <1>2 DEF Init, SearchInv, Searching
<1> QED
  BY <1>1, <1>3, <1>4 DEF Inv

\* The place of a node in a sequence that has it once.
LEMMA OnePlace ==
  ASSUME NEW s \in Seq(Nodes), NEW j \in 1..Len(s),
         \A i, k \in 1..Len(s) : s[i] = s[k] => i = k
  PROVE  (CHOOSE k \in DOMAIN s : s[k] = s[j]) = j
<1>1. DOMAIN s = 1..Len(s)
  OBVIOUS
<1>2. \E k \in DOMAIN s : s[k] = s[j]
  BY <1>1
<1> QED
  BY <1>1, <1>2

LEMMA PositionOfPlace ==
  ASSUME TypeOK, WellLinked, NEW j \in 1..Len(order)
  PROVE  Position(order[j]) = j
BY Places, OnePlace DEF Position

\* The types of what the operations assign.
LEMMA LinkTypes ==
  ASSUME TypeOK, order' \in Seq(Nodes), NEW n, NEW d \in Data,
         NEW pos \in Nodes \cup {NULL},
         Allocate(n, d), LinkBefore(n, pos) \/ LinkAfter(n, pos), UNCHANGED searchVars
  PROVE  TypeOK'
<1>1. n \in Nodes /\ alive' \subseteq Nodes /\ length' \in Nat
  BY DEF Allocate, TypeOK
<1>2. data' \in [Nodes -> Data \cup {NULL}]
  BY DEF Allocate, TypeOK
<1>3. head' \in Nodes \cup {NULL} /\ tail' \in Nodes \cup {NULL}
  BY <1>1 DEF LinkBefore, LinkAfter, TypeOK
<1>4. pos # NULL => prev[pos] \in Nodes \cup {NULL} /\ next[pos] \in Nodes \cup {NULL}
  BY DEF TypeOK
<1>5. \A m \in Nodes : next[m] \in Nodes \cup {NULL} /\ prev[m] \in Nodes \cup {NULL}
  BY DEF TypeOK
<1>6. /\ next' \in [Nodes -> Nodes \cup {NULL}]
      /\ prev' \in [Nodes -> Nodes \cup {NULL}]
  <2>1. CASE LinkBefore(n, pos)
    <3>1. next' \in [Nodes -> Nodes \cup {NULL}]
      BY <2>1, <1>1, <1>4, <1>5 DEF LinkBefore
    <3>2. prev' \in [Nodes -> Nodes \cup {NULL}]
      BY <2>1, <1>1, <1>4, <1>5 DEF LinkBefore
    <3> QED
      BY <3>1, <3>2
  <2>2. CASE LinkAfter(n, pos)
    <3>1. next' \in [Nodes -> Nodes \cup {NULL}]
      BY <2>2, <1>1, <1>4, <1>5 DEF LinkAfter
    <3>2. prev' \in [Nodes -> Nodes \cup {NULL}]
      BY <2>2, <1>1, <1>4, <1>5 DEF LinkAfter
    <3> QED
      BY <3>1, <3>2
  <2> QED
    BY <2>1, <2>2
<1> QED
  BY <1>1, <1>2, <1>3, <1>6 DEF TypeOK, searchVars

LEMMA UnlinkTypes ==
  ASSUME TypeOK, order' \in Seq(Nodes), NEW n \in Nodes, Unlink(n),
         op' \in Ops, cursor' \in Nodes \cup {NULL}, what' \in Data \cup {NULL}
  PROVE  TypeOK'
<1>1. \A m \in Nodes : next[m] \in Nodes \cup {NULL} /\ prev[m] \in Nodes \cup {NULL}
  BY DEF TypeOK
<1>2. alive' \subseteq Nodes /\ length' \in Nat
  BY DEF Unlink, TypeOK
<1>3. data' \in [Nodes -> Data \cup {NULL}]
  BY DEF Unlink, TypeOK
<1>4. head' \in Nodes \cup {NULL} /\ tail' \in Nodes \cup {NULL}
  BY <1>1 DEF Unlink, TypeOK
<1>5. next' \in [Nodes -> Nodes \cup {NULL}]
  BY <1>1 DEF Unlink
<1>6. prev' \in [Nodes -> Nodes \cup {NULL}]
  BY <1>1 DEF Unlink
<1> QED
  BY <1>2, <1>3, <1>4, <1>5, <1>6 DEF TypeOK

LEMMA SameList ==
  ASSUME WellLinked, UNCHANGED listVars
  PROVE  WellLinked'
BY DEF WellLinked, Nth, listVars

\* No search goes on, before or after the step.
LEMMA NoSearch ==
  ASSUME SearchInv, op' \notin {"find", "remove", "remove_data"}, cursor' = NULL
  PROVE  SearchInv'
BY DEF SearchInv, Searching

\* list_append_before, list_append_after and list_append.
LEMMA AppendKeepsInv ==
  ASSUME Inv, NEW n, NEW d \in Data, NEW pos,
         AppendBefore(n, d, pos) \/ AppendAfter(n, d, pos)
  PROVE  Inv'
<1>1. Allocate(n, d) /\ (LinkBefore(n, pos) \/ LinkAfter(n, pos)) /\ UNCHANGED searchVars
  BY DEF AppendBefore, AppendAfter
<1>2. pos \in Positions /\ pos \in Nodes \cup {NULL} /\ op = "idle"
  BY DEF AppendBefore, AppendAfter, Positions, Inv, TypeOK
<1>3. WellLinked' /\ order' \in Seq(Nodes)
  BY <1>1, <1>2, LinksBefore, LinksAfter DEF Inv
<1>4. TypeOK'
  BY <1>1, <1>2, <1>3, LinkTypes DEF Inv
<1>5. SearchInv'
  BY <1>1, <1>2, NoSearch DEF Inv, SearchInv, Searching, searchVars
<1> QED
  BY <1>3, <1>4, <1>5 DEF Inv

\* A node is removed outside a search: list_remove_node and list_remove_all.
LEMMA RemoveKeepsInv ==
  ASSUME Inv, NEW n \in alive, Unlink(n), ~Searching, UNCHANGED searchVars
  PROVE  Inv'
<1>1. WellLinked' /\ order' \in Seq(Nodes)
  BY Removed DEF Inv
<1>2. n \in Nodes /\ cursor = NULL
  BY DEF Inv, TypeOK, SearchInv
<1>3. TypeOK'
  BY <1>1, <1>2, UnlinkTypes DEF Inv, TypeOK, searchVars
<1>4. SearchInv'
  BY <1>2, NoSearch DEF Inv, Searching, searchVars
<1> QED
  BY <1>1, <1>3, <1>4 DEF Inv

\* A search starts at the head, before which there is nothing.
LEMMA BeginKeepsInv ==
  ASSUME Inv, NEW o \in {"find", "remove", "remove_data"}, NEW d \in Data, BeginSearch(o, d)
  PROVE  Inv'
<1>1. UNCHANGED listVars /\ op' = o /\ cursor' = head /\ what' = d
  BY DEF BeginSearch
<1>2. TypeOK'
  BY <1>1 DEF Inv, TypeOK, listVars, Ops
<1>3. WellLinked'
  BY <1>1, SameList DEF Inv
<1>4. cursor' # NULL => cursor' \in alive'
  BY <1>1, Places DEF Inv, listVars
<1>5. ASSUME NEW k \in DOMAIN order PROVE head # NULL /\ Position(head) <= k
  <2>1. k \in 1..Len(order) /\ Len(order) \in Nat
    BY <1>5, Places DEF Inv
  <2>2. head = order[1] /\ order[1] # NULL /\ 1 \in 1..Len(order)
    BY <2>1, Places DEF Inv
  <2>3. Position(head) = 1
    BY <2>2, PositionOfPlace DEF Inv
  <2> QED
    BY <2>1, <2>2, <2>3
<1>6. Position(head)' = Position(head)
  BY <1>1 DEF Position, listVars
<1>7. SearchInv'
  <2>1. order' = order /\ data' = data /\ head' = head
    BY <1>1 DEF listVars
  <2>2. Position(cursor)' = Position(head)
    BY <1>1, <2>1 DEF Position
  <2>3. Searching'
    BY <1>1 DEF Searching
  <2> QED
    BY <1>1, <1>4, <1>5, <2>1, <2>2, <2>3 DEF SearchInv
<1> QED
  BY <1>2, <1>3, <1>7 DEF Inv

\* What a search knows after it has gone on from the node at place p.
LEMMA PassKeepsInv == ASSUME Inv, PassBy PROVE Inv'
<1>1. /\ UNCHANGED listVars /\ op' = op /\ what' = what /\ cursor' = next[cursor]
      /\ Searching /\ cursor # NULL /\ data[cursor] # what
  BY DEF PassBy, GoTo
<1>2. order' = order /\ data' = data /\ alive' = alive
  BY <1>1 DEF listVars
<1> DEFINE p == Position(cursor)
           m == Len(order)
<1>3. cursor \in alive /\ p \in 1..m /\ order[p] = cursor /\ m \in Nat
  BY <1>1, PositionOf, Places DEF Inv, SearchInv
<1> HIDE DEF p
<1>4. next[cursor] = IF p = m THEN NULL ELSE order[p + 1]
  BY <1>3, Places DEF Inv
<1>5. p # m => /\ p + 1 \in 1..m /\ order[p + 1] \in alive /\ order[p + 1] # NULL
               /\ Position(order[p + 1]) = p + 1
  <2>1. p # m => p + 1 \in 1..m
    BY <1>3
  <2> QED
    BY <2>1, Places, PositionOfPlace DEF Inv
<1>6. TypeOK'
  BY <1>1, <1>2, <1>4, <1>5 DEF Inv, TypeOK, listVars
<1>7. ASSUME NEW k \in DOMAIN order, data[order[k]] = what
      PROVE  p # m /\ p + 1 <= k
  <2>1. p <= k /\ k \in 1..m
    BY <1>1, <1>7, Places DEF Inv, SearchInv, p
  <2>2. k # p
    BY <1>1, <1>3, <1>7
  <2> QED
    BY <2>1, <2>2, <1>3
<1>8. SearchInv'
  <2>1. Position(cursor)' = Position(cursor')
    BY <1>2 DEF Position
  <2>2. p # m => cursor' = order[p + 1] /\ Position(cursor)' = p + 1
    BY <2>1, <1>1, <1>4, <1>5
  <2>3. cursor' # NULL => p # m
    BY <1>1, <1>4
  <2>4. Searching'
    BY <1>1 DEF Searching
  <2> QED
    BY <1>1, <1>2, <1>5, <1>7, <2>2, <2>3, <2>4 DEF SearchInv
<1> QED
  BY <1>1, <1>6, <1>8, SameList DEF Inv

\* A search is at the data it looks for: the node that list_remove and
\* list_remove_data free is the first that holds it.
LEMMA FoundKeepsInv == ASSUME Inv, Found PROVE Inv'
<1>1. cursor \in alive /\ cursor # NULL /\ data[cursor] = what /\ Searching
  BY DEF Found, Inv, SearchInv
<1>2. CASE op = "find" /\ Stop /\ UNCHANGED listVars
  <2>1. TypeOK'
    BY <1>2 DEF Stop, Inv, TypeOK, listVars, Ops
  <2>2. SearchInv'
    BY <1>2, NoSearch DEF Stop, Inv
  <2> QED
    BY <2>1, <2>2, <1>2, SameList DEF Inv
<1>3. CASE op = "remove" /\ Stop /\ Unlink(cursor)
  <2>1. WellLinked' /\ order' \in Seq(Nodes)
    BY <1>1, <1>3, Removed DEF Inv
  <2>2. TypeOK'
    BY <1>1, <1>3, <2>1, UnlinkTypes DEF Stop, Inv, TypeOK, Ops
  <2>3. SearchInv'
    BY <1>3, NoSearch DEF Stop, Inv
  <2> QED
    BY <2>1, <2>2, <2>3 DEF Inv
<1>4. CASE op = "remove_data" /\ GoTo(next[cursor]) /\ Unlink(cursor)
  <2> DEFINE p == Position(cursor)
             m == Len(order)
  <2>1. /\ WellLinked' /\ order' \in Seq(Nodes) /\ Len(order') = m - 1
        /\ \A j \in 1..(m - 1) : order'[j] = IF j < p THEN order[j] ELSE order[j + 1]
    BY <1>1, <1>4, Removed DEF Inv
  <2>2. p \in 1..m /\ order[p] = cursor /\ m \in Nat
    BY <1>1, PositionOf, Places DEF Inv
  <2>3. \A k \in 1..m : data[order[k]] = what => p <= k
    BY <1>1, Places DEF Inv, SearchInv
  <2> HIDE DEF p, m
  <2>4. cursor' = next[cursor] /\ op' = op /\ what' = what /\ Searching'
    BY <1>4 DEF GoTo, Searching
  <2>5. next[cursor] = IF p = m THEN NULL ELSE order[p + 1]
    BY <2>2, Places DEF Inv, m
  <2>6. p # m => p + 1 \in 1..m /\ p \in 1..(m - 1) /\ order'[p] = order[p + 1]
    BY <2>1, <2>2
  <2>7. p # m => cursor' \in alive /\ cursor' # NULL /\ cursor' # cursor
    BY <2>2, <2>4, <2>5, <2>6, Places DEF Inv, m
  <2>8. alive' = alive \ {cursor} /\ data' = [data EXCEPT ![cursor] = NULL]
    BY <1>4 DEF Unlink
  <2>9. TypeOK'
    BY <1>1, <1>4, <2>1, <2>4, <2>5, <2>7, UnlinkTypes DEF Inv, TypeOK
  <2>10. p # m => Position(cursor)' = p
    <3>1. DOMAIN order' = 1..(m - 1) /\ \A i, k \in 1..(m - 1) : order'[i] = order'[k] => i = k
      BY <2>1 DEF WellLinked
    <3>2. p # m => (CHOOSE k \in DOMAIN order' : order'[k] = order'[p]) = p
      BY <3>1, <2>1, <2>6, OnePlace
    <3> QED
      BY <3>2, <2>4, <2>5, <2>6, <2>7 DEF Position
  <2>11. ASSUME NEW k \in 1..(m - 1), data'[order'[k]] = what
         PROVE  p # m /\ p <= k
    <3>1. CASE k < p
      <4>1. order'[k] = order[k] /\ k \in 1..m /\ order[k] # cursor
        BY <3>1, <2>1, <2>2, Places DEF Inv, m
      <4>2. data[order[k]] = what
        BY <4>1, <2>8, <2>11, Places DEF Inv, TypeOK, m
      <4> QED
        BY <4>1, <4>2, <3>1, <2>2, <2>3
    <3>2. CASE k >= p
      BY <3>2, <2>2
    <3> QED
      BY <3>1, <3>2, <2>2
  <2>12. SearchInv'
    <3>1. cursor' # NULL => cursor' \in alive'
      BY <2>4, <2>5, <2>7, <2>8
    <3>2. DOMAIN order' = 1..(m - 1)
      BY <2>1
    <3> QED
      BY <3>1, <3>2, <2>4, <2>7, <2>10, <2>11 DEF SearchInv
  <2> QED
    BY <2>1, <2>9, <2>12 DEF Inv
<1> QED
  BY <1>2, <1>3, <1>4 DEF Found

\* Every operation keeps the invariant.
LEMMA InvNext == Inv /\ [Next]_vars => Inv'
<1> SUFFICES ASSUME Inv, [Next]_vars PROVE Inv'
  OBVIOUS
<1>1. ASSUME NEW n \in Nodes, NEW d \in Data, NEW pos \in Nodes \cup {NULL},
             AppendBefore(n, d, pos) \/ AppendAfter(n, d, pos)
      PROVE  Inv'
  BY <1>1, AppendKeepsInv
<1>2. ASSUME NEW n \in Nodes, RemoveNode(n) PROVE Inv'
  BY <1>2, RemoveKeepsInv DEF RemoveNode, Searching
<1>3. ASSUME NEW o \in {"find", "remove", "remove_data"}, NEW d \in Data, BeginSearch(o, d)
      PROVE  Inv'
  BY <1>3, BeginKeepsInv
<1>4. CASE PassBy
  BY <1>4, PassKeepsInv
<1>5. CASE NotFound \/ AllRemoved
  <2>1. Stop /\ UNCHANGED listVars
    BY <1>5 DEF NotFound, AllRemoved
  <2>2. TypeOK'
    BY <2>1 DEF Inv, TypeOK, Stop, listVars, Ops
  <2> QED
    BY <2>1, <2>2, NoSearch, SameList DEF Inv, Stop
<1>6. CASE Found
  BY <1>6, FoundKeepsInv
<1>7. CASE BeginRemoveAll
  <2>1. TypeOK'
    BY <1>7 DEF BeginRemoveAll, Inv, TypeOK, listVars, Ops
  <2>2. SearchInv'
    BY <1>7, NoSearch DEF BeginRemoveAll, Inv, SearchInv, Searching
  <2> QED
    BY <1>7, <2>1, <2>2, SameList DEF BeginRemoveAll, Inv
<1>8. CASE RemoveHead
  BY <1>8, RemoveKeepsInv, Places DEF RemoveHead, Searching, Inv
<1>9. CASE UNCHANGED vars
  <2>1. UNCHANGED listVars /\ UNCHANGED searchVars
    BY <1>9 DEF vars
  <2>2. TypeOK' /\ WellLinked'
    BY <2>1, SameList DEF Inv, TypeOK, listVars, searchVars
  <2>3. SearchInv'
    BY <2>1 DEF Inv, SearchInv, Searching, Position, listVars, searchVars
  <2> QED
    BY <2>2, <2>3 DEF Inv
<1> QED
  BY <1>1, <1>2, <1>3, <1>4, <1>5, <1>6, <1>7, <1>8, <1>9 DEF Next

-------------------------------------------------------------------------------
(* The theorems. *)

\* The inductive invariant: the pointers are those of the sequence the operations
\* ask for, and a search of list_find_begin is at a node that is not freed, with
\* no node before it that holds the data.
THEOREM InvHolds == Spec => []Inv
BY InvInit, InvNext, PTL DEF Spec

\* The pointers, the head, the tail and the length are those of a sequence,
\* whatever is linked, unlinked, freed and allocated again: list.c.
THEOREM ListIsWellLinked == Spec => []WellLinked
<1>1. Inv => WellLinked
  BY DEF Inv
<1> QED
  BY <1>1, InvHolds, PTL

\* list_find and list_remove stop at the first node with the data, and
\* list_remove_data, which frees nodes on its way, leaves none.
THEOREM SearchesAreExact == Spec => SearchIsExact
<1> DEFINE Exact ==
      /\ op \in {"find", "remove"} /\ op' = "idle" =>
           \A k \in DOMAIN order :
             data[order[k]] = what => Position(cursor) \in 1..k
      /\ op = "remove_data" /\ op' = "idle" =>
           \A k \in DOMAIN order : data[order[k]] # what
<1>1. Inv /\ [Next]_vars => [Exact]_vars
  <2> SUFFICES ASSUME Inv, [Next]_vars PROVE [Exact]_vars
    OBVIOUS
  <2>1. \A k \in DOMAIN order : k \in 1..Len(order)
    BY DEF Inv, TypeOK
  <2>2. ASSUME op \in {"find", "remove"}, NEW k \in DOMAIN order, data[order[k]] = what
        PROVE  Position(cursor) \in 1..k
    <3>1. cursor # NULL /\ cursor \in alive /\ Position(cursor) <= k
      BY <2>2 DEF Inv, SearchInv, Searching
    <3> QED
      BY <3>1, <2>1, PositionOf DEF Inv
  <2>3. op = "remove_data" /\ op' = "idle" => NotFound
    <3> SUFFICES ASSUME op = "remove_data", op' = "idle" PROVE NotFound
      OBVIOUS
    <3>1. Next
      BY DEF vars, searchVars
    <3> QED
      BY <3>1 DEF Next, AppendBefore, AppendAfter, RemoveNode, BeginSearch, PassBy, GoTo, Found,
                  BeginRemoveAll, RemoveHead, AllRemoved, searchVars
  <2>4. NotFound /\ op = "remove_data" => \A k \in DOMAIN order : data[order[k]] # what
    BY DEF NotFound, Inv, SearchInv
  <2> QED
    BY <2>2, <2>3, <2>4
<1>2. Spec => [][Exact]_vars
  BY <1>1, InvHolds, PTL DEF Spec
<1> QED
  BY <1>2 DEF SearchIsExact
===============================================================================
