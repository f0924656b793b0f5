---------------------------- MODULE TimerListProof ----------------------------
(***************************************************************************)
(* Theorems about TimerList, for any number of application threads and of  *)
(* timers, any intervals and any time that code takes.                     *)
(***************************************************************************)
EXTENDS TimerList, Timespec, FiniteSetTheorems, SequenceTheorems, WellFoundedInduction, TLAPS

\* The order of the list, and who is ahead of whom in it.
Ordered(s) ==
  \A j, k \in DOMAIN s : j < k => s[j].due <= s[k].due /\ s[j].id # s[k].id

Ahead(s, t, u) == \E j, k \in DOMAIN s : j < k /\ s[j] = t /\ s[k] = u

-------------------------------------------------------------------------------
(* Lemmas about numbers and sequences. *)

\* A set of naturals that is not empty has a least element.
LEMMA LeastOf ==
  ASSUME NEW S \in SUBSET Nat, S # {}
  PROVE  Min(S) \in S /\ \A x \in S : Min(S) <= x
<1> DEFINE R == {ss \in Nat \X Nat : ss[1] < ss[2]}
<1>1. IsWellFoundedOn(R, Nat)
  BY NatLessThanWellFounded DEF OpToRel
<1> HIDE DEF R
<1>2. PICK m \in S : \A x \in S : <<x, m>> \notin R
  BY <1>1, WFMin
<1>3. ASSUME NEW x \in S PROVE m <= x
  <2>1. x \in Nat /\ m \in Nat /\ (x < m => <<x, m>> \in R)
    BY DEF R
  <2> QED
    BY <1>2, <2>1
<1> QED
  BY <1>3 DEF Min

\* What InsertAt puts at every place.
LEMMA InsertAtSeq ==
  ASSUME NEW S, NEW s \in Seq(S), NEW k \in 1..(Len(s) + 1), NEW e \in S
  PROVE  /\ InsertAt(s, k, e) \in Seq(S)
         /\ Len(InsertAt(s, k, e)) = Len(s) + 1
         /\ \A j \in 1..(Len(s) + 1) :
              InsertAt(s, k, e)[j] = IF j < k THEN s[j] ELSE IF j = k THEN e ELSE s[j - 1]
<1> DEFINE a == SubSeq(s, 1, k - 1)
           b == SubSeq(s, k, Len(s))
           c == a \o <<e>>
<1>1. /\ a \in Seq(S) /\ Len(a) = k - 1
      /\ \A j \in 1..(k - 1) : a[j] = s[j]
  OBVIOUS
<1>2. /\ b \in Seq(S) /\ Len(b) = Len(s) - k + 1
      /\ \A j \in 1..(Len(s) - k + 1) : b[j] = s[k + j - 1]
  OBVIOUS
<1>3. InsertAt(s, k, e) = c \o b
  BY DEF InsertAt
<1>4. Len(s) \in Nat /\ k \in Nat
  OBVIOUS
<1> HIDE DEF a, b
<1>5. /\ c \in Seq(S) /\ Len(c) = k
      /\ \A j \in 1..k : c[j] = IF j < k THEN s[j] ELSE e
  BY <1>1
<1> HIDE DEF c
<1>6. /\ c \o b \in Seq(S) /\ Len(c \o b) = Len(c) + Len(b)
      /\ \A j \in 1..(Len(c) + Len(b)) :
           (c \o b)[j] = IF j <= Len(c) THEN c[j] ELSE b[j - Len(c)]
  BY <1>2, <1>5, ConcatProperties
<1>7. Len(c) + Len(b) = Len(s) + 1
  BY <1>2, <1>4, <1>5
<1>8. ASSUME NEW j \in 1..(Len(s) + 1)
      PROVE  (c \o b)[j] = IF j < k THEN s[j] ELSE IF j = k THEN e ELSE s[j - 1]
  <2>1. CASE j <= k
    BY <2>1, <1>4, <1>5, <1>6, <1>7
  <2>2. CASE j > k
    <3> DEFINE i == j - k
    <3>1. i \in 1..(Len(s) - k + 1) /\ k + i - 1 = j - 1 /\ ~(j < k) /\ j # k
      BY <2>2, <1>4
    <3>2. (c \o b)[j] = b[i]
      BY <2>2, <1>4, <1>5, <1>6, <1>7
    <3> HIDE DEF i
    <3>3. b[i] = s[j - 1]
      BY <3>1, <1>2
    <3> QED
      BY <3>1, <3>2, <3>3
  <2>3. j <= k \/ j > k
    BY <1>4
  <2> QED
    BY <2>1, <2>2, <2>3
<1> QED
  BY <1>3, <1>6, <1>7, <1>8

\* What RemoveAt leaves at every place.
LEMMA RemoveAtSeq ==
  ASSUME NEW S, NEW s \in Seq(S), NEW k \in 1..Len(s)
  PROVE  /\ RemoveAt(s, k) \in Seq(S)
         /\ Len(RemoveAt(s, k)) = Len(s) - 1
         /\ \A j \in 1..(Len(s) - 1) :
              RemoveAt(s, k)[j] = IF j < k THEN s[j] ELSE s[j + 1]
<1> DEFINE a == SubSeq(s, 1, k - 1)
           b == SubSeq(s, k + 1, Len(s))
<1>1. /\ a \in Seq(S) /\ Len(a) = k - 1
      /\ \A j \in 1..(k - 1) : a[j] = s[j]
  OBVIOUS
<1>2. /\ b \in Seq(S) /\ Len(b) = Len(s) - k
      /\ \A j \in 1..(Len(s) - k) : b[j] = s[k + j]
  OBVIOUS
<1>3. RemoveAt(s, k) = a \o b
  BY DEF RemoveAt
<1>4. Len(s) \in Nat /\ k \in Nat
  OBVIOUS
<1> HIDE DEF a, b
<1>5. /\ a \o b \in Seq(S) /\ Len(a \o b) = Len(a) + Len(b)
      /\ \A j \in 1..(Len(a) + Len(b)) :
           (a \o b)[j] = IF j <= Len(a) THEN a[j] ELSE b[j - Len(a)]
  BY <1>1, <1>2, ConcatProperties
<1>6. Len(a) + Len(b) = Len(s) - 1
  BY <1>1, <1>2, <1>4
<1>7. ASSUME NEW j \in 1..(Len(s) - 1)
      PROVE  (a \o b)[j] = IF j < k THEN s[j] ELSE s[j + 1]
  <2>1. CASE j < k
    BY <2>1, <1>1, <1>4, <1>5, <1>6
  <2>2. CASE j >= k
    <3> DEFINE i == j - (k - 1)
    <3>1. i \in 1..(Len(s) - k) /\ k + i = j + 1 /\ ~(j <= k - 1)
      BY <2>2, <1>4
    <3>2. (a \o b)[j] = b[i]
      BY <3>1, <1>1, <1>4, <1>5, <1>6
    <3> HIDE DEF i
    <3>3. b[i] = s[k + i]
      BY <3>1, <1>2
    <3> QED
      BY <2>2, <3>1, <3>2, <3>3, <1>4
  <2>3. j < k \/ j >= k
    BY <1>4
  <2> QED
    BY <2>1, <2>2, <2>3
<1> QED
  BY <1>3, <1>5, <1>6, <1>7

-------------------------------------------------------------------------------
(* Lists of timers. *)

LEMMA TimerFields ==
  ASSUME NEW t \in Timer
  PROVE  /\ t.id \in Ids /\ t.interval \in Intervals /\ t.interval \in Nat
         /\ t.type \in Types /\ t.due \in Int
BY TimerListAssumption DEF Timer, Fields

LEMMA InRange ==
  ASSUME NEW s \in Seq(Timer)
  PROVE  /\ DOMAIN s = 1..Len(s) /\ Len(s) \in Nat
         /\ \A t : t \in Range(s) <=> \E k \in 1..Len(s) : s[k] = t
         /\ \A t \in Range(s) : t \in Timer
BY DEF Range

\* Two timers of an ordered list with one id are one timer.
LEMMA OneId ==
  ASSUME NEW s \in Seq(Timer), Ordered(s), NEW t \in Range(s), NEW u \in Range(s), t.id = u.id
  PROVE  t = u
<1>1. PICK j \in 1..Len(s), k \in 1..Len(s) : s[j] = t /\ s[k] = u
  BY InRange
<1>2. DOMAIN s = 1..Len(s) /\ j \in Int /\ k \in Int
  BY InRange
<1>3. ~(j < k) /\ ~(k < j)
  BY <1>1, <1>2 DEF Ordered
<1> QED
  BY <1>1, <1>2, <1>3

\* Two timers of an ordered list are in one order or the other.
LEMMA EitherAhead ==
  ASSUME NEW s \in Seq(Timer), NEW t \in Range(s), NEW u \in Range(s), t # u
  PROVE  Ahead(s, t, u) \/ Ahead(s, u, t)
<1>1. PICK j \in 1..Len(s), k \in 1..Len(s) : s[j] = t /\ s[k] = u
  BY InRange
<1>2. DOMAIN s = 1..Len(s) /\ j \in Int /\ k \in Int /\ j # k
  BY <1>1, InRange
<1>3. j < k \/ k < j
  BY <1>2
<1> QED
  BY <1>1, <1>2, <1>3 DEF Ahead

\* Who is ahead is not due later.
LEMMA AheadIsEarlier ==
  ASSUME NEW s \in Seq(Timer), Ordered(s), NEW t, NEW u, Ahead(s, t, u)
  PROVE  t \in Range(s) /\ u \in Range(s) /\ t.due <= u.due /\ t.id # u.id
BY InRange DEF Ahead, Ordered

\* A list where every timer is ahead of those due later, by another id, is ordered.
LEMMA OrderedByAhead ==
  ASSUME NEW s, \A t, u : Ahead(s, t, u) => t.due <= u.due /\ t.id # u.id
  PROVE  Ordered(s)
BY DEF Ahead, Ordered

\* InsertAtSeq for timers.
LEMMA InsertAtTimers ==
  ASSUME NEW s \in Seq(Timer), NEW k \in 1..(Len(s) + 1), NEW t \in Timer
  PROVE  /\ InsertAt(s, k, t) \in Seq(Timer) /\ Len(InsertAt(s, k, t)) = Len(s) + 1
         /\ \A j \in 1..(Len(s) + 1) :
              InsertAt(s, k, t)[j] = IF j < k THEN s[j] ELSE IF j = k THEN t ELSE s[j - 1]
BY InsertAtSeq, SMT

\* Where Insert puts a timer.
LEMMA InsertPlace ==
  ASSUME NEW s \in Seq(Timer), NEW t \in Timer, Ordered(s)
  PROVE  \E k \in 1..(Len(s) + 1) :
           /\ Insert(s, t) \in Seq(Timer) /\ Len(Insert(s, t)) = Len(s) + 1
           /\ \A j \in 1..(Len(s) + 1) :
                Insert(s, t)[j] = IF j < k THEN s[j] ELSE IF j = k THEN t ELSE s[j - 1]
           /\ \A j \in 1..Len(s) : IF j < k THEN s[j].due <= t.due ELSE t.due <= s[j].due
<1> DEFINE I == {i \in 1..Len(s) : t.due <= s[i].due}
           m == SelectInSeq(s, LAMBDA u : t.due <= u.due)
<1>1. m = IF I # {} THEN Min(I) ELSE 0
  BY DEF SelectInSeq
<1>2. Len(s) \in Nat /\ DOMAIN s = 1..Len(s)
  BY InRange
<1>3. \A j \in 1..Len(s) : s[j].due \in Int
  <2>1. \A j \in 1..Len(s) : s[j] \in Timer
    BY ElementOfSeq
  <2> QED
    BY <2>1, TimerFields
<1>4. t.due \in Int
  BY TimerFields
<1>5. Insert(s, t) = IF m = 0 THEN Append(s, t) ELSE InsertAt(s, m, t)
  BY DEF Insert
<1> HIDE DEF m
<1>6. CASE I = {}
  <2>1. Insert(s, t) = Append(s, t)
    BY <1>1, <1>5, <1>6
  <2>2. /\ Append(s, t) \in Seq(Timer) /\ Len(Append(s, t)) = Len(s) + 1
        /\ \A j \in 1..Len(s) : Append(s, t)[j] = s[j]
        /\ Append(s, t)[Len(s) + 1] = t
    BY AppendProperties
  <2> DEFINE l == Append(s, t)
  <2> HIDE DEF l
  <2>3. \A j \in 1..(Len(s) + 1) : l[j] = IF j < Len(s) + 1 THEN s[j] ELSE IF j = Len(s) + 1 THEN t ELSE s[j - 1]
    BY <1>2, <2>2 DEF l
  <2>4. \A j \in 1..Len(s) : IF j < Len(s) + 1 THEN s[j].due <= t.due ELSE t.due <= s[j].due
    BY <1>2, <1>3, <1>4, <1>6
  <2>5. Len(s) + 1 \in 1..(Len(s) + 1)
    BY <1>2
  <2> QED
    BY <2>1, <2>2, <2>3, <2>4, <2>5 DEF l
<1>7. CASE I # {}
  <2>1. m = Min(I) /\ I \in SUBSET Nat
    BY <1>1, <1>2, <1>7
  <2>2. m \in I /\ \A i \in I : m <= i
    BY <1>7, <2>1, LeastOf
  <2>3. m \in 1..Len(s) /\ m \in 1..(Len(s) + 1) /\ m # 0
    BY <1>2, <2>2
  <2>4. Insert(s, t) = InsertAt(s, m, t)
    BY <1>5, <2>3
  <2>a. PICK q \in 1..(Len(s) + 1) : q = m
    BY <2>3
  <2>b. /\ InsertAt(s, q, t) \in Seq(Timer) /\ Len(InsertAt(s, q, t)) = Len(s) + 1
        /\ \A j \in 1..(Len(s) + 1) :
             InsertAt(s, q, t)[j] = IF j < q THEN s[j] ELSE IF j = q THEN t ELSE s[j - 1]
    BY InsertAtTimers
  <2> DEFINE l == InsertAt(s, m, t)
  <2>5. /\ l \in Seq(Timer) /\ Len(l) = Len(s) + 1
        /\ \A j \in 1..(Len(s) + 1) :
             l[j] = IF j < m THEN s[j] ELSE IF j = m THEN t ELSE s[j - 1]
    BY <2>a, <2>b
  <2> HIDE DEF l
  <2>6. ASSUME NEW j \in 1..Len(s)
        PROVE  IF j < m THEN s[j].due <= t.due ELSE t.due <= s[j].due
    <3>1. CASE j < m
      <4>1. j \notin I
        BY <1>2, <2>2, <2>3, <3>1
      <4>2. ~(t.due <= s[j].due)
        BY <4>1
      <4> QED
        BY <1>3, <1>4, <3>1, <4>2
    <3>2. CASE j = m
      <4>1. t.due <= s[m].due
        BY <2>2
      <4>2. ~(j < m)
        BY <1>2, <2>3, <3>2
      <4> QED
        BY <3>2, <4>1, <4>2
    <3>3. CASE m < j
      <4>1. t.due <= s[m].due
        BY <2>2
      <4>2. s[m].due <= s[j].due
        BY <1>2, <2>3, <3>3 DEF Ordered
      <4>3. ~(j < m)
        BY <1>2, <2>3, <3>3
      <4>4. t.due <= s[j].due
        BY <1>3, <1>4, <2>3, <4>1, <4>2
      <4> QED
        BY <4>3, <4>4
    <3> QED
      BY <1>2, <2>3, <3>1, <3>2, <3>3
  <2> QED
    BY <2>3, <2>4, <2>5, <2>6 DEF l
<1> QED
  BY <1>6, <1>7

\* What a list and its order become when a timer with a new id is inserted.
LEMMA Inserted ==
  ASSUME NEW s \in Seq(Timer), NEW t \in Timer, Ordered(s),
         \A u \in Range(s) : u.id # t.id
  PROVE  LET l == Insert(s, t)
         IN  /\ l \in Seq(Timer) /\ Ordered(l)
             /\ \A u : u \in Range(l) <=> u = t \/ u \in Range(s)
             /\ \A u, v : Ahead(l, u, v) => Ahead(s, u, v) \/ u = t \/ v = t
<1> DEFINE l == Insert(s, t)
<1>1. PICK k \in 1..(Len(s) + 1) :
        /\ l \in Seq(Timer) /\ Len(l) = Len(s) + 1
        /\ \A j \in 1..(Len(s) + 1) : l[j] = IF j < k THEN s[j] ELSE IF j = k THEN t ELSE s[j - 1]
        /\ \A j \in 1..Len(s) : IF j < k THEN s[j].due <= t.due ELSE t.due <= s[j].due
  BY InsertPlace
<1> HIDE DEF l
<1>2. /\ Len(s) \in Nat /\ DOMAIN s = 1..Len(s) /\ DOMAIN l = 1..(Len(s) + 1) /\ k \in Nat
      /\ \A u : u \in Range(s) <=> \E j \in 1..Len(s) : s[j] = u
      /\ \A u : u \in Range(l) <=> \E j \in 1..(Len(s) + 1) : l[j] = u
  BY <1>1, InRange
<1>3. ASSUME NEW j \in 1..(Len(s) + 1), j # k
      PROVE  \E i \in 1..Len(s) : l[j] = s[i] /\ i = IF j < k THEN j ELSE j - 1
  <2>1. CASE j < k
    <3>1. j \in 1..Len(s)
      BY <1>2, <2>1
    <3> QED
      BY <1>1, <2>1, <3>1
  <2>2. CASE j > k
    <3>1. j - 1 \in 1..Len(s) /\ ~(j < k)
      BY <1>2, <2>2
    <3> QED
      BY <1>1, <1>3, <3>1
  <2> QED
    BY <1>2, <1>3, <2>1, <2>2
<1>4. ASSUME NEW u PROVE u \in Range(l) <=> u = t \/ u \in Range(s)
  <2>1. ASSUME NEW j \in 1..(Len(s) + 1), l[j] = u PROVE u = t \/ u \in Range(s)
    <3>1. CASE j = k
      <4>1. ~(k < k)
        BY <1>2
      <4> QED
        BY <1>1, <2>1, <3>1, <4>1
    <3>2. CASE j # k
      BY <1>2, <1>3, <2>1, <3>2
    <3> QED
      BY <3>1, <3>2
  <2>2. l[k] = t
    <3>1. ~(k < k)
      BY <1>2
    <3> QED
      BY <1>1, <3>1
  <2>3. ASSUME NEW i \in 1..Len(s), s[i] = u PROVE \E j \in 1..(Len(s) + 1) : l[j] = u
    <3>1. CASE i < k
      <4>1. i \in 1..(Len(s) + 1)
        BY <1>2
      <4> QED
        BY <1>1, <2>3, <3>1, <4>1
    <3>2. CASE ~(i < k)
      <4>1. i + 1 \in 1..(Len(s) + 1) /\ ~(i + 1 < k) /\ i + 1 # k /\ (i + 1) - 1 = i
        BY <1>2, <3>2
      <4>2. l[i + 1] = s[(i + 1) - 1]
        BY <1>1, <4>1
      <4> QED
        BY <2>3, <4>1, <4>2
    <3> QED
      BY <3>1, <3>2
  <2> QED
    BY <1>2, <2>1, <2>2, <2>3
<1>5. ASSUME NEW u, NEW v, Ahead(l, u, v)
      PROVE  /\ Ahead(s, u, v) \/ u = t \/ v = t
             /\ u.due <= v.due /\ u.id # v.id
  <2>1. PICK i \in 1..(Len(s) + 1), j \in 1..(Len(s) + 1) : i < j /\ l[i] = u /\ l[j] = v
    BY <1>2, <1>5 DEF Ahead
  <2>2. CASE i = k
    <3>1. j # k /\ ~(j < k) /\ ~(k < k)
      BY <1>2, <2>1, <2>2
    <3>2. PICK q \in 1..Len(s) : l[j] = s[q] /\ q = j - 1
      BY <1>3, <3>1
    <3>3. u = t
      BY <1>1, <2>1, <2>2, <3>1
    <3>4. ~(q < k)
      BY <1>2, <2>1, <2>2, <3>2
    <3>5. t.due <= s[q].due /\ s[q] \in Range(s)
      BY <1>1, <1>2, <3>4
    <3>6. s[q].id # t.id
      BY <3>5
    <3> QED
      BY <2>1, <3>2, <3>3, <3>5, <3>6
  <2>3. CASE j = k
    <3>1. i # k /\ i < k /\ ~(k < k)
      BY <1>2, <2>1, <2>3
    <3>2. PICK q \in 1..Len(s) : l[i] = s[q] /\ q = i
      BY <1>3, <3>1
    <3>3. v = t
      BY <1>1, <2>1, <2>3, <3>1
    <3>4. s[q].due <= t.due /\ s[q] \in Range(s)
      BY <1>1, <1>2, <3>1, <3>2
    <3>5. s[q].id # t.id
      BY <3>4
    <3> QED
      BY <2>1, <3>2, <3>3, <3>4, <3>5
  <2>4. CASE i # k /\ j # k
    <3>1. PICK p \in 1..Len(s) : l[i] = s[p] /\ p = IF i < k THEN i ELSE i - 1
      BY <1>3, <2>4
    <3>2. PICK q \in 1..Len(s) : l[j] = s[q] /\ q = IF j < k THEN j ELSE j - 1
      BY <1>3, <2>4
    <3>3. p < q
      BY <1>2, <2>1, <2>4, <3>1, <3>2
    <3>4. p \in DOMAIN s /\ q \in DOMAIN s /\ s[p] = u /\ s[q] = v
      BY <1>2, <2>1, <3>1, <3>2
    <3>5. Ahead(s, u, v)
      BY <3>3, <3>4 DEF Ahead
    <3> QED
      BY <3>5, AheadIsEarlier
  <2> QED
    BY <2>2, <2>3, <2>4
<1>6. Ordered(l)
  BY <1>5, OrderedByAhead
<1> QED
  BY <1>1, <1>4, <1>5, <1>6 DEF l

\* What a list and its order become when one of its timers is removed.
LEMMA Removed ==
  ASSUME NEW s \in Seq(Timer), NEW k \in DOMAIN s, Ordered(s)
  PROVE  LET l == RemoveAt(s, k)
         IN  /\ l \in Seq(Timer) /\ Ordered(l)
             /\ \A u : u \in Range(l) <=> u \in Range(s) /\ u.id # s[k].id
             /\ \A u, v : Ahead(l, u, v) => Ahead(s, u, v)
<1> DEFINE l == RemoveAt(s, k)
<1>1. DOMAIN s = 1..Len(s) /\ Len(s) \in Nat /\ k \in 1..Len(s) /\ k \in Nat
  BY InRange
<1>2. /\ l \in Seq(Timer) /\ Len(l) = Len(s) - 1
      /\ \A j \in 1..(Len(s) - 1) : l[j] = IF j < k THEN s[j] ELSE s[j + 1]
  BY <1>1, RemoveAtSeq, Zenon
<1> HIDE DEF l
<1>3. /\ DOMAIN l = 1..(Len(s) - 1)
      /\ \A u : u \in Range(s) <=> \E j \in 1..Len(s) : s[j] = u
      /\ \A u : u \in Range(l) <=> \E j \in 1..(Len(s) - 1) : l[j] = u
  BY <1>2, InRange
<1>4. ASSUME NEW j \in 1..(Len(s) - 1)
      PROVE  \E i \in 1..Len(s) : l[j] = s[i] /\ i = (IF j < k THEN j ELSE j + 1) /\ i # k
  <2>1. CASE j < k
    <3>1. j \in 1..Len(s) /\ j # k
      BY <1>1, <2>1
    <3> QED
      BY <1>2, <2>1, <3>1
  <2>2. CASE ~(j < k)
    <3>1. j + 1 \in 1..Len(s) /\ j + 1 # k
      BY <1>1, <2>2
    <3> QED
      BY <1>2, <2>2, <3>1
  <2> QED
    BY <2>1, <2>2
<1>5. ASSUME NEW u PROVE u \in Range(l) <=> u \in Range(s) /\ u.id # s[k].id
  <2>1. ASSUME NEW j \in 1..(Len(s) - 1), l[j] = u PROVE u \in Range(s) /\ u.id # s[k].id
    <3>1. PICK i \in 1..Len(s) : l[j] = s[i] /\ i # k
      BY <1>4
    <3>2. i < k \/ k < i
      BY <1>1, <3>1
    <3>3. s[i].id # s[k].id
      BY <1>1, <3>2 DEF Ordered
    <3> QED
      BY <1>3, <2>1, <3>1, <3>3
  <2>2. ASSUME NEW i \in 1..Len(s), s[i] = u, u.id # s[k].id
        PROVE  \E j \in 1..(Len(s) - 1) : l[j] = u
    <3>1. i # k
      BY <2>2
    <3>2. CASE i < k
      <4>1. i \in 1..(Len(s) - 1)
        BY <1>1, <3>2
      <4> QED
        BY <1>2, <2>2, <3>2, <4>1
    <3>3. CASE k < i
      <4>1. i - 1 \in 1..(Len(s) - 1) /\ ~(i - 1 < k) /\ (i - 1) + 1 = i
        BY <1>1, <3>3
      <4>2. l[i - 1] = s[(i - 1) + 1]
        BY <1>2, <4>1
      <4> QED
        BY <2>2, <4>1, <4>2
    <3> QED
      BY <1>1, <3>1, <3>2, <3>3
  <2> QED
    BY <1>3, <2>1, <2>2
<1>6. ASSUME NEW u, NEW v, Ahead(l, u, v) PROVE Ahead(s, u, v)
  <2>1. PICK i \in 1..(Len(s) - 1), j \in 1..(Len(s) - 1) : i < j /\ l[i] = u /\ l[j] = v
    BY <1>3, <1>6 DEF Ahead
  <2>2. PICK p \in 1..Len(s) : l[i] = s[p] /\ p = (IF i < k THEN i ELSE i + 1)
    BY <1>4
  <2>3. PICK q \in 1..Len(s) : l[j] = s[q] /\ q = (IF j < k THEN j ELSE j + 1)
    BY <1>4
  <2>4. p < q
    BY <1>1, <2>1, <2>2, <2>3
  <2>5. p \in DOMAIN s /\ q \in DOMAIN s /\ s[p] = u /\ s[q] = v
    BY <1>1, <2>1, <2>2, <2>3
  <2> QED
    BY <2>4, <2>5 DEF Ahead
<1>7. \A u, v : Ahead(l, u, v) => u.due <= v.due /\ u.id # v.id
  BY <1>6, AheadIsEarlier
<1>8. Ordered(l)
  BY <1>7, OrderedByAhead
<1> QED
  BY <1>2, <1>5, <1>6, <1>8 DEF l

-------------------------------------------------------------------------------
(* The invariant. *)

\* Ids are given in order, and there are enough for the timers being added.
Pending == {a \in Apps : adding[a] # None}
Given ==
  /\ \A t \in Range(timer_list) : t.id \in 1..tid
  /\ fresh \subseteq 1..tid /\ gone \subseteq 1..tid /\ forever \subseteq 1..tid
  /\ tid + Cardinality(Pending) <= MaxTimers

\* Forever timers are listed during a pass too, and they are forever timers.
ForeverKept ==
  \A id \in forever : \E t \in Range(timer_list) : t.id = id /\ t.type = "forever"

\* The thread fires one timer and has saved another.
Saved ==
  /\ pc = "pass" /\ node # None => Listed(node)
  /\ pc = "callback" => /\ node # None /\ Listed(node) /\ next # node
                        /\ next # None => Listed(next)

\* The timers that the pass is done with were listed after it began: those ahead
\* of the one it goes on with, except the one that fires.
Target == IF pc = "callback" THEN next ELSE node
Passed(t) ==
  \/ Target = None
  \/ \E u : u.id = Target /\ Ahead(timer_list, t, u)
Walked ==
  InPass => \A t \in Range(timer_list) :
              Passed(t) /\ ~(pc = "callback" /\ t.id = node) => t.id \in fresh

\* How late timers can be where the thread is: the time of the poll is the only
\* one that does not count as slow, and the timers of the pass were listed after it.
Polled == CASE pc \in {"min", "stopped"} -> 0
            [] pc = "poll" -> FdMin - wait
            [] OTHER -> FdMin
Timely ==
  /\ pc = "poll" => wait <= FdMin
  /\ since <= slow
  /\ \A a \in Apps : adding[a] # None => adding[a].due >= -slow
  /\ \A t \in Range(timer_list) : t.due >= -(slow + Polled)
  /\ InPass => \A t \in Range(timer_list) : t.id \in fresh => t.due >= -slow

Inv ==
  /\ TypeOK /\ Sorted /\ Given /\ GoneStaysGone /\ ForeverKept
  /\ Saved /\ Walked /\ Timely

LEMMA InvInit == Init => Inv
<1> SUFFICES ASSUME Init PROVE Inv
  OBVIOUS
<1>1. /\ timer_list = <<>> /\ tid = 0 /\ pc = "min" /\ since = 0 /\ slow = 0
      /\ fresh = {} /\ gone = {} /\ forever = {} /\ adding = [a \in Apps |-> None]
  BY DEF Init
<1>2. timer_list \in Seq(Timer) /\ DOMAIN timer_list = {} /\ Range(timer_list) = {}
  BY <1>1, EmptySeq, InRange DEF Range
<1>3. TypeOK
  BY <1>1, <1>2, TimerListAssumption DEF Init, TypeOK
<1>4. Given
  <2>1. Pending = {}
    BY <1>1 DEF Pending
  <2>2. Cardinality(Pending) = 0
    BY <2>1, FS_EmptySet
  <2> QED
    BY <1>1, <1>2, <2>2, TimerListAssumption DEF Given
<1> QED
  BY <1>1, <1>2, <1>3, <1>4 DEF Inv, Sorted, GoneStaysGone, ForeverKept, Saved, Walked, Timely, InPass

\* Listed says that a timer of the list has the id.
LEMMA ListedInRange ==
  ASSUME NEW s \in Seq(Timer), NEW id
  PROVE  (\E k \in DOMAIN s : s[k].id = id) <=> \E t \in Range(s) : t.id = id
BY InRange

LEMMA PositionFound ==
  ASSUME NEW id, Listed(id), timer_list \in Seq(Timer)
  PROVE  /\ Position(id) \in DOMAIN timer_list
         /\ timer_list[Position(id)].id = id
         /\ timer_list[Position(id)] \in Range(timer_list)
         /\ timer_list[Position(id)] \in Timer
<1>1. Position(id) \in DOMAIN timer_list /\ timer_list[Position(id)].id = id
  BY DEF Listed, Position
<1> QED
  BY <1>1, InRange

LEMMA GivenId ==
  ASSUME NEW t \in NewTimers, NEW i \in Ids
  PROVE  LET u == [t EXCEPT !.id = i]
         IN  /\ u \in Timer /\ u.id = i
             /\ u.due = t.due /\ u.type = t.type
BY DEF NewTimers, Timer, Fields

LEMMA RoomForOne ==
  ASSUME TypeOK, Given
  PROVE  /\ IsFiniteSet(Pending) /\ Cardinality(Pending) \in Nat /\ tid \in Nat
         /\ MoreTimers => tid + 1 \in Ids
         /\ MoreTimers => tid + Cardinality(Pending) < MaxTimers
<1>1. Pending \subseteq Apps
  BY DEF Pending
<1>2. IsFiniteSet(Pending) /\ Cardinality(Pending) \in Nat
  BY <1>1, TimerListAssumption, FS_Subset, FS_CardinalityType
<1>3. tid \in Nat /\ MaxTimers \in Nat
  BY TimerListAssumption DEF TypeOK
<1>4. MoreTimers => tid + Cardinality(Pending) < MaxTimers
  BY DEF MoreTimers, Pending
<1> QED
  BY <1>2, <1>3, <1>4 DEF Ids

-------------------------------------------------------------------------------
(* Adding and removing a timer, whoever does it. *)

\* Add when there is memory for the list's node.
Lists(t) ==
  /\ tid' = tid + 1 /\ gone' = gone
  /\ timer_list' = Insert(timer_list, [t EXCEPT !.id = tid + 1])
  /\ fresh' = fresh \cup {tid + 1}
  /\ forever' = IF t.type = "forever" THEN forever \cup {tid + 1} ELSE forever

\* What the list is then, and that the parts of the invariant about it hold.
LEMMA AddList ==
  ASSUME Inv, NEW t \in NewTimers, tid + 1 \in Ids, t.due >= -slow,
         Lists(t), UNCHANGED passVars
  PROVE  /\ timer_list' \in Seq(Timer) /\ tid' \in 0..MaxTimers
         /\ fresh' \subseteq Ids /\ forever' \subseteq Ids
         /\ Sorted' /\ GoneStaysGone' /\ ForeverKept' /\ Saved' /\ Walked'
         /\ \A v \in Range(timer_list') : v.id \in 1..tid'
         /\ fresh' \subseteq 1..tid' /\ gone' \subseteq 1..tid' /\ forever' \subseteq 1..tid'
         /\ \A v \in Range(timer_list') :
              v \in Range(timer_list) \/ (v.id = tid + 1 /\ v.due >= -slow)
<1> DEFINE u == [t EXCEPT !.id = tid + 1]
<1>1. /\ TypeOK /\ Sorted /\ Given /\ GoneStaysGone /\ ForeverKept /\ Saved /\ Walked
  BY DEF Inv
<1>2. u \in Timer /\ u.id = tid + 1 /\ u.due = t.due /\ u.type = t.type
  BY GivenId
<1> HIDE DEF u
<1>3. timer_list \in Seq(Timer) /\ Ordered(timer_list) /\ tid \in Nat /\ MaxTimers \in Nat
  BY <1>1, TimerListAssumption DEF TypeOK, Sorted, Ordered
<1>4. \A v \in Range(timer_list) : v.id \in 1..tid
  BY <1>1 DEF Given
<1>5. \A v \in Range(timer_list) : v.id # tid + 1
  BY <1>3, <1>4
<1>6. /\ timer_list' = Insert(timer_list, u) /\ tid' = tid + 1 /\ fresh' = fresh \cup {tid + 1}
      /\ gone' = gone
      /\ forever' = IF t.type = "forever" THEN forever \cup {tid + 1} ELSE forever
      /\ UNCHANGED <<pc, node, next>>
  BY DEF Lists, u, passVars
<1>7. /\ timer_list' \in Seq(Timer) /\ Ordered(timer_list')
      /\ \A v : v \in Range(timer_list') <=> v = u \/ v \in Range(timer_list)
      /\ \A v, w : Ahead(timer_list', v, w) => Ahead(timer_list, v, w) \/ v = u \/ w = u
  BY <1>2, <1>3, <1>5, <1>6, Inserted
<1>8. Sorted'
  BY <1>7 DEF Sorted, Ordered
<1>9. /\ tid' \in 0..MaxTimers /\ fresh' \subseteq 1..tid' /\ gone' \subseteq 1..tid'
      /\ forever' \subseteq 1..tid'
  BY <1>1, <1>3, <1>6 DEF Given, Ids
<1>10. 1..tid' \subseteq Ids
  BY <1>3, <1>9 DEF Ids
<1>11. \A id : Listed(id)' <=> id = tid + 1 \/ Listed(id)
  <2>1. \A id : Listed(id) <=> \E v \in Range(timer_list) : v.id = id
    BY <1>3, ListedInRange DEF Listed
  <2>2. \A id : Listed(id)' <=> \E v \in Range(timer_list') : v.id = id
    BY <1>7, ListedInRange DEF Listed
  <2> QED
    BY <1>2, <1>7, <2>1, <2>2
<1>12. GoneStaysGone'
  <2>1. \A id \in gone : id # tid + 1
    BY <1>1, <1>3 DEF Given
  <2> QED
    BY <1>1, <1>6, <1>11, <2>1 DEF GoneStaysGone
<1>13. ForeverKept'
  BY <1>1, <1>2, <1>6, <1>7 DEF ForeverKept
<1>14. Saved'
  BY <1>1, <1>6, <1>11 DEF Saved
<1>15. Walked'
  <2> SUFFICES ASSUME InPass', NEW v \in Range(timer_list'), Passed(v)',
                      ~(pc = "callback" /\ v.id = node)'
               PROVE  v.id \in fresh'
    BY DEF Walked
  <2>1. CASE v = u
    BY <1>2, <1>6, <2>1
  <2>2. CASE v # u
    <3>1. v \in Range(timer_list)
      BY <1>7, <2>2
    <3>2. Target' = Target /\ InPass
      BY <1>6 DEF Target, InPass
    <3>3. Target # None => Listed(Target)
      BY <1>1, <3>2 DEF Saved, Target, InPass
    <3>4. Target # tid + 1 \/ Target = None
      <4>1. \A id : Listed(id) <=> \E w \in Range(timer_list) : w.id = id
        BY <1>3, ListedInRange DEF Listed
      <4> QED
        BY <1>5, <3>3, <4>1
    <3>5. Passed(v)
      <4>1. CASE Target = None
        BY <4>1 DEF Passed
      <4>2. CASE Target # None
        <5>1. PICK w : w.id = Target /\ Ahead(timer_list', v, w)
          BY <3>2, <4>2 DEF Passed
        <5>2. w # u
          BY <1>2, <3>4, <4>2, <5>1
        <5> QED
          BY <1>7, <2>2, <5>1, <5>2 DEF Passed
      <4> QED
        BY <4>1, <4>2
    <3>6. v.id \in fresh
      BY <1>1, <1>6, <3>1, <3>2, <3>5 DEF Walked
    <3> QED
      BY <1>6, <3>6
  <2> QED
    BY <2>1, <2>2
<1>16. \A v \in Range(timer_list') : v.id \in 1..tid'
  BY <1>2, <1>3, <1>4, <1>6, <1>7
<1>17. \A v \in Range(timer_list') :
         v \in Range(timer_list) \/ (v.id = tid + 1 /\ v.due >= -slow)
  BY <1>2, <1>7
<1> QED
  BY <1>7, <1>8, <1>9, <1>10, <1>12, <1>13, <1>14, <1>15, <1>16, <1>17

\* The same of _timer_remove, for a timer that the pass has not saved.
LEMMA RemoveList ==
  ASSUME Inv, NEW id, RemoveTimer(id), UNCHANGED passVars,
         pc = "callback" => id # node /\ id # next, pc # "pass"
  PROVE  /\ timer_list' \in Seq(Timer)
         /\ fresh' \subseteq Ids /\ forever' \subseteq Ids /\ gone' \subseteq Ids
         /\ Sorted' /\ GoneStaysGone' /\ ForeverKept' /\ Saved' /\ Walked'
         /\ fresh' \subseteq 1..tid' /\ gone' \subseteq 1..tid' /\ forever' \subseteq 1..tid'
         /\ \A v \in Range(timer_list') : v \in Range(timer_list)
<1> DEFINE p == Position(id)
<1>1. /\ TypeOK /\ Sorted /\ Given /\ GoneStaysGone /\ ForeverKept /\ Saved /\ Walked
  BY DEF Inv
<1>2. timer_list \in Seq(Timer) /\ Ordered(timer_list) /\ tid \in Nat /\ MaxTimers \in Nat
  BY <1>1, TimerListAssumption DEF TypeOK, Sorted, Ordered
<1>3. p \in DOMAIN timer_list /\ timer_list[p].id = id /\ timer_list[p] \in Range(timer_list)
  BY <1>2, PositionFound DEF RemoveTimer
<1> HIDE DEF p
<1>4. /\ timer_list' = RemoveAt(timer_list, p)
      /\ gone' = gone \cup {id} /\ forever' = forever \ {id}
      /\ UNCHANGED <<tid, fresh, pc, node, next>>
  BY DEF RemoveTimer, p, passVars
<1>5. /\ timer_list' \in Seq(Timer) /\ Ordered(timer_list')
      /\ \A v : v \in Range(timer_list') <=> v \in Range(timer_list) /\ v.id # id
      /\ \A v, w : Ahead(timer_list', v, w) => Ahead(timer_list, v, w)
  BY <1>2, <1>3, <1>4, Removed
<1>6. Sorted'
  BY <1>5 DEF Sorted, Ordered
<1>7. id \in 1..tid
  BY <1>1, <1>3 DEF Given
<1>8. fresh' \subseteq 1..tid' /\ gone' \subseteq 1..tid' /\ forever' \subseteq 1..tid'
  BY <1>1, <1>4, <1>7 DEF Given
<1>9. 1..tid' \subseteq Ids
  <2>1. tid \in 0..MaxTimers
    BY <1>1 DEF TypeOK
  <2> QED
    BY <1>2, <1>4, <2>1 DEF Ids
<1>10. \A i : Listed(i)' <=> i # id /\ Listed(i)
  <2>1. \A i : Listed(i) <=> \E v \in Range(timer_list) : v.id = i
    BY <1>2, ListedInRange DEF Listed
  <2>2. \A i : Listed(i)' <=> \E v \in Range(timer_list') : v.id = i
    BY <1>5, ListedInRange DEF Listed
  <2> QED
    BY <1>5, <2>1, <2>2
<1>11. GoneStaysGone'
  BY <1>1, <1>4, <1>10 DEF GoneStaysGone
<1>12. ForeverKept'
  BY <1>1, <1>4, <1>5 DEF ForeverKept
<1>13. Saved'
  BY <1>1, <1>4, <1>10 DEF Saved
<1>14. Walked'
  BY <1>1, <1>4, <1>5 DEF Walked, Passed, Target, InPass
<1> QED
  BY <1>5, <1>6, <1>8, <1>9, <1>11, <1>12, <1>13, <1>14

-------------------------------------------------------------------------------
(* The steps. *)

LEMMA InvTimely == Inv => TypeOK /\ Given /\ Timely
BY DEF Inv

\* Steps that list a new timer.
LEMMA ListsNext ==
  ASSUME Inv, NEW t \in NewTimers, tid + 1 \in Ids, t.due >= -slow, Lists(t), slow' = slow,
         UNCHANGED passVars, adding' \in [Apps -> NewTimers \cup {None}],
         \A a \in Apps : adding'[a] \in {None, adding[a]},
         tid + 1 + Cardinality(Pending') <= MaxTimers
  PROVE  Inv'
<1>1. /\ timer_list' \in Seq(Timer) /\ tid' \in 0..MaxTimers
      /\ fresh' \subseteq Ids /\ forever' \subseteq Ids
      /\ Sorted' /\ GoneStaysGone' /\ ForeverKept' /\ Saved' /\ Walked'
      /\ \A v \in Range(timer_list') : v.id \in 1..tid'
      /\ fresh' \subseteq 1..tid' /\ gone' \subseteq 1..tid' /\ forever' \subseteq 1..tid'
      /\ \A v \in Range(timer_list') :
           v \in Range(timer_list) \/ (v.id = tid + 1 /\ v.due >= -slow)
  BY AddList
<1>2. /\ UNCHANGED <<pc, wait, node, next, since, gone, slow>> /\ tid' = tid + 1
      /\ fresh' = fresh \cup {tid + 1}
  BY DEF Lists, passVars
<1>3. TypeOK'
  BY <1>1, <1>2, InvTimely DEF TypeOK
<1>4. Given'
  BY <1>1, <1>2 DEF Given
<1>5. Timely'
  <2>1. Timely /\ TypeOK /\ Given
    BY InvTimely
  <2>2. Polled' = Polled /\ Polled \in Int /\ Polled >= 0
    <3>1. Polled' = Polled
      BY <1>2 DEF Polled
    <3>2. FdMin \in Nat /\ wait \in Nat /\ (pc = "poll" => wait <= FdMin)
      BY <2>1, TimerListAssumption DEF TypeOK, Timely
    <3> QED
      BY <3>1, <3>2 DEF Polled
  <2>3. slow \in Nat
    BY <2>1 DEF TypeOK
  <2>4. ASSUME NEW v \in Range(timer_list')
        PROVE  /\ v.due >= -(slow + Polled)
               /\ InPass /\ v.id \in fresh' => v.due >= -slow
    <3>1. CASE v \in Range(timer_list)
      <4>1. v.due >= -(slow + Polled) /\ (InPass /\ v.id \in fresh => v.due >= -slow)
        BY <2>1, <3>1 DEF Timely
      <4>2. v.id # tid + 1
        <5>1. v.id \in 1..tid /\ tid \in Nat
          BY <2>1, <3>1 DEF Given, TypeOK
        <5> QED
          BY <5>1
      <4> QED
        BY <1>2, <4>1, <4>2
    <3>2. CASE v.id = tid + 1 /\ v.due >= -slow
      <4>1. v.due \in Int
        BY <1>1, InRange, TimerFields
      <4> QED
        BY <2>2, <2>3, <3>2, <4>1
    <3> QED
      BY <1>1, <3>1, <3>2
  <2>5. \A a \in Apps : adding'[a] # None => adding'[a].due >= -slow
    BY <2>1 DEF Timely
  <2> QED
    BY <1>2, <2>1, <2>2, <2>4, <2>5 DEF Timely, InPass
<1> QED
  BY <1>1, <1>3, <1>4, <1>5 DEF Inv

\* Steps by which an adder is done although no timer is listed.
LEMMA LosesNext ==
  ASSUME Inv, UNCHANGED <<timer_list, passVars, history>>, tid' \in {tid, tid + 1},
         adding' \in [Apps -> NewTimers \cup {None}],
         \A a \in Apps : adding'[a] \in {None, adding[a]},
         tid' + Cardinality(Pending') <= MaxTimers, tid' \in 0..MaxTimers
  PROVE  Inv'
<1>1. /\ TypeOK /\ Sorted /\ Given /\ GoneStaysGone /\ ForeverKept /\ Saved /\ Walked /\ Timely
  BY DEF Inv
<1>2. /\ UNCHANGED <<timer_list, pc, wait, node, next, since, fresh, gone, forever, slow>>
  BY DEF passVars, history
<1>3. TypeOK'
  BY <1>1, <1>2 DEF TypeOK
<1>4. /\ Sorted' /\ GoneStaysGone' /\ ForeverKept' /\ Saved' /\ Walked'
  BY <1>1, <1>2 DEF Sorted, GoneStaysGone, ForeverKept, Saved, Walked, Listed, Passed, Target,
     InPass
<1>5. Given'
  <2>1. 1..tid \subseteq 1..tid'
    BY <1>1 DEF TypeOK
  <2> QED
    BY <1>1, <1>2, <2>1 DEF Given
<1>6. Timely'
  <2>1. Polled' = Polled
    BY <1>2 DEF Polled
  <2>2. \A a \in Apps : adding'[a] # None => adding'[a].due >= -slow
    BY <1>1 DEF Timely
  <2> QED
    BY <1>1, <1>2, <2>1, <2>2 DEF Timely, InPass
<1> QED
  BY <1>3, <1>4, <1>5, <1>6 DEF Inv

\* Steps that add a timer, for which the list may have no memory.
LEMMA AddsNext ==
  ASSUME Inv, NEW t \in NewTimers, tid + 1 \in Ids, t.due >= -slow, Add(t),
         UNCHANGED passVars, adding' \in [Apps -> NewTimers \cup {None}],
         \A a \in Apps : adding'[a] \in {None, adding[a]},
         tid + 1 + Cardinality(Pending') <= MaxTimers
  PROVE  Inv'
<1>1. CASE Lists(t)
  <2>1. slow' = slow
    BY DEF Add
  <2> QED
    BY <1>1, <2>1, ListsNext
<1>2. CASE ~Lists(t)
  <2>1. tid' = tid + 1 /\ UNCHANGED <<timer_list, passVars, history>>
    BY <1>2 DEF Add, Lists, history
  <2>2. tid + 1 \in 0..MaxTimers
    BY TimerListAssumption DEF Ids
  <2> QED
    BY <2>1, <2>2, LosesNext
<1> QED
  BY <1>1, <1>2

\* Steps that remove a timer.
LEMMA RemovesNext ==
  ASSUME Inv, NEW id, RemoveTimer(id), UNCHANGED <<passVars, adding>>,
         pc = "callback" => id # node /\ id # next, pc # "pass"
  PROVE  Inv'
<1>1. /\ timer_list' \in Seq(Timer)
      /\ fresh' \subseteq Ids /\ forever' \subseteq Ids /\ gone' \subseteq Ids
      /\ Sorted' /\ GoneStaysGone' /\ ForeverKept' /\ Saved' /\ Walked'
      /\ fresh' \subseteq 1..tid' /\ gone' \subseteq 1..tid' /\ forever' \subseteq 1..tid'
      /\ \A v \in Range(timer_list') : v \in Range(timer_list)
  BY RemoveList
<1>2. UNCHANGED <<tid, fresh, slow, pc, wait, node, next, since, adding>>
  BY DEF RemoveTimer, passVars
<1>3. TypeOK'
  BY <1>1, <1>2, InvTimely DEF TypeOK
<1>4. Given'
  <2>1. Pending' = Pending
    BY <1>2 DEF Pending
  <2> QED
    BY <1>1, <1>2, <2>1, InvTimely DEF Given
<1>5. Timely'
  <2>1. Polled' = Polled
    BY <1>2 DEF Polled
  <2> QED
    BY <1>1, <1>2, <2>1, InvTimely DEF Timely, InPass
<1> QED
  BY <1>1, <1>3, <1>4, <1>5 DEF Inv

\* A timer that is due before the one the pass looks at was listed after the
\* pass began, and so was every timer when none is left to look at.
LEMMA EarlierAreFresh ==
  ASSUME Inv, pc = "pass", NEW t \in Range(timer_list),
         node = None \/ (Listed(node) /\ t.due < timer_list[Position(node)].due)
  PROVE  t.id \in fresh
<1>1. /\ timer_list \in Seq(Timer) /\ Ordered(timer_list) /\ Walked
  BY DEF Inv, TypeOK, Sorted, Ordered
<1>2. Target = node /\ InPass
  BY DEF Target, InPass
<1>3. Passed(t)
  <2>1. CASE node = None
    BY <1>2, <2>1 DEF Passed
  <2>2. CASE Listed(node) /\ t.due < timer_list[Position(node)].due
    <3> DEFINE u == timer_list[Position(node)]
    <3>1. u.id = node /\ u \in Range(timer_list) /\ u \in Timer
      BY <1>1, <2>2, PositionFound
    <3>2. t \in Timer /\ t.due < u.due
      BY <1>1, <2>2, InRange
    <3> HIDE DEF u
    <3>3. t.due \in Int /\ u.due \in Int
      BY <3>1, <3>2, TimerFields
    <3>4. t # u /\ ~(u.due <= t.due)
      BY <3>2, <3>3
    <3>5. Ahead(timer_list, t, u)
      BY <1>1, <3>1, <3>4, EitherAhead, AheadIsEarlier
    <3> QED
      BY <1>2, <3>1, <3>5 DEF Passed
  <2> QED
    BY <2>1, <2>2
<1> QED
  BY <1>1, <1>2, <1>3 DEF Walked

\* Steps that leave the list and what was recorded of it alone, and the thread
\* outside its pass.
LEMMA ThreadNext ==
  ASSUME Inv, TimerMin \/ BeginPass \/ Fire \/ PassEnds
  PROVE  Inv'
<1>1. /\ TypeOK /\ Sorted /\ Given /\ GoneStaysGone /\ ForeverKept /\ Saved /\ Walked /\ Timely
  BY DEF Inv
<1>2. /\ UNCHANGED <<timer_list, tid, since, adding, gone, forever, slow>>
      /\ fresh' \in {fresh, {}}
  BY DEF TimerMin, Poll, BeginPass, Fire, PassEnds, listVars, history
<1>3. timer_list \in Seq(Timer) /\ Ordered(timer_list)
  BY <1>1 DEF TypeOK, Sorted, Ordered
<1>4. Sorted' /\ ForeverKept'
  BY <1>1, <1>2 DEF Sorted, ForeverKept
<1>5. Given'
  <2>1. Pending' = Pending
    BY <1>2 DEF Pending
  <2> QED
    BY <1>1, <1>2, <2>1 DEF Given
<1>6. \A id : Listed(id)' <=> Listed(id)
  BY <1>2 DEF Listed
<1>7. /\ DOMAIN timer_list = 1..Len(timer_list) /\ Len(timer_list) \in Nat
      /\ \A t : t \in Range(timer_list) <=> \E k \in 1..Len(timer_list) : timer_list[k] = t
      /\ \A t \in Range(timer_list) : t \in Timer
  BY <1>3, InRange
<1>8. ASSUME NEW k \in 0..Len(timer_list)
      PROVE  /\ After(k) \in Ids \cup {None}
             /\ After(k) # None => k + 1 \in 1..Len(timer_list) /\ timer_list[k + 1].id = After(k)
             /\ After(k) = None => k = Len(timer_list)
  <2>1. CASE k < Len(timer_list)
    <3>1. k + 1 \in 1..Len(timer_list)
      BY <1>7, <2>1
    <3>2. timer_list[k + 1] \in Timer
      BY <1>7, <3>1
    <3>3. timer_list[k + 1].id \in Ids
      BY <3>2, TimerFields
    <3>4. After(k) = timer_list[k + 1].id
      BY <2>1 DEF After
    <3>5. None \notin Ids
      BY TimerListAssumption
    <3> QED
      BY <3>1, <3>3, <3>4, <3>5
  <2>2. CASE k = Len(timer_list)
    <3>1. ~(k < Len(timer_list))
      BY <1>7, <2>2
    <3> QED
      BY <2>2, <3>1 DEF After
  <2>3. Len(timer_list) \in Nat
    BY <1>7
  <2>4. k < Len(timer_list) \/ k = Len(timer_list)
    BY <2>3
  <2> QED
    BY <2>1, <2>2, <2>4, Zenon
<1>9. CASE TimerMin
  <2>1. /\ pc = "min" /\ pc' = "poll" /\ wait' \in Nat /\ wait' <= FdMin
        /\ UNCHANGED <<node, next, fresh>>
    <3>1. timer_list # <<>> => Head(timer_list).interval \in Nat
      BY <1>3, HeadTailProperties, TimerFields
    <3>2. FdMin \in Nat \ {0}
      BY TimerListAssumption
    <3>3. PICK n \in Nat : n <= FdMin /\ Poll(n)
      BY <1>9, <3>1, <3>2 DEF TimerMin
    <3> QED
      BY <1>9, <3>2, <3>3 DEF TimerMin, Poll, history
  <2>2. TypeOK'
    BY <1>1, <1>2, <2>1 DEF TypeOK
  <2>3. GoneStaysGone' /\ Saved' /\ Walked'
    BY <1>1, <1>2, <1>6, <2>1 DEF GoneStaysGone, Saved, Walked, InPass
  <2>4. Timely'
    <3>1. Polled = 0 /\ Polled' = FdMin - wait'
      BY <2>1 DEF Polled
    <3>2. FdMin \in Nat /\ slow \in Nat /\ wait' \in Nat /\ wait' <= FdMin
      BY <1>1, <2>1, TimerListAssumption DEF TypeOK
    <3>3. ASSUME NEW t \in Range(timer_list) PROVE t.due >= -(slow + Polled')
      <4>1. t.due \in Int /\ t.due >= -(slow + 0)
        BY <1>1, <1>7, <3>1, TimerFields DEF Timely
      <4> QED
        BY <3>1, <3>2, <4>1
    <3> QED
      BY <1>1, <1>2, <2>1, <3>3 DEF Timely, InPass
  <2> QED
    BY <1>4, <1>5, <2>2, <2>3, <2>4 DEF Inv
<1>10. CASE BeginPass
  <2>1. /\ pc = "poll" /\ pc' = "pass" /\ node' = Head_ /\ wait' = 0 /\ fresh' = {}
        /\ UNCHANGED next
    BY <1>10 DEF BeginPass
  <2>2. /\ Head_ \in Ids \cup {None}
        /\ Head_ # None => 1 \in 1..Len(timer_list) /\ timer_list[1].id = Head_
        /\ Head_ = None => 0 = Len(timer_list)
    <3>1. 0 \in 0..Len(timer_list) /\ 0 + 1 = 1
      BY <1>7
    <3> QED
      BY <1>8, <3>1 DEF Head_
  <2>3. TypeOK'
    BY <1>1, <1>2, <2>1, <2>2 DEF TypeOK
  <2>4. GoneStaysGone'
    BY <1>1, <1>2, <1>6, <2>1 DEF GoneStaysGone
  <2>5. Saved'
    <3>1. Head_ # None => Listed(Head_)
      BY <1>7, <2>2 DEF Listed
    <3> QED
      BY <1>6, <2>1, <3>1 DEF Saved
  <2>6. Walked'
    <3> SUFFICES ASSUME NEW t \in Range(timer_list), Passed(t)' PROVE FALSE
      BY <1>2 DEF Walked
    <3>1. Target' = Head_
      BY <2>1 DEF Target
    <3>2. Head_ # None
      <4>1. 1..Len(timer_list) # {}
        BY <1>7
      <4> QED
        BY <1>7, <2>2, <4>1
    <3>3. PICK j \in 1..Len(timer_list), k \in 1..Len(timer_list) : j < k /\ timer_list[k].id = Head_
      BY <1>2, <1>7, <3>1, <3>2 DEF Passed, Ahead
    <3>4. 1 < k /\ timer_list[1].id = timer_list[k].id
      BY <2>2, <3>2, <3>3
    <3> QED
      BY <1>3, <1>7, <2>2, <3>2, <3>4 DEF Ordered
  <2>7. Timely'
    <3>1. Polled = FdMin - wait /\ Polled' = FdMin
      BY <2>1 DEF Polled
    <3>2. FdMin \in Nat /\ slow \in Nat /\ wait \in Nat
      BY <1>1, TimerListAssumption DEF TypeOK
    <3>3. ASSUME NEW t \in Range(timer_list) PROVE t.due >= -(slow + Polled')
      <4>1. t.due \in Int /\ t.due >= -(slow + (FdMin - wait))
        BY <1>1, <1>7, <3>1, TimerFields DEF Timely
      <4> QED
        BY <3>1, <3>2, <4>1
    <3> QED
      BY <1>1, <1>2, <2>1, <3>3 DEF Timely
  <2> QED
    BY <1>4, <1>5, <2>3, <2>4, <2>5, <2>6, <2>7 DEF Inv
<1>11. CASE Fire
  <2> DEFINE p == Position(node)
  <2>1. /\ pc = "pass" /\ pc' = "callback" /\ node # None /\ Listed(node) /\ next' = After(p)
        /\ UNCHANGED <<node, wait, fresh>>
    BY <1>11 DEF Fire, history
  <2>2. p \in 1..Len(timer_list) /\ timer_list[p].id = node
    BY <1>3, <1>7, <2>1, PositionFound
  <2> HIDE DEF p
  <2>3. /\ next' \in Ids \cup {None}
        /\ next' # None => p + 1 \in 1..Len(timer_list) /\ timer_list[p + 1].id = next'
        /\ next' = None => p = Len(timer_list)
    <3>1. p \in 0..Len(timer_list)
      BY <2>2
    <3> QED
      BY <1>8, <2>1, <3>1
  <2>4. TypeOK'
    BY <1>1, <1>2, <2>1, <2>3 DEF TypeOK
  <2>5. next' # None => next' # node
    <3> SUFFICES ASSUME next' # None PROVE next' # node
      OBVIOUS
    <3>1. p + 1 \in 1..Len(timer_list) /\ timer_list[p + 1].id = next'
      BY <2>3
    <3>2. p \in Int /\ p < p + 1
      BY <1>7, <2>2
    <3>3. timer_list[p].id # timer_list[p + 1].id
      BY <1>3, <1>7, <2>2, <3>1, <3>2 DEF Ordered
    <3> QED
      BY <2>2, <3>1, <3>3
  <2>6. GoneStaysGone'
    BY <1>1, <1>2, <1>6, <2>1 DEF GoneStaysGone
  <2>7. Saved'
    <3>1. next' # None => Listed(next')
      BY <1>7, <2>3 DEF Listed
    <3>2. next' # node
      BY <2>1, <2>5
    <3>3. pc' = "callback" => /\ node' # None /\ Listed(node)' /\ next' # node'
                              /\ next' # None => Listed(next)'
      BY <1>2, <2>1, <3>1, <3>2 DEF Listed
    <3> QED
      BY <2>1, <3>3 DEF Saved
  <2>8. Walked'
    <3> SUFFICES ASSUME NEW t \in Range(timer_list), Passed(t)', t.id # node
                 PROVE  t.id \in fresh
      BY <1>2, <2>1 DEF Walked
    <3>1. Target = node /\ Target' = next' /\ InPass
      BY <2>1 DEF Target, InPass
    <3>2. PICK j \in 1..Len(timer_list) : timer_list[j] = t
      BY <1>7
    <3>3. j <= p
      <4>1. CASE next' = None
        BY <1>7, <2>2, <2>3, <3>2, <4>1
      <4>2. CASE next' # None
        <5>1. PICK i \in 1..Len(timer_list), k \in 1..Len(timer_list) :
                i < k /\ timer_list[i] = t /\ timer_list[k].id = next'
          BY <1>2, <1>7, <3>1, <4>2 DEF Passed, Ahead
        <5>2. ~(k < p + 1) /\ ~(p + 1 < k)
          BY <1>3, <1>7, <2>3, <4>2, <5>1 DEF Ordered
        <5>3. ~(i < j) /\ ~(j < i)
          BY <1>3, <1>7, <3>2, <5>1 DEF Ordered
        <5> QED
          BY <1>7, <2>2, <3>2, <5>1, <5>2, <5>3
      <4> QED
        BY <4>1, <4>2
    <3>4. j < p
      BY <1>7, <2>2, <3>2, <3>3
    <3>5. Passed(t)
      BY <1>7, <2>2, <3>1, <3>2, <3>4 DEF Passed, Ahead
    <3> QED
      BY <1>1, <2>1, <3>1, <3>5 DEF Walked
  <2>9. Timely'
    <3>1. Polled' = Polled
      BY <2>1 DEF Polled
    <3> QED
      BY <1>1, <1>2, <2>1, <3>1 DEF Timely, InPass
  <2> QED
    BY <1>4, <1>5, <2>4, <2>6, <2>7, <2>8, <2>9 DEF Inv
<1>12. CASE PassEnds
  <2>1. /\ pc = "pass" /\ pc' = "min" /\ node' = None
        /\ node = None \/ (Listed(node) /\ ~(timer_list[Position(node)].due <= 0))
        /\ UNCHANGED <<wait, next, fresh>>
    BY <1>12 DEF PassEnds, Due, history
  <2>2. TypeOK'
    BY <1>1, <1>2, <2>1 DEF TypeOK
  <2>3. GoneStaysGone' /\ Saved' /\ Walked'
    BY <1>1, <1>2, <1>6, <2>1 DEF GoneStaysGone, Saved, Walked, InPass
  <2>4. Timely'
    <3>1. Polled' = 0
      BY <2>1 DEF Polled
    <3>2. slow \in Nat
      BY <1>1 DEF TypeOK
    <3>3. ASSUME NEW t \in Range(timer_list) PROVE t.due >= -(slow + 0)
      <4>1. t.due \in Int
        BY <1>7, TimerFields
      <4>2. CASE t.id \in fresh
        BY <1>1, <2>1, <3>2, <4>1, <4>2 DEF Timely, InPass
      <4>3. CASE t.id \notin fresh
        <5> DEFINE d == timer_list[Position(node)].due
        <5>1. node # None /\ Listed(node) /\ ~(t.due < d)
          BY <2>1, <4>3, EarlierAreFresh
        <5>2. d \in Int
          BY <1>3, <5>1, PositionFound, TimerFields
        <5>3. ~(d <= 0)
          BY <2>1, <5>1
        <5> HIDE DEF d
        <5> QED
          BY <3>2, <4>1, <5>1, <5>2, <5>3
      <4> QED
        BY <4>2, <4>3
    <3> QED
      BY <1>1, <1>2, <2>1, <3>1, <3>3 DEF Timely, InPass
  <2> QED
    BY <1>4, <1>5, <2>2, <2>3, <2>4 DEF Inv
<1> QED
  BY <1>9, <1>10, <1>11, <1>12

\* Time passes for a list.
LEMMA Aged ==
  ASSUME NEW s \in Seq(Timer)
  PROVE  LET l == [k \in DOMAIN s |-> Later(s[k])]
         IN  /\ l \in Seq(Timer) /\ DOMAIN l = DOMAIN s
             /\ \A k \in DOMAIN s : /\ l[k].id = s[k].id /\ l[k].type = s[k].type
                                    /\ l[k].due = s[k].due - 1 /\ s[k].due \in Int
<1>1. ASSUME NEW t \in Timer
      PROVE  /\ Later(t) \in Timer /\ Later(t).id = t.id /\ Later(t).type = t.type
             /\ Later(t).due = t.due - 1 /\ t.due \in Int
  BY DEF Later, Timer, Fields
<1> DEFINE l == [k \in DOMAIN s |-> Later(s[k])]
<1>2. DOMAIN s = 1..Len(s) /\ Len(s) \in Nat /\ \A k \in 1..Len(s) : s[k] \in Timer
  BY InRange, ElementOfSeq
<1>3. DOMAIN l = 1..Len(s) /\ \A k \in 1..Len(s) : l[k] = Later(s[k])
  BY <1>2
<1>4. l \in Seq(Timer)
  <2>1. \A k \in 1..Len(s) : Later(s[k]) \in Timer
    BY <1>1, <1>2
  <2> QED
    BY <1>2, <2>1
<1> HIDE DEF l
<1> QED
  BY <1>1, <1>2, <1>3, <1>4 DEF l

\* The time that the poll has left, and a bound on a deadline, a tick later.
LEMMA LessWait ==
  ASSUME NEW f \in Int, NEW a \in Int, NEW b \in Int, a <= b
  PROVE  f - a \in Int /\ f - b \in Int /\ f - b <= f - a
OBVIOUS

LEMMA MorePolled ==
  ASSUME NEW s \in Int, NEW t, NEW a \in Int, NEW b \in Int, a <= b, t = s + 1
  PROVE  t + b >= s + a + 1
OBVIOUS

LEMMA LessDue ==
  ASSUME NEW d \in Int, NEW m \in Int, NEW n \in Int, d >= -m, n >= m + 1
  PROVE  d - 1 >= -n
OBVIOUS

LEMMA TickNext == ASSUME Inv, Tick PROVE Inv'
<1>1. /\ TypeOK /\ Sorted /\ Given /\ GoneStaysGone /\ ForeverKept /\ Saved /\ Walked /\ Timely
  BY DEF Inv
<1>2. /\ timer_list' = [k \in DOMAIN timer_list |-> Later(timer_list[k])]
      /\ adding' = [a \in Apps |-> IF adding[a] = None THEN None ELSE Later(adding[a])]
      /\ wait' = (IF pc = "poll" /\ wait > 0 THEN wait - 1 ELSE wait)
      /\ since' = (IF pc = "callback" THEN since + 1 ELSE 0)
      /\ UNCHANGED <<tid, pc, node, next, fresh, gone, forever>>
  BY DEF Tick
<1>3. timer_list \in Seq(Timer)
  BY <1>1 DEF TypeOK
<1>4. /\ timer_list' \in Seq(Timer) /\ DOMAIN timer_list' = DOMAIN timer_list
      /\ \A k \in DOMAIN timer_list :
           /\ timer_list'[k].id = timer_list[k].id /\ timer_list'[k].type = timer_list[k].type
           /\ timer_list'[k].due = timer_list[k].due - 1 /\ timer_list[k].due \in Int
  <2> DEFINE l == [k \in DOMAIN timer_list |-> Later(timer_list[k])]
  <2>1. /\ l \in Seq(Timer) /\ DOMAIN l = DOMAIN timer_list
        /\ \A k \in DOMAIN timer_list :
             /\ l[k].id = timer_list[k].id /\ l[k].type = timer_list[k].type
             /\ l[k].due = timer_list[k].due - 1 /\ timer_list[k].due \in Int
    BY <1>3, Aged
  <2> HIDE DEF l
  <2>2. timer_list' = l
    BY <1>2 DEF l
  <2> QED
    BY <2>1, <2>2
<1>5. ASSUME NEW a \in Apps
      PROVE  \/ adding[a] = None /\ adding'[a] = None
             \/ /\ adding[a] # None /\ adding'[a] # None /\ adding'[a] \in NewTimers
                /\ adding[a].due \in Int /\ adding'[a].due = adding[a].due - 1
  <2>1. CASE adding[a] = None
    BY <1>2, <2>1
  <2>2. CASE adding[a] # None
    <3>1. adding[a] \in NewTimers
      BY <1>1, <2>2 DEF TypeOK
    <3>2. ASSUME NEW t \in NewTimers
          PROVE  Later(t) \in NewTimers /\ Later(t).due = t.due - 1 /\ t.due \in Int
      BY DEF Later, NewTimers, Fields
    <3>3. adding'[a] = Later(adding[a])
      BY <1>2, <2>2
    <3>4. None \notin NewTimers
      BY TimerListAssumption
    <3> QED
      BY <2>2, <3>1, <3>2, <3>3, <3>4
  <2> QED
    BY <2>1, <2>2
<1>6. /\ slow \in Nat /\ slow' \in Nat /\ slow' <= MaxSlow
      /\ wait \in Nat /\ wait' \in Nat /\ since \in Nat /\ since' \in Nat /\ MaxSlow \in Nat
      /\ IF Polling THEN slow' = slow ELSE slow' = slow + 1
  <2>1. slow \in 0..MaxSlow /\ MaxSlow \in Nat /\ wait \in Nat /\ since \in Nat
    BY <1>1, TimerListAssumption DEF TypeOK
  <2>2. IF Polling THEN slow' = slow ELSE slow < MaxSlow /\ slow' = slow + 1
    BY DEF Tick, TimePasses
  <2>3. slow' \in Nat /\ slow' <= MaxSlow
    BY <2>1, <2>2
  <2>4. wait' \in Nat
    BY <1>2, <2>1
  <2>5. since' \in Nat
    BY <1>2, <2>1
  <2> QED
    BY <2>1, <2>2, <2>3, <2>4, <2>5
<1>7. TypeOK'
  <2>1. adding' \in [Apps -> NewTimers \cup {None}]
    BY <1>2, <1>5
  <2>2. slow' \in 0..MaxSlow
    BY <1>6
  <2> QED
    BY <1>1, <1>2, <1>4, <1>6, <2>1, <2>2 DEF TypeOK
<1>8. Sorted'
  BY <1>1, <1>4 DEF Sorted
<1>9. \A id : Listed(id)' <=> Listed(id)
  BY <1>4 DEF Listed
<1>10. /\ \A t : t \in Range(timer_list) <=> \E k \in DOMAIN timer_list : timer_list[k] = t
       /\ \A t : t \in Range(timer_list') <=> \E k \in DOMAIN timer_list : timer_list'[k] = t
  <2>1. \A t : t \in Range(timer_list) <=> \E k \in 1..Len(timer_list) : timer_list[k] = t
    BY <1>3, InRange
  <2>2. \A t : t \in Range(timer_list') <=> \E k \in 1..Len(timer_list') : timer_list'[k] = t
    BY <1>4, InRange
  <2>3. DOMAIN timer_list = 1..Len(timer_list) /\ DOMAIN timer_list' = 1..Len(timer_list')
    BY <1>3, <1>4, InRange
  <2> QED
    BY <1>4, <2>1, <2>2, <2>3
<1>11. Given'
  <2>1. Pending' = Pending
    BY <1>5 DEF Pending
  <2>2. \A t \in Range(timer_list') : t.id \in 1..tid
    BY <1>1, <1>4, <1>10 DEF Given
  <2> QED
    BY <1>1, <1>2, <2>1, <2>2 DEF Given
<1>12. GoneStaysGone'
  BY <1>1, <1>2, <1>9 DEF GoneStaysGone
<1>13. ForeverKept'
  <2> SUFFICES ASSUME NEW id \in forever
               PROVE  \E t \in Range(timer_list') : t.id = id /\ t.type = "forever"
    BY <1>2 DEF ForeverKept
  <2>1. PICK t \in Range(timer_list) : t.id = id /\ t.type = "forever"
    BY <1>1 DEF ForeverKept
  <2>2. PICK k \in DOMAIN timer_list : timer_list[k] = t
    BY <1>10
  <2>3. timer_list'[k].id = id /\ timer_list'[k].type = "forever" /\ timer_list'[k] \in Range(timer_list')
    BY <1>4, <1>10, <2>1, <2>2
  <2> QED
    BY <2>3
<1>14. Saved'
  BY <1>1, <1>2, <1>9 DEF Saved
<1>15. Walked'
  <2> SUFFICES ASSUME InPass', NEW t \in Range(timer_list'), Passed(t)',
                      ~(pc = "callback" /\ t.id = node)'
               PROVE  t.id \in fresh'
    BY DEF Walked
  <2>1. Target' = Target /\ InPass
    BY <1>2 DEF Target, InPass
  <2>2. PICK j \in DOMAIN timer_list :
          /\ timer_list'[j] = t
          /\ Target = None \/ \E k \in DOMAIN timer_list : j < k /\ timer_list[k].id = Target
    <3>1. CASE Target = None
      BY <1>10, <3>1
    <3>2. CASE Target # None
      BY <1>4, <2>1, <3>2 DEF Passed, Ahead
    <3> QED
      BY <3>1, <3>2
  <2>3. timer_list[j] \in Range(timer_list) /\ timer_list[j].id = t.id
    BY <1>4, <1>10, <2>2
  <2>4. Passed(timer_list[j])
    BY <2>2 DEF Passed, Ahead
  <2>5. t.id \in fresh
    BY <1>1, <1>2, <2>1, <2>3, <2>4 DEF Walked
  <2> QED
    BY <1>2, <2>5
<1>16. Timely'
  <2>1. FdMin \in Nat /\ (pc = "poll" => wait <= FdMin)
    BY <1>1, TimerListAssumption DEF Timely
  <2>2. pc' = "poll" => wait' <= FdMin
    BY <1>2, <1>6, <2>1
  <2>3. since' <= slow'
    <3>1. CASE pc = "callback"
      <4>1. ~Polling
        BY <3>1 DEF Polling
      <4>2. since <= slow /\ since' = since + 1 /\ slow' = slow + 1
        BY <1>1, <1>2, <1>6, <3>1, <4>1 DEF Timely
      <4> QED
        BY <1>6, <4>2
    <3>2. CASE pc # "callback"
      BY <1>2, <1>6, <3>2
    <3> QED
      BY <3>1, <3>2
  <2>4. ASSUME NEW a \in Apps, adding'[a] # None PROVE adding'[a].due >= -slow'
    <3>1. /\ adding[a] # None /\ adding[a].due \in Int /\ adding'[a].due = adding[a].due - 1
      BY <1>5, <2>4
    <3>2. ~Polling
      BY <3>1 DEF Polling
    <3>3. adding[a].due >= -slow /\ slow' = slow + 1
      BY <1>1, <1>6, <3>1, <3>2 DEF Timely
    <3> QED
      BY <1>6, <3>1, <3>3
  <2>5. slow' + Polled' >= slow + Polled + 1 /\ Polled \in Int /\ Polled' \in Int
    <3>1. CASE Polling
      <4>1. pc = "poll" /\ wait > 0 /\ slow' = slow /\ wait' = wait - 1 /\ pc' = "poll"
        BY <1>2, <1>6, <3>1 DEF Polling
      <4>2. Polled = FdMin - wait /\ Polled' = FdMin - wait'
        BY <4>1 DEF Polled
      <4> QED
        BY <1>6, <2>1, <4>1, <4>2
    <3>2. CASE ~Polling
      <4>1. slow' = slow + 1
        BY <1>6, <3>2
      <4>2. CASE pc = "poll"
        <5>1. Polled = FdMin - wait /\ Polled' = FdMin - wait'
          BY <1>2, <4>2 DEF Polled
        <5>2. wait' <= wait
          BY <1>2, <1>6
        <5>3. FdMin \in Int /\ wait \in Int /\ wait' \in Int /\ slow \in Int
          BY <1>6, <2>1
        <5>4. FdMin - wait \in Int /\ FdMin - wait' \in Int /\ FdMin - wait <= FdMin - wait'
          BY <5>2, <5>3, LessWait, Zenon
        <5>5. Polled \in Int /\ Polled' \in Int /\ Polled <= Polled'
          BY <5>1, <5>4, Zenon
        <5> QED
          BY <4>1, <5>3, <5>5, MorePolled, Zenon
      <4>3. CASE pc # "poll"
        <5>1. Polled' = Polled /\ Polled \in Int
          BY <1>2, <2>1, <4>3 DEF Polled
        <5> QED
          BY <1>6, <4>1, <5>1
      <4> QED
        BY <4>2, <4>3
    <3> QED
      BY <3>1, <3>2
  <2>6. ASSUME NEW t \in Range(timer_list')
        PROVE  /\ t.due >= -(slow' + Polled')
               /\ InPass' /\ t.id \in fresh' => t.due >= -slow'
    <3>1. PICK j \in DOMAIN timer_list : timer_list'[j] = t
      BY <1>10
    <3> DEFINE u == timer_list[j]
    <3>2. u \in Range(timer_list) /\ u.id = t.id /\ t.due = u.due - 1 /\ u.due \in Int
      BY <1>4, <1>10, <3>1
    <3> HIDE DEF u
    <3>3. u.due >= -(slow + Polled)
      BY <1>1, <3>2 DEF Timely
    <3>4. t.due >= -(slow' + Polled')
      <4>1. slow + Polled \in Int /\ slow' + Polled' \in Int
        BY <1>6, <2>5
      <4>2. u.due - 1 >= -(slow' + Polled')
        BY <2>5, <3>2, <3>3, <4>1, LessDue, Zenon
      <4> QED
        BY <3>2, <4>2
    <3>5. ASSUME InPass', t.id \in fresh' PROVE t.due >= -slow'
      <4>1. InPass /\ u.id \in fresh /\ ~Polling
        BY <1>2, <3>2, <3>5 DEF InPass, Polling
      <4>2. u.due >= -slow /\ slow' = slow + 1
        BY <1>1, <1>6, <3>2, <4>1 DEF Timely
      <4> QED
        BY <1>6, <3>2, <4>2
    <3> QED
      BY <3>4, <3>5
  <2> QED
    BY <2>2, <2>3, <2>4, <2>6 DEF Timely
<1> QED
  BY <1>7, <1>8, <1>11, <1>12, <1>13, <1>14, <1>15, <1>16 DEF Inv

\* The callback returned: its timer is taken off the list, and a forever timer is
\* listed again unless there is no memory.
LEMMA ReturnsNext == ASSUME Inv, Returns PROVE Inv'
<1> DEFINE p == Position(node)
           t == timer_list[p]
           rest == RemoveAt(timer_list, p)
           u == [t EXCEPT !.due = t.interval - since]
<1>1. /\ TypeOK /\ Sorted /\ Given /\ GoneStaysGone /\ ForeverKept /\ Saved /\ Walked /\ Timely
  BY DEF Inv
<1>2. /\ pc = "callback" /\ pc' = "pass" /\ Listed(node) /\ node' = next /\ next' = None
      /\ since' = 0 /\ UNCHANGED <<tid, wait, adding, slow>>
  BY DEF Returns
<1>3. /\ timer_list \in Seq(Timer) /\ Ordered(timer_list) /\ tid \in Nat
      /\ since \in Nat /\ slow \in Nat /\ since <= slow
  BY <1>1 DEF TypeOK, Sorted, Ordered, Timely
<1>4. p \in DOMAIN timer_list /\ t.id = node /\ t \in Range(timer_list) /\ t \in Timer
  BY <1>2, <1>3, PositionFound
<1>5. /\ rest \in Seq(Timer) /\ Ordered(rest)
      /\ \A v : v \in Range(rest) <=> v \in Range(timer_list) /\ v.id # node
      /\ \A v, w : Ahead(rest, v, w) => Ahead(timer_list, v, w)
  BY <1>3, <1>4, Removed
<1>6. u \in Timer /\ u.id = node /\ u.type = t.type /\ u.due = t.interval - since
  <2>1. ASSUME NEW x \in Timer, NEW d \in Int
        PROVE  LET y == [x EXCEPT !.due = d]
               IN  y \in Timer /\ y.id = x.id /\ y.type = x.type /\ y.due = d
    BY DEF Timer, Fields
  <2>2. t.interval - since \in Int
    BY <1>3, <1>4, TimerFields
  <2> QED
    BY <1>4, <2>1, <2>2
<1>7. u.due >= -slow
  <2>1. t.interval \in Nat
    BY <1>4, TimerFields
  <2> QED
    BY <1>3, <1>6, <2>1
<1>8. \/ /\ t.type = "one_shot" /\ timer_list' = rest /\ gone' = gone \cup {node}
         /\ fresh' = fresh /\ forever' = forever
      \/ /\ t.type = "forever" /\ timer_list' = Insert(rest, u) /\ fresh' = fresh \cup {node}
         /\ gone' = gone /\ forever' = forever
      \/ /\ t.type = "forever" /\ timer_list' = rest /\ forever' = forever \ {node}
         /\ gone' = gone /\ fresh' = fresh
  BY DEF Returns
<1> HIDE DEF p, t, rest, u
<1>9. node \in 1..tid /\ 1..tid \subseteq Ids
  <2>1. tid \in 0..MaxTimers /\ MaxTimers \in Nat
    BY <1>1, TimerListAssumption DEF TypeOK
  <2> QED
    BY <1>1, <1>3, <1>4, <2>1 DEF Given, Ids
\* The list, if the timer is listed again (b) or not.
<1>10. ASSUME NEW l, l = rest \/ (l = Insert(rest, u) /\ t.type = "forever")
       PROVE  /\ l \in Seq(Timer) /\ Ordered(l)
              /\ \A v \in Range(l) : (l = Insert(rest, u) /\ v = u) \/ v \in Range(rest)
              /\ \A v \in Range(rest) : v \in Range(l)
              /\ \A v, w : Ahead(l, v, w) => Ahead(timer_list, v, w) \/ v = u \/ w = u
              /\ l = Insert(rest, u) => u \in Range(l)
  <2>1. \A v \in Range(rest) : v.id # u.id
    BY <1>5, <1>6
  <2>2. /\ Insert(rest, u) \in Seq(Timer) /\ Ordered(Insert(rest, u))
        /\ \A v : v \in Range(Insert(rest, u)) <=> v = u \/ v \in Range(rest)
        /\ \A v, w : Ahead(Insert(rest, u), v, w) => Ahead(rest, v, w) \/ v = u \/ w = u
    BY <1>5, <1>6, <2>1, Inserted
  <2>3. CASE l = rest
    <3>1. \A v \in Range(l) : v \in Range(rest)
      BY <2>3
    <3>2. l = Insert(rest, u) => u \in Range(l)
      BY <2>2
    <3> QED
      BY <1>5, <2>3, <3>1, <3>2
  <2>4. CASE l = Insert(rest, u)
    BY <1>5, <2>2, <2>4
  <2> QED
    BY <1>10, <2>3, <2>4
<1>11. /\ timer_list' \in Seq(Timer) /\ Ordered(timer_list')
       /\ \A v \in Range(timer_list') :
            (timer_list' = Insert(rest, u) /\ v = u) \/ v \in Range(rest)
       /\ \A v \in Range(rest) : v \in Range(timer_list')
       /\ \A v, w : Ahead(timer_list', v, w) => Ahead(timer_list, v, w) \/ v = u \/ w = u
       /\ timer_list' = Insert(rest, u) => u \in Range(timer_list')
  BY <1>8, <1>10
<1>12. \/ /\ t.type = "one_shot" /\ gone' = gone \cup {node} /\ forever' = forever
          /\ fresh' = fresh /\ \A v \in Range(timer_list') : v \in Range(rest)
       \/ /\ t.type = "forever" /\ gone' = gone /\ forever' = forever
          /\ fresh' = fresh \cup {node} /\ u \in Range(timer_list')
          /\ \A v \in Range(timer_list') : v = u \/ v \in Range(rest)
       \/ /\ t.type = "forever" /\ gone' = gone /\ forever' = forever \ {node}
          /\ fresh' = fresh /\ \A v \in Range(timer_list') : v \in Range(rest)
  <2>1. CASE timer_list' = rest
    <3>1. \A v \in Range(timer_list') : v \in Range(rest)
      BY <2>1
    <3> QED
      BY <1>8, <1>11, <3>1
  <2>2. CASE timer_list' = Insert(rest, u)
    <3>1. CASE t.type = "one_shot"
      <4>1. timer_list' = rest
        BY <1>8, <3>1
      <4> QED
        BY <2>1, <4>1
    <3>2. CASE t.type = "forever"
      BY <1>8, <1>11, <2>1, <2>2, <3>2
    <3> QED
      BY <1>8, <3>1, <3>2
  <2> QED
    BY <1>8, <2>1, <2>2
<1>13. ASSUME NEW v \in Range(timer_list'), v # u
       PROVE  v \in Range(rest) /\ v \in Range(timer_list) /\ v.id # node
  BY <1>5, <1>12, <1>13
<1>14. Sorted'
  BY <1>11 DEF Sorted, Ordered
<1>15. /\ fresh' \subseteq 1..tid /\ gone' \subseteq 1..tid /\ forever' \subseteq 1..tid
  BY <1>1, <1>9, <1>12 DEF Given
<1>16. TypeOK'
  <2>1. fresh' \subseteq Ids /\ gone' \subseteq Ids /\ forever' \subseteq Ids
    BY <1>9, <1>15
  <2> QED
    BY <1>1, <1>2, <1>11, <2>1 DEF TypeOK
<1>17. Given'
  <2>1. Pending' = Pending
    BY <1>2 DEF Pending
  <2>2. \A v \in Range(timer_list') : v.id \in 1..tid
    BY <1>1, <1>6, <1>9, <1>13 DEF Given
  <2> QED
    BY <1>1, <1>2, <1>15, <2>1, <2>2 DEF Given
<1>18. \A id : Listed(id)' => Listed(id)
  <2>1. \A id : Listed(id) <=> \E v \in Range(timer_list) : v.id = id
    BY <1>3, ListedInRange DEF Listed
  <2>2. \A id : Listed(id)' <=> \E v \in Range(timer_list') : v.id = id
    BY <1>11, ListedInRange DEF Listed
  <2> QED
    BY <1>2, <1>6, <1>13, <2>1, <2>2
<1>19. \A id : Listed(id) /\ id # node => Listed(id)'
  <2>1. \A id : Listed(id) <=> \E v \in Range(timer_list) : v.id = id
    BY <1>3, ListedInRange DEF Listed
  <2>2. \A id : Listed(id)' <=> \E v \in Range(timer_list') : v.id = id
    BY <1>11, ListedInRange DEF Listed
  <2> QED
    BY <1>5, <1>11, <2>1, <2>2
<1>20. GoneStaysGone'
  <2>1. CASE gone' = gone
    BY <1>1, <1>2, <1>18, <2>1 DEF GoneStaysGone
  <2>2. CASE gone' = gone \cup {node} /\ \A v \in Range(timer_list') : v \in Range(rest)
    <3>1. ASSUME NEW id, Listed(id)' PROVE Listed(id) /\ id # node
      <4>1. PICK v \in Range(timer_list') : v.id = id
        BY <1>11, <3>1, ListedInRange DEF Listed
      <4> QED
        BY <1>5, <1>18, <2>2, <3>1, <4>1
    <3> QED
      BY <1>1, <1>2, <2>2, <3>1 DEF GoneStaysGone
  <2> QED
    BY <1>12, <2>1, <2>2
<1>21. ForeverKept'
  <2> SUFFICES ASSUME NEW id \in forever'
               PROVE  \E v \in Range(timer_list') : v.id = id /\ v.type = "forever"
    BY DEF ForeverKept
  <2>1. id \in forever
    BY <1>12
  <2>2. PICK v \in Range(timer_list) : v.id = id /\ v.type = "forever"
    BY <1>1, <2>1 DEF ForeverKept
  <2>3. CASE id # node
    <3>1. v \in Range(timer_list')
      BY <1>5, <1>11, <2>2, <2>3
    <3> QED
      BY <2>2, <3>1
  <2>4. CASE id = node
    <3>1. v = t
      BY <1>3, <1>4, <2>2, <2>4, OneId
    <3>2. t.type = "forever" /\ u \in Range(timer_list')
      BY <1>12, <2>2, <2>4, <3>1
    <3> QED
      BY <1>6, <2>4, <3>2
  <2> QED
    BY <2>3, <2>4
<1>22. Saved'
  <2>1. next # None => Listed(next) /\ next # node
    BY <1>1, <1>2 DEF Saved
  <2>2. ASSUME NEW id, id = next, next # None PROVE Listed(id)'
    BY <1>19, <2>1, <2>2
  <2>3. node' # None => Listed(node)'
    BY <1>2, <2>2 DEF Listed
  <2> QED
    BY <1>2, <2>3 DEF Saved
<1>23. Walked'
  <2> SUFFICES ASSUME NEW v \in Range(timer_list'), Passed(v)' PROVE v.id \in fresh'
    BY DEF Walked
  <2>1. CASE v = u
    BY <1>6, <1>12, <1>13, <1>5, <2>1
  <2>2. CASE v # u
    <3>1. v \in Range(timer_list) /\ v.id # node
      BY <1>13, <2>2
    <3>2. Target = next /\ Target' = next /\ InPass
      BY <1>2 DEF Target, InPass
    <3>3. Passed(v)
      <4>1. CASE next = None
        BY <3>2, <4>1 DEF Passed
      <4>2. CASE next # None
        <5>1. PICK w : w.id = next /\ Ahead(timer_list', v, w)
          BY <3>2, <4>2 DEF Passed
        <5>2. w # u
          BY <1>1, <1>2, <1>6, <5>1 DEF Saved
        <5>3. Ahead(timer_list, v, w)
          BY <1>11, <2>2, <5>1, <5>2
        <5> QED
          BY <3>2, <5>1, <5>3 DEF Passed
      <4> QED
        BY <4>1, <4>2
    <3>4. v.id \in fresh
      BY <1>1, <1>2, <3>1, <3>2, <3>3 DEF Walked
    <3> QED
      BY <1>12, <3>4
  <2> QED
    BY <2>1, <2>2
<1>24. Timely'
  <2>1. Polled = FdMin /\ Polled' = FdMin /\ FdMin \in Nat
    BY <1>2, TimerListAssumption DEF Polled
  <2>2. ASSUME NEW v \in Range(timer_list')
        PROVE  v.due >= -(slow + FdMin) /\ (v.id \in fresh' => v.due >= -slow)
    <3>1. v.due \in Int
      BY <1>11, InRange, TimerFields
    <3>2. CASE v = u
      BY <1>3, <1>7, <2>1, <3>1, <3>2
    <3>3. CASE v # u
      <4>1. v \in Range(timer_list) /\ v.id # node
        BY <1>13, <3>3
      <4>2. v.id \in fresh' => v.id \in fresh
        BY <1>12, <4>1
      <4> QED
        BY <1>1, <1>2, <2>1, <4>1, <4>2 DEF Timely, InPass
    <3> QED
      BY <3>2, <3>3
  <2>3. since' <= slow'
    BY <1>2, <1>3
  <2> QED
    BY <1>1, <1>2, <2>1, <2>2, <2>3 DEF Timely
<1> QED
  BY <1>14, <1>16, <1>17, <1>20, <1>21, <1>22, <1>23, <1>24 DEF Inv

LEMMA StopNext == ASSUME Inv, Stop PROVE Inv'
<1>1. /\ timer_list' = <<>> /\ pc' = "stopped" /\ gone' = 1..tid /\ forever' = {}
      /\ UNCHANGED <<tid, wait, node, next, since, adding, fresh, slow>>
  BY DEF Stop
<1>2. timer_list' \in Seq(Timer) /\ DOMAIN timer_list' = {} /\ Range(timer_list') = {}
  BY <1>1, EmptySeq, InRange DEF Range
<1>3. tid \in 0..MaxTimers /\ MaxTimers \in Nat /\ 1..tid \subseteq Ids
  <2>1. tid \in 0..MaxTimers /\ MaxTimers \in Nat
    BY TimerListAssumption DEF Inv, TypeOK
  <2> QED
    BY <2>1 DEF Ids
<1>4. TypeOK'
  BY <1>1, <1>2, <1>3, InvTimely DEF TypeOK
<1>5. Given'
  <2>1. Pending' = Pending
    BY <1>1 DEF Pending
  <2> QED
    BY <1>1, <1>2, <2>1, InvTimely DEF Given
<1>6. Sorted' /\ GoneStaysGone' /\ ForeverKept' /\ Saved' /\ Walked'
  BY <1>1, <1>2 DEF Sorted, GoneStaysGone, Listed, ForeverKept, Saved, Walked, InPass
<1>7. Timely'
  BY <1>1, <1>2, InvTimely DEF Timely, InPass
<1> QED
  BY <1>4, <1>5, <1>6, <1>7 DEF Inv

LEMMA AsksNext ==
  ASSUME Inv, NEW a \in Apps, NEW i \in Intervals, NEW ty \in Types, AppAsks(a, i, ty)
  PROVE  Inv'
<1> DEFINE t == NewTimer(i, ty)
<1>1. /\ adding' = [adding EXCEPT ![a] = t] /\ adding[a] = None /\ MoreTimers
      /\ UNCHANGED <<timer_list, tid, pc, wait, node, next, since, fresh, gone, forever, slow>>
  BY DEF AppAsks, listVars, passVars, history
<1>2. /\ TypeOK /\ Sorted /\ Given /\ GoneStaysGone /\ ForeverKept /\ Saved /\ Walked /\ Timely
  BY DEF Inv
<1>3. t \in NewTimers /\ t.due = i /\ i \in Nat /\ t # None
  BY TimerListAssumption DEF NewTimer, NewTimers, Fields
<1> HIDE DEF t
<1>4. adding' \in [Apps -> NewTimers \cup {None}]
  BY <1>1, <1>2, <1>3 DEF TypeOK
<1>5. TypeOK'
  BY <1>1, <1>2, <1>4 DEF TypeOK
<1>6. Given'
  <2>1. Pending' = Pending \cup {a} /\ a \notin Pending
    BY <1>1, <1>2, <1>3 DEF Pending, TypeOK
  <2>2. IsFiniteSet(Pending) /\ Cardinality(Pending) \in Nat /\ tid \in Nat
        /\ tid + Cardinality(Pending) < MaxTimers /\ MaxTimers \in Nat
    BY <1>1, <1>2, RoomForOne, TimerListAssumption
  <2>3. Cardinality(Pending') = Cardinality(Pending) + 1
    BY <2>1, <2>2, FS_AddElement
  <2>4. tid + Cardinality(Pending') <= MaxTimers
    BY <2>2, <2>3
  <2> QED
    BY <1>1, <1>2, <2>4 DEF Given
<1>7. Sorted' /\ ForeverKept' /\ Walked'
  BY <1>1, <1>2 DEF Sorted, ForeverKept, Walked, Passed, Target, InPass
<1>8. GoneStaysGone' /\ Saved'
  BY <1>1, <1>2 DEF GoneStaysGone, Saved, Listed
<1>9. Timely'
  <2>1. Polled' = Polled
    BY <1>1 DEF Polled
  <2>2. ASSUME NEW b \in Apps, adding'[b] # None PROVE adding'[b].due >= -slow
    <3>1. CASE b = a
      <4>1. adding'[b] = t /\ slow \in Nat
        BY <1>1, <1>2, <3>1 DEF TypeOK
      <4> QED
        BY <1>3, <4>1
    <3>2. CASE b # a
      BY <1>1, <1>2, <2>2, <3>2 DEF Timely, TypeOK
    <3> QED
      BY <3>1, <3>2
  <2> QED
    BY <1>1, <1>2, <2>1, <2>2 DEF Timely, InPass
<1> QED
  BY <1>5, <1>6, <1>7, <1>8, <1>9 DEF Inv

LEMMA InvNext ==
  ASSUME ~RemovesSaved
  PROVE  Inv /\ [Next]_vars => Inv'
<1> SUFFICES ASSUME Inv, [Next]_vars PROVE Inv'
  OBVIOUS
<1>1. TypeOK /\ Given /\ Timely
  BY DEF Inv
<1>2. ASSUME NEW i \in Intervals, NEW ty \in Types, CallbackAdds(i, ty) PROVE Inv'
  <2> DEFINE t == NewTimer(i, ty)
  <2>1. MoreTimers /\ Add(t) /\ UNCHANGED passVars /\ adding' = adding
    BY <1>2 DEF CallbackAdds
  <2>2. t \in NewTimers /\ t.due = i /\ i \in Nat /\ slow \in Nat
    BY <1>1, TimerListAssumption DEF NewTimer, NewTimers, Fields, TypeOK
  <2> HIDE DEF t
  <2>3. t.due >= -slow
    BY <2>2
  <2>4. Pending' = Pending
    BY <2>1 DEF Pending
  <2>5. tid + 1 \in Ids /\ tid + 1 + Cardinality(Pending') <= MaxTimers
    <3>1. /\ tid + 1 \in Ids /\ tid + Cardinality(Pending) < MaxTimers
          /\ tid \in Nat /\ Cardinality(Pending) \in Nat /\ MaxTimers \in Nat
      BY <1>1, <2>1, RoomForOne, TimerListAssumption
    <3> QED
      BY <2>4, <3>1
  <2>6. /\ adding' \in [Apps -> NewTimers \cup {None}]
        /\ \A a \in Apps : adding'[a] \in {None, adding[a]}
    BY <1>1, <2>1 DEF TypeOK
  <2> QED
    BY <2>1, <2>2, <2>3, <2>5, <2>6, AddsNext
<1>3. ASSUME NEW a \in Apps, AppAdds(a) PROVE Inv'
  <2> DEFINE t == adding[a]
  <2>1. /\ t # None /\ Add(t) /\ UNCHANGED passVars
        /\ adding' = [adding EXCEPT ![a] = None]
    BY <1>3 DEF AppAdds
  <2>2. t \in NewTimers /\ t.due >= -slow
    BY <1>1, <2>1 DEF TypeOK, Timely
  <2>3. Pending' = Pending \ {a} /\ a \in Pending
    BY <1>1, <2>1 DEF Pending, TypeOK
  <2>4. tid + 1 \in Ids /\ tid + 1 + Cardinality(Pending') <= MaxTimers
    <3>1. /\ IsFiniteSet(Pending) /\ Cardinality(Pending) \in Nat /\ tid \in Nat
          /\ MaxTimers \in Nat /\ tid + Cardinality(Pending) <= MaxTimers
      BY <1>1, RoomForOne, TimerListAssumption DEF Given
    <3>2. Cardinality(Pending') = Cardinality(Pending) - 1 /\ Cardinality(Pending') \in Nat
      <4>1. IsFiniteSet(Pending')
        BY <2>3, <3>1, FS_RemoveElement
      <4> QED
        BY <2>3, <3>1, <4>1, FS_RemoveElement, FS_CardinalityType
    <3> QED
      BY <3>1, <3>2 DEF Ids
  <2>5. /\ adding' \in [Apps -> NewTimers \cup {None}]
        /\ \A b \in Apps : adding'[b] \in {None, adding[b]}
    BY <1>1, <2>1 DEF TypeOK
  <2> HIDE DEF t
  <2> QED
    BY <2>1, <2>2, <2>4, <2>5, AddsNext
<1>4. ASSUME NEW id \in Ids, CallbackRemoves(id) \/ AppRemoves(id) PROVE Inv'
  <2>1. /\ RemoveTimer(id) /\ UNCHANGED <<passVars, adding>>
        /\ pc = "callback" => id # node /\ id # next
        /\ pc # "pass"
    BY <1>4 DEF CallbackRemoves, AppRemoves, InPass
  <2> QED
    BY <2>1, RemovesNext
<1>5. CASE UNCHANGED vars
  <2>1. UNCHANGED <<timer_list, tid, pc, wait, node, next, since, adding, fresh, gone, forever, slow>>
    BY <1>5 DEF vars, listVars, passVars, history
  <2> QED
    BY <2>1 DEF Inv, TypeOK, Sorted, Given, GoneStaysGone, ForeverKept, Saved, Walked, Timely,
       Pending, Listed, Passed, Target, Polled, InPass
<1>6. ASSUME NEW a \in Apps, AppGivesUp(a) PROVE Inv'
  <2>1. /\ UNCHANGED <<timer_list, passVars, history>> /\ tid' = tid
        /\ adding' = [adding EXCEPT ![a] = None] /\ adding[a] # None
    BY <1>6 DEF AppGivesUp, listVars
  <2>2. Pending' = Pending \ {a} /\ a \in Pending
    BY <1>1, <2>1 DEF Pending, TypeOK
  <2>3. tid' + Cardinality(Pending') <= MaxTimers /\ tid' \in 0..MaxTimers
    <3>1. /\ IsFiniteSet(Pending) /\ Cardinality(Pending) \in Nat /\ tid \in 0..MaxTimers
          /\ MaxTimers \in Nat /\ tid + Cardinality(Pending) <= MaxTimers
      BY <1>1, RoomForOne, TimerListAssumption DEF Given, TypeOK
    <3>2. Cardinality(Pending') = Cardinality(Pending) - 1
      BY <2>2, <3>1, FS_RemoveElement
    <3> QED
      BY <2>1, <3>1, <3>2
  <2>4. /\ adding' \in [Apps -> NewTimers \cup {None}]
        /\ \A b \in Apps : adding'[b] \in {None, adding[b]}
    BY <1>1, <2>1 DEF TypeOK
  <2> QED
    BY <2>1, <2>3, <2>4, LosesNext
<1> QED
  BY <1>2, <1>3, <1>4, <1>5, <1>6, ThreadNext, ReturnsNext, StopNext, TickNext, AsksNext
  DEF Next, Thread

LEMMA InvHolds ==
  ASSUME ~RemovesSaved
  PROVE  Spec => []Inv
BY InvInit, InvNext, PTL DEF Spec

-------------------------------------------------------------------------------
(* The properties, of a program whose callbacks remove neither the timer that *)
(* fires nor the one after it: the pass would go on with a node that is freed. *)

\* The variables have their types: ids never run past those that were given, and
\* what time there is to poll is never negative.
THEOREM TypesHold ==
  ASSUME ~RemovesSaved
  PROVE  Spec => []TypeOK
<1>1. Inv => TypeOK
  BY DEF Inv
<1> QED
  BY InvHolds, <1>1, PTL

\* The list stays sorted by deadline and lists no timer twice, whoever adds and
\* removes timers and although a pass lists timers again while it walks the list.
THEOREM ListStaysSorted ==
  ASSUME ~RemovesSaved
  PROVE  Spec => []Sorted
<1>1. Inv => Sorted
  BY DEF Inv
<1> QED
  BY InvHolds, <1>1, PTL

\* A timer that was removed or fired for the last time is never listed again.
THEOREM NoTimerReturns ==
  ASSUME ~RemovesSaved
  PROVE  Spec => []GoneStaysGone
<1>1. Inv => GoneStaysGone
  BY DEF Inv
<1> QED
  BY InvHolds, <1>1, PTL

\* A forever timer that was listed is found whenever timer_mtx is free, until it is
\* removed or there is no memory to list it again.
THEOREM ForeverTimersStay ==
  ASSUME ~RemovesSaved
  PROVE  Spec => []ForeverStaysListed
<1>1. Inv => ForeverStaysListed
  <2>1. Inv => timer_list \in Seq(Timer) /\ ForeverKept
    BY DEF Inv, TypeOK
  <2> QED
    BY <2>1, InRange DEF ForeverKept, ForeverStaysListed, Listed
<1> QED
  BY InvHolds, <1>1, PTL

\* The pass never uses a node that has left the list, whatever application threads
\* and callbacks add and remove, when callbacks spare the two nodes it has saved.
THEOREM PassNodesStay ==
  ASSUME ~RemovesSaved
  PROVE  Spec => []SavedNodesListed
<1>1. Inv => SavedNodesListed
  BY DEF Inv, Saved, SavedNodesListed, InPass
<1> QED
  BY InvHolds, <1>1, PTL

\* No timer is late by more than the longest poll and the time that code took.
THEOREM TimersArePunctual ==
  ASSUME ~RemovesSaved
  PROVE  Spec => []Punctual
<1>1. Inv => Punctual
  <2> SUFFICES ASSUME Inv, NEW k \in DOMAIN timer_list
               PROVE  timer_list[k].due >= -(FdMin + slow)
    BY DEF Punctual
  <2>1. /\ timer_list \in Seq(Timer) /\ Timely /\ slow \in Nat /\ wait \in Nat /\ FdMin \in Nat
    BY TimerListAssumption DEF Inv, TypeOK
  <2> DEFINE t == timer_list[k]
  <2>2. t \in Range(timer_list)
    BY <2>1, InRange
  <2>3. t.due \in Int
    BY <2>1, <2>2, InRange, TimerFields
  <2>4. t.due >= -(slow + Polled)
    BY <2>1, <2>2 DEF Timely
  <2> HIDE DEF t
  <2>5. Polled \in Int /\ Polled <= FdMin
    BY <2>1 DEF Polled
  <2>6. t.due >= -(FdMin + slow)
    BY <2>1, <2>3, <2>4, <2>5
  <2> QED
    BY <2>6 DEF t
<1> QED
  BY InvHolds, <1>1, PTL

\* A pass fires timers in the order of their deadlines and ends with none left
\* that is due, but for those listed after it began.
THEOREM PassSkipsNothing ==
  ASSUME ~RemovesSaved
  PROVE  Spec => NothingDueIsSkipped
<1> DEFINE Fires(k) == Fire /\ timer_list[k].due < timer_list[Position(node)].due
                         => timer_list[k].id \in fresh
           Ends(k) == PassEnds /\ timer_list[k].due <= 0 => timer_list[k].id \in fresh
<1>1. Inv => \A k \in DOMAIN timer_list :
                 /\ Fire /\ timer_list[k].due < timer_list[Position(node)].due
                      => timer_list[k].id \in fresh
                 /\ PassEnds /\ timer_list[k].due <= 0
                      => timer_list[k].id \in fresh
  <2> SUFFICES ASSUME Inv, NEW k \in DOMAIN timer_list PROVE Fires(k) /\ Ends(k)
    OBVIOUS
  <2> DEFINE t == timer_list[k]
             d == timer_list[Position(node)].due
  <2>1. timer_list \in Seq(Timer)
    BY DEF Inv, TypeOK
  <2>2. t \in Range(timer_list) /\ t.due \in Int
    BY <2>1, InRange, TimerFields
  <2>3. Fires(k)
    BY <2>2, EarlierAreFresh DEF Fire
  <2>4. ASSUME PassEnds, t.due <= 0 PROVE t.id \in fresh
    <3>1. pc = "pass" /\ (node = None \/ (Listed(node) /\ ~(d <= 0)))
      BY <2>4 DEF PassEnds, Due
    <3>2. CASE node = None
      BY <2>2, <3>1, <3>2, EarlierAreFresh
    <3>3. CASE Listed(node) /\ ~(d <= 0)
      <4>1. d \in Int
        BY <2>1, <3>3, PositionFound, TimerFields
      <4>2. t.due < d
        BY <2>2, <2>4, <3>3, <4>1
      <4> QED
        BY <2>2, <3>1, <3>3, <4>2, EarlierAreFresh
    <3> QED
      BY <3>1, <3>2, <3>3
  <2> QED
    BY <2>3, <2>4
<1> QED
  BY InvHolds, <1>1, PTL DEF NothingDueIsSkipped

-------------------------------------------------------------------------------
(* Deadlines, as a struct timespec keeps them. *)

LEMMA OneSecondIs == OneSecond \in Nat /\ OneSecond = 1000000000
  BY SMT DEF OneSecond

\* The two parts of a time.
LEMMA TimespecParts ==
  /\ \A ts \in Timespecs : /\ ts.tv_sec \in Nat /\ ts.tv_nsec \in Nat /\ ts.tv_nsec < OneSecond
                           /\ ts = [tv_sec |-> ts.tv_sec, tv_nsec |-> ts.tv_nsec]
  /\ \A s, n \in Nat : n < OneSecond => [tv_sec |-> s, tv_nsec |-> n] \in Timespecs
<1>1. OneSecond \in Nat
  BY OneSecondIs, SMT
<1>2. \A n : n \in 0..(OneSecond - 1) <=> n \in Nat /\ n < OneSecond
  BY <1>1, SMT
<1> QED
  BY <1>1, <1>2, SMT DEF Timespecs

\* A deadline that _ts_plus moves is one that clock_gettime could have returned, and
\* lies as many milliseconds later.
LEMMA TsPlusAdds ==
  ASSUME NEW ts \in Timespecs, NEW ms \in Nat
  PROVE  /\ TsPlus(ts, ms) \in Timespecs
         /\ Nanoseconds(TsPlus(ts, ms)) = Nanoseconds(ts) + ms * 1000000
<1> DEFINE q == ms \div 1000
           r == ms % 1000
           sec == ts.tv_sec + q
           nsec == ts.tv_nsec + r * 1000 * 1000
<1>1. q \in Nat /\ r \in 0..999 /\ ms = 1000 * q + r
  BY SMT
<1>2. ts.tv_sec \in Nat /\ ts.tv_nsec \in Nat /\ ts.tv_nsec < 1000000000
  BY OneSecondIs, TimespecParts, SMT
<1>5. TsPlus(ts, ms) =
        IF nsec >= OneSecond
        THEN [tv_sec |-> sec + nsec \div OneSecond, tv_nsec |-> nsec % OneSecond]
        ELSE [tv_sec |-> sec, tv_nsec |-> nsec]
  BY Zenon DEF TsPlus
<1> HIDE DEF q, r
<1>3. nsec = ts.tv_nsec + r * 1000000
  BY <1>1, <1>2, SMT
<1>4. sec \in Nat /\ nsec \in Nat /\ nsec < 2000000000
  BY <1>1, <1>2, <1>3, SMT
<1>6. sec * 1000000000 + nsec = (ts.tv_sec * 1000000000 + ts.tv_nsec) + ms * 1000000
  BY <1>1, <1>2, <1>3, SMT
<1> HIDE DEF sec, nsec
<1>7. CASE nsec >= OneSecond
  <2>1. nsec \div OneSecond = 1 /\ nsec % OneSecond = nsec - OneSecond
    BY <1>4, <1>7, OneSecondIs, SMT
  <2>2. TsPlus(ts, ms) = [tv_sec |-> sec + 1, tv_nsec |-> nsec - OneSecond]
    BY <1>5, <1>7, <2>1, SMT
  <2>3. sec + 1 \in Nat /\ nsec - OneSecond \in Nat /\ nsec - OneSecond < OneSecond
    BY <1>4, <1>7, OneSecondIs, SMT
  <2>4. TsPlus(ts, ms) \in Timespecs
    BY <2>2, <2>3, TimespecParts, SMT
  <2>5. Nanoseconds(TsPlus(ts, ms)) = (sec + 1) * OneSecond + (nsec - OneSecond)
    BY <2>2, SMT DEF Nanoseconds
  <2> QED
    BY <1>4, <1>6, <2>4, <2>5, OneSecondIs, SMT DEF Nanoseconds
<1>8. CASE ~(nsec >= OneSecond)
  <2>1. TsPlus(ts, ms) = [tv_sec |-> sec, tv_nsec |-> nsec] /\ nsec < OneSecond
    BY <1>4, <1>5, <1>8, OneSecondIs, SMT
  <2>2. TsPlus(ts, ms) \in Timespecs
    BY <1>4, <2>1, TimespecParts, SMT
  <2>3. Nanoseconds(TsPlus(ts, ms)) = sec * OneSecond + nsec
    BY <2>1, SMT DEF Nanoseconds
  <2> QED
    BY <1>6, <2>2, <2>3, OneSecondIs, SMT DEF Nanoseconds
<1> QED
  BY <1>7, <1>8

\* _timer_compare is the order of the times, and tells any two apart.
LEMMA TimerCompareOrders ==
  ASSUME NEW a \in Timespecs, NEW b \in Timespecs
  PROVE  /\ TimerCompare(a, b) <= 0 <=> Nanoseconds(a) <= Nanoseconds(b)
         /\ TimerCompare(a, b) >= 0 <=> Nanoseconds(a) >= Nanoseconds(b)
         /\ TimerCompare(a, b) = 0 <=> a = b
<1>1. /\ a.tv_sec \in Nat /\ a.tv_nsec \in Nat /\ a.tv_nsec < 1000000000
      /\ b.tv_sec \in Nat /\ b.tv_nsec \in Nat /\ b.tv_nsec < 1000000000
  BY OneSecondIs, TimespecParts, SMT
<1>2. /\ Nanoseconds(a) = a.tv_sec * 1000000000 + a.tv_nsec
      /\ Nanoseconds(b) = b.tv_sec * 1000000000 + b.tv_nsec
  BY OneSecondIs, SMT DEF Nanoseconds
<1>3. Nanoseconds(a) \in Nat /\ Nanoseconds(b) \in Nat
  BY <1>1, <1>2, SMT
<1>4. Nanoseconds(a) = Nanoseconds(b) <=> a.tv_sec = b.tv_sec /\ a.tv_nsec = b.tv_nsec
  <2>1. ASSUME NEW s \in Nat, NEW t \in Nat, NEW m \in Nat, NEW n \in Nat, s < t, m < 1000000000
        PROVE  s * 1000000000 + m < t * 1000000000 + n
    <3>1. s + 1 <= t
      BY <2>1, SMT
    <3>2. (s + 1) * 1000000000 <= t * 1000000000
      BY <3>1, SMT
    <3> QED
      BY <2>1, <3>2, SMT
  <2>2. a.tv_sec < b.tv_sec => Nanoseconds(a) < Nanoseconds(b)
    BY <1>1, <1>2, <2>1, SMT
  <2>3. b.tv_sec < a.tv_sec => Nanoseconds(b) < Nanoseconds(a)
    BY <1>1, <1>2, <2>1, SMT
  <2>4. a.tv_sec = b.tv_sec => (Nanoseconds(a) = Nanoseconds(b) <=> a.tv_nsec = b.tv_nsec)
    BY <1>1, <1>2, SMT
  <2> QED
    BY <1>1, <1>3, <2>2, <2>3, <2>4, SMT
<1>5. a = b <=> a.tv_sec = b.tv_sec /\ a.tv_nsec = b.tv_nsec
  BY TimespecParts, SMT
<1> QED
  BY <1>3, <1>4, <1>5, SMT DEF TimerCompare

\* TimerList keeps, for each deadline, the time left until it, as an integer.  So do
\* the deadlines of the code behave: one that was set from the clock, for a new timer
\* (event_loop_add_timer) or one that is listed again (_timer_proc), has its interval
\* left, less the time since the clock was read; a timer is due when nothing is left
\* (_timer_proc); and the list is in the order of what is left (_timer_add).
THEOREM DeadlinesAreIntegers ==
  ASSUME NEW now \in Timespecs, NEW read \in Timespecs, NEW ms \in Nat,
         NEW ts \in Timespecs, NEW other \in Timespecs
  PROVE  LET Left(t) == Nanoseconds(t) - Nanoseconds(now)
         IN  /\ TsPlus(read, ms) \in Timespecs
             /\ Left(TsPlus(read, ms)) = ms * 1000000 - (Nanoseconds(now) - Nanoseconds(read))
             /\ TimerCompare(now, ts) >= 0 <=> Left(ts) <= 0
             /\ TimerCompare(ts, other) <= 0 <=> Left(ts) <= Left(other)
<1>1. \A t \in Timespecs : Nanoseconds(t) \in Int
  BY TimespecParts, OneSecondIs, SMT DEF Nanoseconds
<1>2. TsPlus(read, ms) \in Timespecs /\ Nanoseconds(TsPlus(read, ms)) = Nanoseconds(read) + ms * 1000000
  BY TsPlusAdds, SMT
<1>3. /\ TimerCompare(now, ts) >= 0 <=> Nanoseconds(now) >= Nanoseconds(ts)
      /\ TimerCompare(ts, other) <= 0 <=> Nanoseconds(ts) <= Nanoseconds(other)
  BY TimerCompareOrders, SMT
<1> QED
  BY <1>1, <1>2, <1>3, SMT
===============================================================================
