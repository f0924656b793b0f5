------------------------------ MODULE KqueueProof ------------------------------
(***************************************************************************)
(* Theorems about Kqueue, for any channels and descriptors and a table of  *)
(* any length.                                                             *)
(***************************************************************************)
EXTENDS Kqueue, FiniteSetTheorems, SequenceTheorems, WellFoundedInduction, TLAPS

Places == 1..NSlots
Opened == {c \in Channels : life[c] = "open"}

\* The changes that add and delete an event of a channel, and what the kernel makes
\* of the first.
AddOf(c, k) == [fd |-> FdOf[c], kind |-> k, flag |-> "add", udata |-> c]
DeleteOf(c, k) == [fd |-> FdOf[c], kind |-> k, flag |-> "delete", udata |-> c]
NoteOf(c, k) == [fd |-> FdOf[c], kind |-> k, udata |-> c]

AddsOf(O) == {AddOf(c, k) : c \in O, k \in Kinds}
Changes == AddsOf(Channels) \cup {DeleteOf(c, k) : c \in Channels, k \in Kinds}
NotesOf(O) == {NoteOf(c, k) : c \in O, k \in Kinds}
FdsOf(O) == {FdOf[c] : c \in O}
SlotsOf(t, c) == {i \in Places : t[i].fd = FdOf[c]}

\* Open channels have different descriptors.
Apart(O) == O \subseteq Channels /\ \A c, d \in O : FdOf[c] = FdOf[d] => c = d

Typed ==
  /\ life \in [Channels -> {"none", "open", "freed"}]
  /\ mask \in [Channels -> SUBSET Kinds]
  /\ listed \subseteq Opened /\ Apart(Opened)
  /\ slots \in [Places -> Changes \cup {Free}]
  /\ \A i \in Places : slots[i] # Free => life[slots[i].udata] # "none"
  /\ knotes \subseteq NotesOf(Channels) /\ events \subseteq NotesOf(Channels)
  /\ \A c \in Channels \ (listed \cup uneven) : mask[c] = {}

\* A slot that is taken adds an event of an open channel, or was left behind.
Tracked ==
  \A i \in Places : slots[i] # Free /\ slots[i].udata \notin spoilt => slots[i] \in AddsOf(Opened)

\* What the kernel watches or reported is of the open channel, unless a channel that
\* had the descriptor left a slot behind.
CleanNotes == \A x \in knotes \cup events : x.fd \in CleanFds => x.udata \in Opened

\* InFront, for a table and the channels that are open.
Ahead(t, O, i) == \A j \in Places : j <= i \/ t[j].fd = t[i].fd => t[j] \in AddsOf(O)
Fronts == \A i \in Places : Ahead(slots, Opened, i) => NoteOf(slots[i].udata, slots[i].kind) \in knotes

AllWatched == \A c \in listed : \A k \in mask[c] : NoteOf(c, k) \in knotes

Counted ==
  \A c \in Opened \ (starved \cup uneven) : FdOf[c] \in CleanFds =>
    Cardinality(SlotsOf(slots, c)) = Cardinality(mask[c])

Inv ==
  /\ Typed /\ Tracked /\ CleanNotes /\ Fronts /\ Counted
  /\ starved = {} /\ spoilt = {} => AllWatched
  /\ starved = {} /\ uneven = {} => spoilt = {}

-------------------------------------------------------------------------------
(* Lemmas about numbers, and about the operators of the table. *)

\* A set of naturals that is not empty has a least element.
LEMMA LeastOf ==
  ASSUME NEW S \in SUBSET Nat, S # {}
  PROVE  Min(S) \in S /\ \A x \in S : Min(S) <= x
<1> DEFINE R == {ss \in Nat \X Nat : ss[1] < ss[2]}
<1>1. IsWellFoundedOn(R, Nat)
  BY NatLessThanWellFounded DEF OpToRel
<1> HIDE DEF R
<1>2. PICK m \in S : \A x \in S : <<x, m>> \notin R
  BY <1>1, WFMin
<1>3. ASSUME NEW x \in S PROVE m <= x
  <2>1. x \in Nat /\ m \in Nat /\ (x < m => <<x, m>> \in R)
    BY DEF R
  <2> QED
    BY <1>2, <2>1
<1> QED
  BY <1>3 DEF Min

\* A set of naturals up to n that is not empty has a greatest element.
LEMMA GreatestOf ==
  ASSUME NEW n \in Nat, NEW S \in SUBSET (0..n), S # {}
  PROVE  Max(S) \in S /\ \A x \in S : x <= Max(S)
<1> DEFINE Above == {u \in Nat : \A x \in S : x <= u}
           m == Min(Above)
<1>1. n \in Above
  OBVIOUS
<1>2. m \in Above /\ \A u \in Above : m <= u
  <2>1. Above \in SUBSET Nat
    OBVIOUS
  <2> HIDE DEF Above
  <2> QED
    BY <1>1, <2>1, LeastOf
<1>3. m \in Nat /\ \A x \in S : x <= m
  BY <1>2
<1>4. m \in S
  <2>1. SUFFICES ASSUME m \notin S PROVE FALSE
    OBVIOUS
  <2>2. \A x \in S : x \in Nat /\ x <= m - 1
    BY <1>3, <2>1
  <2>3. PICK x \in S : TRUE
    OBVIOUS
  <2>4. m - 1 \in Nat
    BY <1>3, <2>2, <2>3
  <2>5. m - 1 \in Above
    BY <2>2, <2>4
  <2> QED
    BY <1>2, <1>3, <2>5
<1> HIDE DEF m
<1>5. \E y \in S : \A x \in S : y >= x
  BY <1>3, <1>4
<1>6. Max(S) \in S /\ \A x \in S : Max(S) >= x
  BY <1>5 DEF Max
<1> QED
  BY <1>6

One(k, m) == IF k \in m THEN 1 ELSE 0

LEMMA KindsFinite == IsFiniteSet(Kinds)
<1>1. IsFiniteSet({}) /\ IsFiniteSet({} \cup {"read"})
  BY FS_EmptySet, FS_AddElement
<1>2. IsFiniteSet(({} \cup {"read"}) \cup {"write"})
  BY <1>1, FS_AddElement
<1>3. IsFiniteSet((({} \cup {"read"}) \cup {"write"}) \cup {"error"})
  BY <1>2, FS_AddElement
<1>4. Kinds = (({} \cup {"read"}) \cup {"write"}) \cup {"error"}
  BY DEF Kinds
<1> QED
  BY <1>3, <1>4

\* The number of events that a mask asks for.
LEMMA KindsCounted ==
  ASSUME NEW m \in SUBSET Kinds
  PROVE  Cardinality(m) = One("read", m) + One("write", m) + One("error", m)
<1> DEFINE With(S, k) == IF k \in m THEN S \cup {k} ELSE S
           r == With({}, "read")
           w == With(r, "write")
<1>1. ASSUME NEW S, NEW k, IsFiniteSet(S), k \notin S
      PROVE  IsFiniteSet(With(S, k)) /\ Cardinality(With(S, k)) = Cardinality(S) + One(k, m)
  <2>1. Cardinality(S) \in Nat
    BY <1>1, FS_CardinalityType
  <2>2. IsFiniteSet(S \cup {k}) /\ Cardinality(S \cup {k}) = Cardinality(S) + 1
    BY <1>1, FS_AddElement
  <2> QED
    BY <1>1, <2>1, <2>2 DEF One
<1>2. IsFiniteSet({}) /\ Cardinality({}) = 0
  BY FS_EmptySet
<1>3. "write" \notin r /\ "error" \notin w /\ With(w, "error") = m
  BY DEF Kinds
<1> HIDE DEF With
<1>4. IsFiniteSet(r) /\ Cardinality(r) = Cardinality({}) + One("read", m)
  BY <1>1, <1>2
<1> HIDE DEF r
<1>5. IsFiniteSet(w) /\ Cardinality(w) = Cardinality(r) + One("write", m)
  BY <1>1, <1>3, <1>4
<1> HIDE DEF w
<1>6. Cardinality(m) = Cardinality(w) + One("error", m)
  BY <1>1, <1>3, <1>5
<1> QED
  BY <1>2, <1>4, <1>5, <1>6 DEF One

\* KindSeq lists the events that a mask asks for.
LEMMA KindsListed ==
  ASSUME NEW m \in SUBSET Kinds
  PROVE  /\ KindSeq(m) \in Seq(Kinds) /\ Len(KindSeq(m)) = Cardinality(m)
         /\ Cardinality(m) \in 0..3 /\ (m # {} => Cardinality(m) # 0)
         /\ \A k \in m : \E n \in 1..Cardinality(m) : KindSeq(m)[n] = k
         /\ \A n \in 1..Cardinality(m) : KindSeq(m)[n] \in m
         /\ "error" \in m => KindSeq(m)[Cardinality(m)] = "error"
<1> DEFINE a == Asked("read", m)
           b == Asked("write", m)
           c == Asked("error", m)
           d == a \o b
<1>1. /\ a \in Seq(Kinds) /\ Len(a) = One("read", m) /\ ("read" \in m => a[1] = "read")
      /\ b \in Seq(Kinds) /\ Len(b) = One("write", m) /\ ("write" \in m => b[1] = "write")
      /\ c \in Seq(Kinds) /\ Len(c) = One("error", m) /\ ("error" \in m => c[1] = "error")
  <2>1. ASSUME NEW k \in Kinds
        PROVE  /\ Asked(k, m) \in Seq(Kinds) /\ Len(Asked(k, m)) = One(k, m)
               /\ k \in m => Asked(k, m)[1] = k
    <3>1. CASE k \in m
      BY <3>1 DEF Asked, One
    <3>2. CASE k \notin m
      BY <3>2 DEF Asked, One
    <3> QED
      BY <3>1, <3>2
  <2> QED
    BY <2>1 DEF Kinds
<1>2. \A k : One(k, m) \in 0..1 /\ (k \in m <=> One(k, m) = 1)
  BY DEF One
<1> HIDE DEF a, b, c
<1>3. /\ d \in Seq(Kinds) /\ Len(d) = Len(a) + Len(b)
      /\ \A i \in 1..(Len(a) + Len(b)) : d[i] = IF i <= Len(a) THEN a[i] ELSE b[i - Len(a)]
  BY <1>1, ConcatProperties
<1> HIDE DEF d
<1>4. /\ d \o c \in Seq(Kinds) /\ Len(d \o c) = Len(d) + Len(c)
      /\ \A i \in 1..(Len(d) + Len(c)) : (d \o c)[i] = IF i <= Len(d) THEN d[i] ELSE c[i - Len(d)]
  <2>1. c \in Seq(Kinds) /\ d \in Seq(Kinds)
    BY <1>1, <1>3
  <2> QED
    BY <2>1, ConcatProperties
<1>5. KindSeq(m) = d \o c
  BY DEF KindSeq, a, b, c, d
<1> DEFINE s == d \o c
<1> HIDE DEF s
<1>6. /\ s \in Seq(Kinds) /\ Len(s) = Cardinality(m)
      /\ Cardinality(m) = One("read", m) + One("write", m) + One("error", m)
  BY <1>1, <1>2, <1>3, <1>4, KindsCounted DEF s
<1>7. "read" \in m => 1 \in 1..Cardinality(m) /\ s[1] = "read"
  BY <1>1, <1>2, <1>3, <1>4, <1>6 DEF s
<1>8. "write" \in m => Len(a) + 1 \in 1..Cardinality(m) /\ s[Len(a) + 1] = "write"
  BY <1>1, <1>2, <1>3, <1>4, <1>6 DEF s
<1>9. "error" \in m => /\ Len(d) + 1 \in 1..Cardinality(m) /\ Len(d) + 1 = Cardinality(m)
                       /\ s[Len(d) + 1] = "error"
  BY <1>1, <1>2, <1>3, <1>4, <1>6 DEF s
<1>10. \A k \in m : k \in {"read", "write", "error"}
  BY DEF Kinds
<1>11. ASSUME NEW n \in 1..Cardinality(m) PROVE s[n] \in m
  <2>1. \/ n = 1 /\ "read" \in m
        \/ n = Len(a) + 1 /\ "write" \in m
        \/ n = Len(d) + 1 /\ "error" \in m
    <3>1. One("read", m) \in 0..1 /\ One("write", m) \in 0..1 /\ One("error", m) \in 0..1
      BY <1>2
    <3>2. n \in 1..(One("read", m) + One("write", m) + One("error", m))
      BY <1>6
    <3>3. \/ n = 1 /\ One("read", m) = 1
          \/ n = One("read", m) + 1 /\ One("write", m) = 1
          \/ n = One("read", m) + One("write", m) + 1 /\ One("error", m) = 1
      BY <3>1, <3>2
    <3> QED
      BY <1>1, <1>2, <1>3, <3>3
  <2> QED
    BY <1>7, <1>8, <1>9, <2>1
<1>12. \A k \in m : \E n \in 1..Cardinality(m) : s[n] = k
  BY <1>7, <1>8, <1>9, <1>10
<1>13. Cardinality(m) \in 0..3 /\ (m # {} => Cardinality(m) # 0)
  BY <1>2, <1>6, <1>10
<1> QED
  BY <1>5, <1>6, <1>9, <1>11, <1>12, <1>13 DEF s

\* The event that event_io_remove_fd gives to the kernel.
LEMMA LastKind ==
  /\ \A m \in SUBSET Kinds : m # {} => Last(KindSeq(m)) \in m
  /\ Last(KindSeq(Kinds)) = "error"
<1>1. ASSUME NEW m \in SUBSET Kinds, m # {} PROVE Last(KindSeq(m)) \in m
  <2>1. /\ Len(KindSeq(m)) = Cardinality(m) /\ Cardinality(m) \in 1..Cardinality(m)
        /\ \A n \in 1..Cardinality(m) : KindSeq(m)[n] \in m
    BY <1>1, KindsListed
  <2> QED
    BY <2>1 DEF Last
<1>2. "error" \in Kinds /\ Kinds \in SUBSET Kinds
  BY DEF Kinds
<1> QED
  BY <1>1, <1>2, KindsListed DEF Last
-------------------------------------------------------------------------------
(* What the kernel does with a table. *)

\* The owner of a slot or of an event that is watched.
LEMMA OwnerOf ==
  ASSUME NEW O, Apart(O)
  PROVE  /\ \A s \in AddsOf(O) : /\ s.udata \in O /\ s.kind \in Kinds /\ s # Free
                                 /\ s = AddOf(s.udata, s.kind)
                                 /\ s.fd = FdOf[s.udata] /\ s.fd \in Nat /\ s.flag = "add"
         /\ \A x \in NotesOf(O) : /\ x.udata \in O /\ x.kind \in Kinds
                                  /\ x = NoteOf(x.udata, x.kind) /\ x.fd = FdOf[x.udata]
         /\ \A s \in AddsOf(O) : \A x \in NotesOf(O) :
              Same(x, s) <=> x = NoteOf(s.udata, s.kind)
<1>1. \A s \in AddsOf(O) : /\ s.udata \in O /\ s.kind \in Kinds /\ s # Free
                           /\ s = AddOf(s.udata, s.kind)
                           /\ s.fd = FdOf[s.udata] /\ s.fd \in Nat /\ s.flag = "add"
  BY KqueueAssumption DEF AddsOf, AddOf, Apart, Free
<1>2. \A x \in NotesOf(O) : /\ x.udata \in O /\ x.kind \in Kinds
                            /\ x = NoteOf(x.udata, x.kind) /\ x.fd = FdOf[x.udata]
  BY DEF NotesOf, NoteOf
<1>3. ASSUME NEW s \in AddsOf(O), NEW x \in NotesOf(O)
      PROVE  Same(x, s) <=> x = NoteOf(s.udata, s.kind)
  BY <1>1, <1>2 DEF Same, NoteOf, Apart
<1> QED
  BY <1>1, <1>2, <1>3

\* The first n changes of a table, when none of them is free: what was watched still
\* is, and so is what they ask for.
LEMMA AfterAdds ==
  ASSUME NEW O, Apart(O), NEW t \in [Places -> AddsOf(O) \cup {Free}],
         NEW kn \in SUBSET NotesOf(O), NEW n \in 0..NSlots, \A i \in 1..n : t[i] # Free
  PROVE  /\ kn \subseteq After(t, n, kn) /\ After(t, n, kn) \subseteq NotesOf(O)
         /\ \A i \in 1..n : NoteOf(t[i].udata, t[i].kind) \in After(t, n, kn)
<1>0. NSlots \in Nat /\ n \in Nat
  BY KqueueAssumption
<1>1. \A i \in 1..n : t[i] \in AddsOf(O)
  BY <1>0 DEF Places
<1>2. ASSUME NEW x \in NotesOf(O), NEW i \in 1..n, Same(x, t[i])
      PROVE  x \in After(t, n, kn)
  <2> DEFINE L == {j \in 1..n : Same(x, t[j])}
             m == Max(L)
  <2>1. m \in L /\ \A j \in L : j <= m
    <3>1. L \in SUBSET (0..n) /\ L # {}
      BY <1>0, <1>2
    <3> HIDE DEF L
    <3> QED
      BY <1>0, <3>1, GreatestOf
  <2>2. m \in 1..n /\ Same(x, t[m])
    BY <2>1
  <2> HIDE DEF m
  <2>3. \A k \in (m + 1)..n : ~Same(t[m], t[k])
    <3>1. SUFFICES ASSUME NEW k \in (m + 1)..n, Same(t[m], t[k]) PROVE FALSE
      OBVIOUS
    <3>2. k \in 1..n /\ ~(k <= m)
      BY <1>0, <2>2
    <3>3. /\ x.fd = t[m].fd /\ x.kind = t[m].kind
          /\ t[m].fd = t[k].fd /\ t[m].kind = t[k].kind
      BY <2>2, <3>1 DEF Same
    <3>4. x.fd = t[k].fd /\ x.kind = t[k].kind
      BY <3>3
    <3>5. Same(x, t[k])
      BY <3>4 DEF Same
    <3> QED
      BY <2>1, <3>2, <3>5
  <2> HIDE DEF L
  <2>4. t[m] \in AddsOf(O) /\ t[m].flag = "add" /\ x = NoteOf(t[m].udata, t[m].kind) /\ x.fd = t[m].fd
    <3>1. t[m] \in AddsOf(O)
      BY <1>1, <2>2
    <3>2. t[m].flag = "add" /\ (Same(x, t[m]) <=> x = NoteOf(t[m].udata, t[m].kind))
      BY <3>1, OwnerOf
    <3>3. x.fd = t[m].fd
      BY <2>2 DEF Same
    <3> QED
      BY <2>2, <3>1, <3>2, <3>3
  <2>5. x = [fd |-> t[m].fd, kind |-> t[m].kind, udata |-> t[m].udata]
    <3>1. x.fd = t[m].fd /\ x.kind = t[m].kind /\ x.udata = t[m].udata
      BY <2>4 DEF NoteOf
    <3> QED
      BY <2>4, <3>1 DEF NoteOf
  <2> QED
    BY <2>2, <2>3, <2>4, <2>5 DEF After
<1>3. ASSUME NEW x \in kn PROVE x \in After(t, n, kn)
  <2>1. CASE \E i \in 1..n : Same(x, t[i])
    BY <1>2, <2>1
  <2>2. CASE ~\E i \in 1..n : Same(x, t[i])
    BY <2>2 DEF After
  <2> QED
    BY <2>1, <2>2
<1>4. ASSUME NEW i \in 1..n PROVE NoteOf(t[i].udata, t[i].kind) \in After(t, n, kn)
  <2>1. t[i] \in AddsOf(O) /\ t[i].udata \in O /\ t[i].kind \in Kinds
    BY <1>1, OwnerOf
  <2>2. NoteOf(t[i].udata, t[i].kind) \in NotesOf(O)
    BY <2>1 DEF NotesOf
  <2>3. Same(NoteOf(t[i].udata, t[i].kind), t[i])
    BY <2>1, <2>2, OwnerOf
  <2> QED
    BY <1>2, <2>2, <2>3
<1>5. ASSUME NEW x \in After(t, n, kn), x \notin kn PROVE x \in NotesOf(O)
  <2>1. PICK i \in 1..n : x = [fd |-> t[i].fd, kind |-> t[i].kind, udata |-> t[i].udata]
    BY <1>5 DEF After
  <2>2. t[i] \in AddsOf(O) /\ t[i].udata \in O /\ t[i].kind \in Kinds /\ t[i].fd = FdOf[t[i].udata]
    BY <1>1, OwnerOf
  <2> QED
    BY <2>1, <2>2 DEF NotesOf, NoteOf
<1> QED
  BY <1>3, <1>4, <1>5

\* The whole table: the kernel goes on watching what it did, for the same channels,
\* and watches what is asked for before the first slot that is free.
LEMMA SubmitAdds ==
  ASSUME NEW O, Apart(O), NEW t \in [Places -> AddsOf(O) \cup {Free}],
         NEW kn \in SUBSET NotesOf(O), NEW open, open = FdsOf(O)
  PROVE  /\ kn \subseteq Submit(t, kn, open) /\ Submit(t, kn, open) \subseteq NotesOf(O)
         /\ \A i \in Places : (\A j \in 1..i : t[j] # Free) =>
              NoteOf(t[i].udata, t[i].kind) \in Submit(t, kn, open)
<1> DEFINE made == {n \in 0..Len(t) : \A i \in 1..n : Accepts(After(t, i - 1, kn), t[i], open)}
           n == Max(made)
<1>0. NSlots \in Nat
  BY KqueueAssumption
<1>1. Len(t) = NSlots
  BY <1>0 DEF Places
<1>2. \A i \in Places : \A k : Accepts(k, t[i], open) <=> t[i] # Free
  <2>1. ASSUME NEW i \in Places, NEW k, t[i] # Free PROVE Accepts(k, t[i], open)
    <3>1. t[i] \in AddsOf(O)
      BY <2>1
    <3> QED
      BY <3>1, OwnerOf DEF Accepts, FdsOf
  <2>2. -1 \notin open
    BY KqueueAssumption DEF Apart, FdsOf
  <2> QED
    BY <2>1, <2>2 DEF Accepts, Free
<1>3. \A k \in 0..NSlots : \A i \in 1..k : i \in Places
  BY <1>0 DEF Places
<1>4. made = {k \in 0..NSlots : \A i \in 1..k : t[i] # Free}
  BY <1>1, <1>2, <1>3
<1> HIDE DEF made
<1>5. 0 \in made /\ made \in SUBSET (0..NSlots)
  BY <1>0, <1>4
<1>6. n \in made /\ \A k \in made : k <= n
  BY <1>0, <1>5, GreatestOf
<1>7. Submit(t, kn, open) = After(t, n, kn)
  BY DEF Submit, made
<1> HIDE DEF n
<1>8. /\ kn \subseteq After(t, n, kn) /\ After(t, n, kn) \subseteq NotesOf(O)
      /\ \A i \in 1..n : NoteOf(t[i].udata, t[i].kind) \in After(t, n, kn)
  BY <1>4, <1>6, AfterAdds
<1>9. \A i \in Places : (\A j \in 1..i : t[j] # Free) => i \in 1..n
  BY <1>0, <1>4, <1>6 DEF Places
<1> QED
  BY <1>7, <1>8, <1>9
-------------------------------------------------------------------------------
(* Where the loop of event_io_add_fd puts its changes. *)

\* How many slots up to i are free.
Rank(t, i) == Cardinality({j \in FreeSlots(t) : j <= i})

\* The free slots are counted without gaps.
LEMMA RankOf ==
  ASSUME NEW T, NEW t \in [Places -> T]
  PROVE  /\ FreeSlots(t) \subseteq Places /\ Cardinality(FreeSlots(t)) \in Nat
         /\ \A i \in Places : Rank(t, i) \in Nat
         /\ \A i, j \in Places : i <= j => Rank(t, i) <= Rank(t, j)
         /\ \A i \in FreeSlots(t) : Rank(t, i) \in 1..Cardinality(FreeSlots(t))
         /\ \A i, j \in FreeSlots(t) : Rank(t, i) = Rank(t, j) => i = j
         /\ \A r \in 1..Cardinality(FreeSlots(t)) : \E i \in FreeSlots(t) : Rank(t, i) = r
<1> DEFINE F == FreeSlots(t)
           B(i) == {j \in F : j <= i}
           n == Cardinality(F)
<1>1. NSlots \in Nat /\ Places \subseteq Nat /\ F \subseteq Places
  BY KqueueAssumption DEF Places, FreeSlots
<1>2. IsFiniteSet(F) /\ n \in Nat
  <2>1. IsFiniteSet(Places)
    BY <1>1, FS_Interval DEF Places
  <2> QED
    BY <1>1, <2>1, FS_Subset, FS_CardinalityType
<1>3. \A i : IsFiniteSet(B(i)) /\ Rank(t, i) = Cardinality(B(i)) /\ Rank(t, i) \in Nat /\ Rank(t, i) <= n
  <2>1. \A i : B(i) \subseteq F
    OBVIOUS
  <2>2. \A i : IsFiniteSet(B(i)) /\ Cardinality(B(i)) <= n
    <3> HIDE DEF B, F
    <3> QED
      BY <1>2, <2>1, FS_Subset DEF n
  <2>3. \A i : Cardinality(B(i)) \in Nat
    BY <2>2, FS_CardinalityType
  <2> QED
    BY <2>2, <2>3 DEF Rank
<1>4. ASSUME NEW i \in Places, NEW j \in Places, i <= j
      PROVE  Rank(t, i) <= Rank(t, j)
  <2>1. i \in Nat /\ j \in Nat /\ \A k \in F : k \in Nat
    BY <1>1
  <2>2. B(i) \subseteq B(j)
    <3> HIDE DEF F
    <3> QED
      BY <1>4, <2>1
  <2> HIDE DEF B
  <2> QED
    BY <1>3, <2>2, FS_Subset
<1>5. ASSUME NEW i \in Places, NEW j \in F, i < j
      PROVE  Rank(t, i) < Rank(t, j)
  <2>0. i \in Nat /\ j \in Nat /\ \A k \in F : k \in Nat
    BY <1>1
  <2>1. B(i) \cup {j} \subseteq B(j) /\ j \notin B(i)
    <3> HIDE DEF F
    <3>1. B(i) \subseteq B(j)
      <4>1. \A k \in F : k <= i => k <= j
        BY <1>5, <2>0
      <4> QED
        BY <4>1
    <3>2. j \in B(j) /\ j \notin B(i)
      BY <1>5, <2>0
    <3> QED
      BY <3>1, <3>2
  <2> HIDE DEF B
  <2>2. Cardinality(B(i) \cup {j}) = Cardinality(B(i)) + 1
    BY <1>3, <2>1, FS_AddElement
  <2>3. Cardinality(B(i) \cup {j}) <= Cardinality(B(j))
    BY <1>3, <2>1, FS_Subset
  <2>4. Rank(t, i) = Cardinality(B(i)) /\ Rank(t, i) \in Nat /\ Rank(t, j) = Cardinality(B(j)) /\ Rank(t, j) \in Nat
    BY <1>3
  <2> QED
    BY <2>2, <2>3, <2>4
<1>6. ASSUME NEW i \in F PROVE Rank(t, i) \in 1..n
  <2>0. i \in Nat
    BY <1>1
  <2>1. {i} \subseteq B(i)
    <3> HIDE DEF F
    <3> QED
      BY <2>0
  <2> HIDE DEF B
  <2>2. Cardinality({i}) = 1 /\ Cardinality({i}) <= Cardinality(B(i))
    BY <1>3, <2>1, FS_Subset, FS_Singleton
  <2>3. Rank(t, i) = Cardinality(B(i)) /\ Rank(t, i) \in Nat /\ Rank(t, i) <= n
    BY <1>3
  <2> QED
    BY <1>2, <2>2, <2>3
<1> HIDE DEF F
<1>7. \A i, j \in F : Rank(t, i) = Rank(t, j) => i = j
  <2> SUFFICES ASSUME NEW i \in F, NEW j \in F, i # j PROVE Rank(t, i) # Rank(t, j)
    OBVIOUS
  <2>1. i \in Nat /\ j \in Nat /\ i \in Places /\ j \in Places /\ (i < j \/ j < i)
    BY <1>1
  <2>2. Rank(t, i) < Rank(t, j) \/ Rank(t, j) < Rank(t, i)
    BY <1>5, <2>1
  <2>3. Rank(t, i) \in Nat /\ Rank(t, j) \in Nat
    BY <1>3
  <2> QED
    BY <2>2, <2>3
<1> DEFINE f == [i \in F |-> Rank(t, i)]
<1>8. f \in Injection(F, 1..n)
  BY <1>6, <1>7 DEF Injection, IsInjective
<1>9. IsFiniteSet(1..n) /\ Cardinality(1..n) = n
  BY <1>2, FS_Interval
<1>10. f \in Surjection(F, 1..n)
  <2> HIDE DEF f
  <2> QED
    BY <1>8, <1>9, FS_Injection DEF n
<1>11. \A r \in 1..n : \E i \in F : Rank(t, i) = r
  BY <1>10 DEF Surjection
<1> QED
  BY <1>1, <1>2, <1>3, <1>4, <1>6, <1>7, <1>11 DEF F, n

\* The free slots of t that are not free in u.
TakenIn(t, u) == {i \in FreeSlots(t) : u[i] # Free}

\* What a table u is that differs from t by slots for events of c.
Extends(c, t, u) ==
  /\ DOMAIN u = Places
  /\ \A i \in Places : t[i] # Free => u[i] = t[i]
  /\ \A i \in Places : u[i] = t[i] \/ u[i] \in AddsOf({c})

\* Every event of m has its slot, with no free slot before it.
Filled(c, m, t, u) ==
  /\ \A k \in m : \E i \in Places : u[i] = AddOf(c, k) /\ \A j \in 1..i : u[j] # Free
  /\ Cardinality(TakenIn(t, u)) = Cardinality(m)

\* The loop of event_io_add_fd takes only slots that are free.  Every event that the
\* mask asks for gets one, as long as there are enough, and no slot before it is
\* left free.
LEMMA FillPuts ==
  ASSUME NEW T, NEW t \in [Places -> T], NEW c \in Channels, NEW m \in SUBSET Kinds
  PROVE  /\ Extends(c, t, Fill(t, c, m))
         /\ Cardinality(m) <= Cardinality(FreeSlots(t)) => Filled(c, m, t, Fill(t, c, m))
<1> DEFINE u == Fill(t, c, m)
           p == Cardinality(m)
           F == FreeSlots(t)
           Taken == {i \in F : u[i] # Free}
<1>1. /\ p \in Nat /\ \A n \in 1..p : KindSeq(m)[n] \in m
      /\ \A k \in m : \E n \in 1..p : KindSeq(m)[n] = k
  BY KindsListed
<1>2. /\ F \subseteq Places /\ Cardinality(F) \in Nat
      /\ \A i \in Places : Rank(t, i) \in Nat
      /\ \A i, j \in Places : i <= j => Rank(t, i) <= Rank(t, j)
      /\ \A i \in F : Rank(t, i) \in 1..Cardinality(F)
      /\ \A i, j \in F : Rank(t, i) = Rank(t, j) => i = j
      /\ \A r \in 1..Cardinality(F) : \E i \in F : Rank(t, i) = r
  BY RankOf
<1>3. DOMAIN u = Places /\ \A i \in Places : u[i] = IF t[i] = Free /\ Rank(t, i) <= p
                                                     THEN AddOf(c, KindSeq(m)[Rank(t, i)]) ELSE t[i]
  BY DEF Fill, Rank, AddOf
<1>4. \A i \in Places : i \in F <=> t[i] = Free
  BY DEF FreeSlots
<1>5. \A k : AddOf(c, k) # Free
  BY KqueueAssumption DEF AddOf, Free
<1> HIDE DEF u, p, F
<1>6. ASSUME NEW i \in F
      PROVE  IF Rank(t, i) <= p
             THEN u[i] = AddOf(c, KindSeq(m)[Rank(t, i)]) /\ u[i] \in AddsOf({c}) ELSE u[i] = Free
  <2>1. Rank(t, i) \in Nat /\ Rank(t, i) >= 1 /\ i \in Places /\ t[i] = Free
    BY <1>2, <1>4
  <2>2. Rank(t, i) <= p => KindSeq(m)[Rank(t, i)] \in Kinds
    BY <1>1, <2>1
  <2> QED
    BY <1>3, <2>1, <2>2 DEF AddsOf
<1>7. \A i \in Places : u[i] = t[i] \/ u[i] \in AddsOf({c})
  BY <1>3, <1>4, <1>6
<1>8. Extends(c, t, u)
  BY <1>3, <1>7 DEF Extends
<1> SUFFICES ASSUME p <= Cardinality(F) PROVE Filled(c, m, t, u)
  BY <1>8 DEF u, p, F
<1>9. ASSUME NEW k \in m
      PROVE  \E i \in Places : u[i] = AddOf(c, k) /\ \A j \in 1..i : u[j] # Free
  <2>1. PICK n \in 1..p : KindSeq(m)[n] = k
    BY <1>1
  <2>2. n \in 1..Cardinality(F) /\ n <= p
    BY <1>1, <1>2
  <2>3. PICK i \in F : Rank(t, i) = n
    BY <1>2, <2>2
  <2>4. i \in Places /\ u[i] = AddOf(c, k)
    BY <1>2, <1>6, <2>1, <2>2, <2>3
  <2>5. ASSUME NEW j \in 1..i PROVE u[j] # Free
    <3>1. j \in Places /\ j <= i
      BY <2>4, KqueueAssumption DEF Places
    <3>2. Rank(t, j) \in Nat /\ Rank(t, j) <= p
      BY <1>1, <1>2, <2>2, <2>3, <2>4, <3>1
    <3> QED
      BY <1>3, <1>5, <3>1, <3>2
  <2> QED
    BY <2>4, <2>5
<1>10. Cardinality(Taken) = p
  <2>1. \A i \in F : i \in Taken <=> Rank(t, i) <= p
    BY <1>5, <1>6
  <2> HIDE DEF Taken
  <2>2. Taken \subseteq F
    BY DEF Taken
  <2> DEFINE f == [i \in Taken |-> Rank(t, i)]
  <2>3. \A i \in Taken : Rank(t, i) \in 1..p
    BY <1>1, <1>2, <2>1, <2>2
  <2>4. f \in Injection(Taken, 1..p)
    BY <1>2, <2>2, <2>3 DEF Injection, IsInjective
  <2>5. f \in Surjection(Taken, 1..p)
    <3>1. ASSUME NEW r \in 1..p PROVE \E i \in Taken : f[i] = r
      <4>1. r \in 1..Cardinality(F) /\ r <= p
        BY <1>1, <1>2
      <4> QED
        BY <1>2, <2>1, <4>1
    <3>2. f \in [Taken -> 1..p]
      BY <2>3
    <3> HIDE DEF f
    <3> QED
      BY <3>1, <3>2 DEF Surjection
  <2>6. IsFiniteSet(1..p) /\ Cardinality(1..p) = p
    BY <1>1, FS_Interval
  <2> HIDE DEF f
  <2> QED
    BY <2>4, <2>5, <2>6, FS_Injection
<1> QED
  BY <1>9, <1>10 DEF Filled, p, F, TakenIn

-------------------------------------------------------------------------------
(* The two functions of the table. *)

\* event_io_add_fd, for a channel that is open and with enough free slots.
LEMMA AddFdAdds ==
  ASSUME NEW O, Apart(O), NEW c \in O, NEW m \in SUBSET Kinds,
         NEW io, io.slots \in [Places -> AddsOf(O) \cup {Free}], io.knotes \subseteq NotesOf(O),
         Cardinality(m) <= Cardinality(FreeSlots(io.slots)),
         NEW open, open = FdsOf(O)
  PROVE  LET r == AddFd(io, c, m, open)
         IN  /\ r.slots \in [Places -> AddsOf(O) \cup {Free}]
             /\ io.knotes \subseteq r.knotes /\ r.knotes \subseteq NotesOf(O)
             /\ \A k \in m : NoteOf(c, k) \in r.knotes
             /\ \A d \in O \ {c} : SlotsOf(r.slots, d) = SlotsOf(io.slots, d)
             /\ SlotsOf(io.slots, c) = {} => Cardinality(SlotsOf(r.slots, c)) = Cardinality(m)
<1> DEFINE t == io.slots
           u == Fill(t, c, m)
           kn == Submit(u, io.knotes, open)
<1>1. AddFd(io, c, m, open) = [slots |-> u, knotes |-> kn]
  BY DEF AddFd
<1>0. /\ t \in [Places -> AddsOf(O) \cup {Free}]
      /\ Cardinality(m) <= Cardinality(FreeSlots(t))
  OBVIOUS
<1> HIDE DEF t
<1>2. /\ u \in [Places -> AddsOf(O) \cup {Free}]
      /\ \A i \in Places : t[i] # Free => u[i] = t[i]
      /\ \A i \in Places : u[i] = t[i] \/ u[i] \in AddsOf({c})
      /\ \A k \in m : \E i \in Places : u[i] = AddOf(c, k) /\ \A j \in 1..i : u[j] # Free
      /\ Cardinality(TakenIn(t, u)) = Cardinality(m)
  <2>1. Extends(c, t, u) /\ Filled(c, m, t, u) /\ u = [i \in Places |-> u[i]]
    <3>1. c \in Channels
      BY DEF Apart
    <3> QED
      BY <1>0, <3>1, FillPuts DEF Fill
  <2> HIDE DEF u
  <2>2. AddsOf({c}) \subseteq AddsOf(O)
    BY DEF AddsOf
  <2>3. \A i \in Places : u[i] \in AddsOf(O) \cup {Free}
    BY <1>0, <2>1, <2>2 DEF Extends
  <2> QED
    BY <2>1, <2>3 DEF Filled, Extends
<1> HIDE DEF u
<1>3. /\ io.knotes \subseteq kn /\ kn \subseteq NotesOf(O)
      /\ \A i \in Places : (\A j \in 1..i : u[j] # Free) => NoteOf(u[i].udata, u[i].kind) \in kn
  <2>1. u \in [Places -> AddsOf(O) \cup {Free}] /\ io.knotes \in SUBSET NotesOf(O)
    BY <1>2
  <2> QED
    BY <2>1, SubmitAdds
<1> HIDE DEF kn
<1>4. ASSUME NEW k \in m PROVE NoteOf(c, k) \in kn
  <2>1. PICK i \in Places : u[i] = AddOf(c, k) /\ \A j \in 1..i : u[j] # Free
    BY <1>2
  <2>2. u[i].udata = c /\ u[i].kind = k
    BY <2>1 DEF AddOf
  <2> QED
    BY <1>3, <2>1, <2>2
<1>5. \A s \in AddsOf({c}) : s.fd = FdOf[c] /\ s # Free
  <2>1. Apart({c})
    BY DEF Apart
  <2> QED
    BY <2>1, OwnerOf
<1>6. \A d \in O : FdOf[d] # Free.fd
  BY KqueueAssumption DEF Apart, Free
<1>7. ASSUME NEW d \in O \ {c} PROVE SlotsOf(u, d) = SlotsOf(t, d)
  <2>1. FdOf[d] # FdOf[c]
    BY DEF Apart
  <2>2. \A i \in Places : u[i].fd = FdOf[d] <=> t[i].fd = FdOf[d]
    BY <1>2, <1>5, <1>6, <2>1
  <2> QED
    BY <2>2 DEF SlotsOf
<1>8. ASSUME SlotsOf(t, c) = {} PROVE Cardinality(SlotsOf(u, c)) = Cardinality(m)
  <2>1. \A i \in Places : t[i].fd # FdOf[c]
    BY <1>8 DEF SlotsOf
  <2>2. \A i \in Places : i \in FreeSlots(t) <=> t[i] = Free
    BY <1>0 DEF FreeSlots
  <2>3. FreeSlots(t) \subseteq Places
    BY <1>0 DEF FreeSlots
  <2>4. \A i \in Places : u[i].fd = FdOf[c] <=> i \in FreeSlots(t) /\ u[i] # Free
    BY <1>2, <1>5, <1>6, <2>1, <2>2
  <2>5. SlotsOf(u, c) = TakenIn(t, u)
    BY <2>3, <2>4 DEF SlotsOf, TakenIn
  <2> QED
    BY <1>2, <2>5
<1> DEFINE r == AddFd(io, c, m, open)
<1>9. r.slots = u /\ r.knotes = kn
  BY <1>1
<1> HIDE DEF r
<1>10. /\ r.slots \in [Places -> AddsOf(O) \cup {Free}]
       /\ io.knotes \subseteq r.knotes /\ r.knotes \subseteq NotesOf(O)
       /\ \A k \in m : NoteOf(c, k) \in r.knotes
       /\ \A d \in O \ {c} : SlotsOf(r.slots, d) = SlotsOf(t, d)
       /\ SlotsOf(t, c) = {} => Cardinality(SlotsOf(r.slots, c)) = Cardinality(m)
  BY <1>2, <1>3, <1>4, <1>7, <1>8, <1>9
<1> QED
  BY <1>10 DEF r, t

\* What a change says.
LEMMA ChangeOf ==
  /\ \A s \in Changes : /\ s # Free /\ s.udata \in Channels /\ s.kind \in Kinds
                        /\ s.fd = FdOf[s.udata] /\ s.fd \in Nat
                        /\ s.flag = "add" \/ s.flag = "delete"
                        /\ s.flag = "add" => s = AddOf(s.udata, s.kind)
  /\ \A O \in SUBSET Channels : /\ AddsOf(O) \subseteq Changes
                                /\ \A s \in AddsOf(O) : s.flag = "add" /\ s.udata \in O
                                /\ \A s \in Changes : s.flag = "add" /\ s.udata \in O => s \in AddsOf(O)
  /\ \A c \in Channels, k \in Kinds : AddOf(c, k) \in Changes /\ DeleteOf(c, k) \in Changes
  /\ \A x \in NotesOf(Channels) : x.udata \in Channels /\ x.kind \in Kinds /\ x.fd = FdOf[x.udata]
                                  /\ x = NoteOf(x.udata, x.kind)
<1>1. \A c \in Channels : FdOf[c] \in Nat
  BY KqueueAssumption
<1>2. \A c \in Channels, k \in Kinds : AddOf(c, k) \in Changes /\ DeleteOf(c, k) \in Changes
  BY DEF Changes, AddsOf
<1>3. ASSUME NEW s \in Changes
      PROVE  /\ s # Free /\ s.udata \in Channels /\ s.kind \in Kinds
             /\ s.fd = FdOf[s.udata] /\ s.fd \in Nat
             /\ s.flag = "add" \/ s.flag = "delete"
             /\ s.flag = "add" => s = AddOf(s.udata, s.kind)
  <2>1. PICK c \in Channels, k \in Kinds : s = AddOf(c, k) \/ s = DeleteOf(c, k)
    BY DEF Changes, AddsOf
  <2>2. s.udata = c /\ s.kind = k /\ s.fd = FdOf[c]
    BY <2>1 DEF AddOf, DeleteOf
  <2>3. s.flag = "add" \/ s.flag = "delete"
    BY <2>1 DEF AddOf, DeleteOf
  <2>4. s.flag = "add" => s = AddOf(c, k)
    BY <2>1 DEF DeleteOf
  <2>5. s # Free
    BY <1>1, <2>2 DEF Free
  <2> QED
    BY <1>1, <2>2, <2>3, <2>4, <2>5
<1>4. ASSUME NEW O \in SUBSET Channels
      PROVE  /\ AddsOf(O) \subseteq Changes
             /\ \A s \in AddsOf(O) : s.flag = "add" /\ s.udata \in O
             /\ \A s \in Changes : s.flag = "add" /\ s.udata \in O => s \in AddsOf(O)
  <2>1. AddsOf(O) \subseteq Changes
    BY DEF AddsOf, Changes
  <2>2. \A s \in AddsOf(O) : s.flag = "add" /\ s.udata \in O
    BY DEF AddsOf, AddOf
  <2>3. \A s \in Changes : s.flag = "add" /\ s.udata \in O => s \in AddsOf(O)
    BY <1>3 DEF AddsOf
  <2> QED
    BY <2>1, <2>2, <2>3
<1>5. ASSUME NEW x \in NotesOf(Channels)
      PROVE  x.udata \in Channels /\ x.kind \in Kinds /\ x.fd = FdOf[x.udata]
             /\ x = NoteOf(x.udata, x.kind)
  BY DEF NotesOf, NoteOf
<1> QED
  BY <1>2, <1>3, <1>4, <1>5

\* Whatever the table holds, the kernel has what the slots in front ask for once the
\* table was given to it, and what it has besides it had before, or is asked for by
\* some slot.
LEMMA SubmitFront ==
  ASSUME NEW O, Apart(O), NEW t \in [Places -> Changes \cup {Free}],
         NEW kn \in SUBSET NotesOf(Channels), NEW open, open = FdsOf(O)
  PROVE  /\ Submit(t, kn, open) \subseteq NotesOf(Channels)
         /\ \A x \in Submit(t, kn, open) \ kn : \E i \in Places :
              t[i] \in AddsOf(Channels) /\ x = NoteOf(t[i].udata, t[i].kind)
         /\ \A i \in Places : Ahead(t, O, i) => NoteOf(t[i].udata, t[i].kind) \in Submit(t, kn, open)
<1> DEFINE made == {n \in 0..Len(t) : \A i \in 1..n : Accepts(After(t, i - 1, kn), t[i], open)}
           n == Max(made)
<1>0. NSlots \in Nat /\ O \subseteq Channels /\ Places = 1..NSlots
  BY KqueueAssumption DEF Apart, Places
<1>1. Len(t) = NSlots
  BY <1>0
<1>2. -1 \notin open
  BY KqueueAssumption DEF Apart, FdsOf
<1>3. 0 \in made /\ made \in SUBSET (0..NSlots)
  BY <1>0, <1>1
<1>4. \A k : Submit(t, kn, open) = After(t, n, kn)
  BY DEF Submit
<1>5. \A k \in 0..NSlots : (\A i \in 1..k : Accepts(After(t, i - 1, kn), t[i], open)) => k \in made
  BY <1>1
<1>6. \A i \in 1..n : n \in made => Accepts(After(t, i - 1, kn), t[i], open)
  OBVIOUS
<1> HIDE DEF made
<1>7. n \in made /\ n \in 0..NSlots /\ \A k \in made : k <= n
  BY <1>0, <1>3, GreatestOf
<1> HIDE DEF n
<1>8. \A i \in 1..n : i \in Places /\ t[i] # Free
  <2>1. \A i \in 1..n : i \in Places /\ t[i].fd \in open
    BY <1>0, <1>6, <1>7 DEF Accepts
  <2> QED
    BY <1>2, <2>1 DEF Free
<1>9. ASSUME NEW x \in After(t, n, kn), x \notin kn
      PROVE  \E i \in Places : t[i] \in AddsOf(Channels) /\ x = NoteOf(t[i].udata, t[i].kind)
  <2>1. PICK i \in 1..n : /\ x = [fd |-> t[i].fd, kind |-> t[i].kind, udata |-> t[i].udata]
                          /\ t[i].flag = "add"
    BY <1>9 DEF After
  <2>2. i \in Places /\ t[i] \in Changes
    BY <1>8, <2>1
  <2>3. t[i].fd = FdOf[t[i].udata] /\ t[i].udata \in Channels
    BY <2>2, ChangeOf
  <2>4. t[i] \in AddsOf(Channels)
    BY <2>1, <2>2, <2>3, ChangeOf
  <2>5. x = NoteOf(t[i].udata, t[i].kind)
    BY <2>1, <2>3 DEF NoteOf
  <2> QED
    BY <2>2, <2>4, <2>5
<1>10. After(t, n, kn) \subseteq NotesOf(Channels)
  <2> SUFFICES ASSUME NEW x \in After(t, n, kn), x \notin kn PROVE x \in NotesOf(Channels)
    OBVIOUS
  <2>1. PICK i \in Places : t[i] \in AddsOf(Channels) /\ x = NoteOf(t[i].udata, t[i].kind)
    BY <1>9
  <2>2. t[i] \in Changes
    BY <2>1 DEF Changes
  <2>3. t[i].udata \in Channels /\ t[i].kind \in Kinds
    BY <2>2, ChangeOf
  <2> QED
    BY <2>1, <2>3 DEF NotesOf
<1>11. ASSUME NEW i \in Places, Ahead(t, O, i)
       PROVE  NoteOf(t[i].udata, t[i].kind) \in After(t, n, kn)
  <2> DEFINE x == NoteOf(t[i].udata, t[i].kind)
             L == {j \in 1..n : Same(x, t[j])}
             m == Max(L)
  <2>1. \A j \in 1..i : j \in Places /\ t[j] \in AddsOf(O)
    BY <1>0, <1>11 DEF Ahead
  <2>2. i \in 1..n
    <3>1. \A j \in 1..i : Accepts(After(t, j - 1, kn), t[j], open)
      <4>1. \A s \in AddsOf(O) : s.fd \in open /\ s.flag = "add"
        BY OwnerOf DEF FdsOf
      <4> QED
        BY <2>1, <4>1 DEF Accepts
    <3>2. i \in 0..NSlots
      BY <1>0
    <3>3. i \in made
      BY <1>5, <3>1, <3>2
    <3> QED
      BY <1>0, <1>7, <3>3
  <2>3. t[i] \in AddsOf(O) /\ t[i].fd = FdOf[t[i].udata] /\ x.fd = t[i].fd /\ x.kind = t[i].kind
        /\ t[i].udata \in O /\ t[i].kind \in Kinds /\ x \in NotesOf(O)
    <3>1. t[i] \in AddsOf(O)
      BY <1>0, <1>11 DEF Ahead
    <3>2. t[i].fd = FdOf[t[i].udata] /\ t[i].udata \in O /\ t[i].kind \in Kinds
      BY <3>1, OwnerOf
    <3> QED
      BY <3>1, <3>2 DEF NoteOf, NotesOf
  <2>4. m \in L /\ \A j \in L : j <= m
    <3>1. L \in SUBSET (0..n) /\ i \in L
      BY <1>7, <2>2, <2>3 DEF Same
    <3>2. n \in Nat /\ L # {}
      BY <1>7, <3>1
    <3> HIDE DEF L
    <3>3. L \in SUBSET (0..n)
      BY <3>1
    <3> QED
      BY <3>2, <3>3, GreatestOf
  <2>5. m \in 1..n /\ Same(x, t[m])
    BY <2>4
  <2> HIDE DEF m
  <2>6. t[m] \in AddsOf(O)
    <3>1. m \in Places /\ t[m].fd = t[i].fd
      BY <1>8, <2>3, <2>5 DEF Same
    <3> QED
      BY <1>11, <3>1 DEF Ahead
  <2>7. t[m].flag = "add" /\ x = NoteOf(t[m].udata, t[m].kind) /\ t[m].fd = FdOf[t[m].udata]
    BY <2>3, <2>5, <2>6, OwnerOf
  <2>8. x = [fd |-> t[m].fd, kind |-> t[m].kind, udata |-> t[m].udata]
    BY <2>7 DEF NoteOf
  <2>9. \A k \in (m + 1)..n : ~Same(t[m], t[k])
    <3> SUFFICES ASSUME NEW k \in (m + 1)..n, Same(t[m], t[k]) PROVE FALSE
      OBVIOUS
    <3>1. k \in 1..n /\ ~(k <= m)
      BY <1>7, <2>5
    <3>2. Same(x, t[k])
      BY <2>5 DEF Same
    <3> QED
      BY <2>4, <3>1, <3>2
  <2> QED
    BY <2>5, <2>7, <2>8, <2>9 DEF After
<1> QED
  BY <1>4, <1>9, <1>10, <1>11

\* A table changed only where it was free or had the descriptor of c.
Touches(c, t, u) ==
  \A i \in Places : u[i] = t[i] \/ (t[i].fd \in {FdOf[c], -1} /\ u[i].fd \in {FdOf[c], -1})

LEMMA TouchKeeps ==
  ASSUME NEW c \in Channels, NEW d \in Channels, FdOf[d] # FdOf[c], NEW t, NEW u, Touches(c, t, u)
  PROVE  SlotsOf(u, d) = SlotsOf(t, d)
<1>1. FdOf[d] # -1
  BY KqueueAssumption
<1>2. \A i \in Places : u[i].fd = FdOf[d] <=> t[i].fd = FdOf[d]
  BY <1>1 DEF Touches
<1> QED
  BY <1>2 DEF SlotsOf

\* What event_io_remove_fd does to the table and to the kernel: nothing, or the first
\* slot of the descriptor is given back, or it stays for the deletion that the
\* kernel refused.
RemovesNone(c, m, r) == r.slots = slots /\ r.knotes = knotes /\ (m = {} \/ SlotsOf(slots, c) = {})
First(c, p) == p \in SlotsOf(slots, c) /\ \A i \in SlotsOf(slots, c) : p <= i
Gives(c, m, r) == \E p \in Places :
  /\ First(c, p)
  /\ r.slots = [slots EXCEPT ![p] = Free]
  /\ r.knotes = {x \in knotes : ~(x.fd = FdOf[c] /\ x.kind = Last(KindSeq(m)))}
Refuses(c, m, r) == \E p \in Places :
  /\ First(c, p)
  /\ r.slots = [slots EXCEPT ![p] = DeleteOf(c, Last(KindSeq(m)))]
  /\ r.knotes = knotes
  /\ FdOf[c] \in OpenFds => NoteOf(c, Last(KindSeq(m))) \notin knotes

LEMMA RemoveFdOf ==
  ASSUME NEW c \in Channels, NEW m \in SUBSET Kinds, slots \in [Places -> Changes \cup {Free}]
  PROVE  LET r == RemoveFd(Io, c, m)
         IN  RemovesNone(c, m, r) \/ (m # {} /\ (Gives(c, m, r) \/ Refuses(c, m, r)))
<1> DEFINE k == Last(KindSeq(m))
           r == RemoveFd(Io, c, m)
           I == {i \in 1..Len(slots) : slots[i].fd = FdOf[c]}
           i == SelectInSeq(slots, LAMBDA s : s.fd = FdOf[c])
           change == DeleteOf(c, k)
<1>1. NSlots \in Nat /\ Places \subseteq Nat /\ Len(slots) = NSlots
  BY KqueueAssumption DEF Places
<1>2. I = SlotsOf(slots, c)
  BY <1>1 DEF SlotsOf, Places
<1>3. i = IF I # {} THEN Min(I) ELSE 0
  BY DEF SelectInSeq
<1>4. Io.slots = slots /\ Io.knotes = knotes
  BY DEF Io
<1>5. r = IF i = 0 \/ m = {} THEN Io
          ELSE IF Accepts(knotes, change, OpenFds)
               THEN [slots |-> [slots EXCEPT ![i] = Free], knotes |-> Apply(knotes, change)]
               ELSE [Io EXCEPT !.slots[i] = change]
  BY <1>4 DEF RemoveFd, DeleteOf
<1> HIDE DEF I, i, r, k
<1>6. CASE i = 0 \/ m = {}
  <2>1. I = {} \/ m = {}
    <3>1. I # {} => Min(I) \in I
      BY <1>1, <1>2, LeastOf DEF SlotsOf
    <3>2. 0 \notin I
      BY <1>1, <1>2 DEF SlotsOf, Places
    <3> QED
      BY <1>3, <1>6, <3>1, <3>2
  <2> QED
    BY <1>2, <1>4, <1>5, <1>6, <2>1 DEF RemovesNone, r
<1>7. CASE ~(i = 0 \/ m = {})
  <2>1. First(c, i) /\ i \in Places
    <3>1. I # {} /\ i = Min(I)
      BY <1>3, <1>7
    <3>2. i \in I /\ \A j \in I : i <= j
      BY <1>1, <1>2, <3>1, LeastOf DEF SlotsOf
    <3> QED
      BY <1>2, <3>2 DEF First, SlotsOf
  <2>2. CASE Accepts(knotes, change, OpenFds)
    <3>1. r.slots = [slots EXCEPT ![i] = Free] /\ r.knotes = Apply(knotes, change)
      BY <1>5, <1>7, <2>2
    <3>2. Apply(knotes, change) = {x \in knotes : ~(x.fd = FdOf[c] /\ x.kind = k)}
      BY DEF Apply, Same, DeleteOf
    <3>3. Gives(c, m, r)
      BY <2>1, <3>1, <3>2 DEF Gives, k
    <3> QED
      BY <1>7, <3>3 DEF r
  <2>3. CASE ~Accepts(knotes, change, OpenFds)
    <3>1. r = [Io EXCEPT !.slots[i] = change]
      BY <1>5, <1>7, <2>3
    <3>2. r.slots = [slots EXCEPT ![i] = change] /\ r.knotes = knotes
      BY <3>1 DEF Io
    <3>3. FdOf[c] \in OpenFds => NoteOf(c, k) \notin knotes
      BY <2>3 DEF Accepts, DeleteOf, NoteOf, Same
    <3>4. Refuses(c, m, r)
      BY <2>1, <3>2, <3>3 DEF Refuses, k
    <3> QED
      BY <1>7, <3>4 DEF r
  <2> QED
    BY <2>2, <2>3
<1> QED
  BY <1>6, <1>7
-------------------------------------------------------------------------------
(* What every step keeps. *)

LEMMA OpenedFds == OpenFds = FdsOf(Opened)
BY DEF OpenFds, FdsOf, Opened

\* A table in which nothing was left behind holds what the open channels ask for.
LEMMA CleanTable ==
  ASSUME Typed, Tracked, CleanNotes, spoilt = {}
  PROVE  /\ slots \in [Places -> AddsOf(Opened) \cup {Free}]
         /\ knotes \subseteq NotesOf(Opened)
<1>1. slots \in [Places -> AddsOf(Opened) \cup {Free}]
  BY DEF Typed, Tracked
<1>2. ASSUME NEW x \in knotes PROVE x \in NotesOf(Opened)
  <2>1. x \in NotesOf(Channels)
    BY DEF Typed
  <2>2. x.udata \in Channels /\ x.kind \in Kinds /\ x.fd = FdOf[x.udata] /\ x = NoteOf(x.udata, x.kind)
    BY <2>1, ChangeOf
  <2>3. x.fd \in CleanFds
    BY <2>2 DEF CleanFds, Fds
  <2>4. x.udata \in Opened
    BY <2>3 DEF CleanNotes
  <2> QED
    BY <2>2, <2>4 DEF NotesOf
<1> QED
  BY <1>1, <1>2

\* The slots that are left behind are remembered.
LEMMA SpoiltOf ==
  ASSUME Typed', Spoils
  PROVE  /\ spoilt \subseteq spoilt' /\ CleanFds' \subseteq CleanFds /\ Tracked'
         /\ \A i \in Places : slots'[i].flag = "delete" => slots'[i].udata \in spoilt'
         /\ spoilt = {} /\ slots' \in [Places -> AddsOf(Opened') \cup {Free}] => spoilt' = {}
<1>1. spoilt \subseteq spoilt' /\ CleanFds' \subseteq CleanFds
  BY DEF Spoils, CleanFds, Fds
<1>2. /\ life' \in [Channels -> {"none", "open", "freed"}]
      /\ \A i \in Places : slots'[i] \in Changes \cup {Free}
      /\ \A i \in Places : slots'[i] # Free => life'[slots'[i].udata] # "none"
  BY DEF Typed, Places, Changes, AddsOf, AddOf, DeleteOf, Free
<1>3. ASSUME NEW i \in Places, slots'[i] \in Changes,
             slots'[i].flag = "delete" \/ life'[slots'[i].udata] = "freed"
      PROVE  slots'[i].udata \in spoilt'
  <2>1. slots'[i].udata \in Channels
    BY <1>3, ChangeOf
  <2> QED
    BY <1>3, <2>1 DEF Spoils, Places
<1>4. ASSUME NEW i \in Places, slots'[i] # Free, slots'[i].udata \notin spoilt'
      PROVE  slots'[i] \in AddsOf(Opened')
  <2>1. slots'[i] \in Changes
    BY <1>2, <1>4
  <2>2. slots'[i].udata \in Channels /\ (slots'[i].flag = "add" \/ slots'[i].flag = "delete")
    BY <2>1, ChangeOf
  <2>3. slots'[i].flag = "add" /\ life'[slots'[i].udata] = "open"
    BY <1>2, <1>3, <1>4, <2>1, <2>2
  <2>4. slots'[i].udata \in Opened' /\ Opened' \subseteq Channels
    BY <2>2, <2>3 DEF Opened
  <2> QED
    BY <2>1, <2>3, <2>4, ChangeOf
<1>5. Tracked'
  <2>1. (AddsOf(Opened))' = AddsOf(Opened')
    BY DEF AddsOf, AddOf
  <2> QED
    BY <1>4, <2>1 DEF Tracked, Places, Free
<1>6. ASSUME NEW i \in Places, slots'[i].flag = "delete" PROVE slots'[i].udata \in spoilt'
  BY <1>2, <1>3, <1>6 DEF Free
<1>7. ASSUME spoilt = {}, slots' \in [Places -> AddsOf(Opened') \cup {Free}] PROVE spoilt' = {}
  <2> SUFFICES ASSUME NEW c \in Channels, NEW i \in 1..NSlots, slots'[i].udata = c,
                      slots'[i].flag = "delete" \/ life'[c] = "freed"
               PROVE  FALSE
    BY <1>7 DEF Spoils
  <2>1. slots'[i] # Free
    BY KqueueAssumption DEF Free
  <2>2. slots'[i] \in AddsOf(Opened') /\ Opened' \subseteq Channels
    BY <1>7, <2>1 DEF Places, Opened
  <2>3. slots'[i].flag = "add" /\ slots'[i].udata \in Opened'
    BY <2>2, ChangeOf
  <2> QED
    BY <2>3 DEF Opened
<1> QED
  BY <1>1, <1>5, <1>6, <1>7

\* What the kernel has or reported of a descriptor that was always given back is of
\* the channel that has it.
LEMMA NotesKept ==
  ASSUME Typed', Spoils, CleanNotes,
         \A x \in knotes' \cup events' :
           \/ x \in knotes \cup events /\ (x.udata \in Opened => x.udata \in Opened')
           \/ \E i \in Places : /\ slots'[i] \in AddsOf(Channels)
                                /\ x = NoteOf(slots'[i].udata, slots'[i].kind)
  PROVE  CleanNotes'
<1> SUFFICES ASSUME NEW x \in knotes' \cup events', x.fd \in CleanFds' PROVE x.udata \in Opened'
  BY DEF CleanNotes
<1>1. Tracked' /\ CleanFds' \subseteq CleanFds
  BY SpoiltOf
<1>2. CASE x \in knotes \cup events /\ (x.udata \in Opened => x.udata \in Opened')
  BY <1>1, <1>2 DEF CleanNotes
<1>3. ASSUME NEW i \in Places, slots'[i] \in AddsOf(Channels), x = NoteOf(slots'[i].udata, slots'[i].kind)
      PROVE  x.udata \in Opened'
  <2>1. slots'[i] \in Changes
    BY <1>3 DEF Changes
  <2>2. slots'[i] # Free /\ x.udata = slots'[i].udata /\ x.fd = FdOf[x.udata] /\ x.udata \in Channels
    BY <1>3, <2>1, ChangeOf DEF NoteOf
  <2>3. slots'[i].udata \notin spoilt'
    BY <2>2 DEF CleanFds
  <2>4. slots'[i] \in AddsOf(Opened') /\ Opened' \subseteq Channels
    <3>1. (AddsOf(Opened))' = AddsOf(Opened')
      BY DEF AddsOf, AddOf
    <3> QED
      BY <1>1, <2>2, <2>3, <3>1 DEF Tracked, Places, Free, Opened
  <2> QED
    BY <2>2, <2>4, ChangeOf
<1> QED
  BY <1>2, <1>3

\* A table from which slots of c were taken.
Loses(c, t) ==
  /\ t \in [Places -> Changes \cup {Free}]
  /\ \A i \in Places : \/ t[i] = slots[i]
                       \/ slots[i].fd = FdOf[c] /\ t[i] \in {Free} \cup {DeleteOf(c, k) : k \in Kinds}

LEMMA LosesOf ==
  ASSUME NEW c \in Channels, NEW t, Loses(c, t)
  PROVE  /\ Touches(c, slots, t)
         /\ \A i \in Places : t[i] = slots[i] \/ (\A O : t[i] \notin AddsOf(O))
         /\ \A i \in Places : t[i] = slots[i] \/ t[i] = Free \/ t[i].udata = c
<1>1. ASSUME NEW i \in Places, NEW k \in Kinds, t[i] = DeleteOf(c, k) \/ t[i] = Free
      PROVE  t[i].fd \in {FdOf[c], -1} /\ (t[i] = Free \/ t[i].udata = c) /\ t[i].flag # "add"
  BY <1>1 DEF DeleteOf, Free
<1>2. ASSUME NEW i \in Places, t[i] # slots[i]
      PROVE  /\ slots[i].fd = FdOf[c] /\ t[i].fd \in {FdOf[c], -1}
             /\ t[i] = Free \/ t[i].udata = c
             /\ t[i].flag # "add"
  <2>1. slots[i].fd = FdOf[c] /\ \E k \in Kinds : t[i] = DeleteOf(c, k) \/ t[i] = Free
    BY <1>2 DEF Loses, Kinds
  <2> QED
    BY <1>1, <2>1
<1>3. \A O : \A s \in AddsOf(O) : s.flag = "add"
  BY DEF AddsOf, AddOf
<1>4. Touches(c, slots, t)
  BY <1>2 DEF Touches
<1> QED
  BY <1>2, <1>3, <1>4

LEMMA RemoveFdLoses ==
  ASSUME Typed, NEW c \in Channels, NEW m \in SUBSET Kinds
  PROVE  LET r == RemoveFd(Io, c, m)
         IN  /\ Loses(c, r.slots) /\ r.knotes \subseteq knotes
             /\ \A x \in knotes \ r.knotes : m # {} /\ x.fd = FdOf[c] /\ x.kind = Last(KindSeq(m))
<1> DEFINE r == RemoveFd(Io, c, m)
           k == Last(KindSeq(m))
<1>1. slots \in [Places -> Changes \cup {Free}]
  BY DEF Typed
<1>2. RemovesNone(c, m, r) \/ (m # {} /\ (Gives(c, m, r) \/ Refuses(c, m, r)))
  BY <1>1, RemoveFdOf
<1>3. m # {} => k \in Kinds
  BY LastKind
<1> HIDE DEF r, k
<1>4. CASE RemovesNone(c, m, r)
  BY <1>1, <1>4 DEF RemovesNone, Loses, r
<1>5. CASE m # {} /\ Gives(c, m, r)
  <2>1. PICK p \in Places : /\ First(c, p) /\ r.slots = [slots EXCEPT ![p] = Free]
                            /\ r.knotes = {x \in knotes : ~(x.fd = FdOf[c] /\ x.kind = k)}
    BY <1>5 DEF Gives, k
  <2>2. Loses(c, r.slots)
    BY <1>1, <2>1 DEF Loses, First, SlotsOf
  <2> QED
    BY <1>5, <2>1, <2>2 DEF r, k
<1>6. CASE m # {} /\ Refuses(c, m, r)
  <2>1. PICK p \in Places : /\ First(c, p) /\ r.slots = [slots EXCEPT ![p] = DeleteOf(c, k)]
                            /\ r.knotes = knotes
    BY <1>6 DEF Refuses, k
  <2>2. DeleteOf(c, k) \in Changes
    BY <1>3, <1>6, ChangeOf
  <2>3. Loses(c, r.slots)
    BY <1>1, <1>3, <1>6, <2>1, <2>2 DEF Loses, First, SlotsOf
  <2> QED
    BY <2>1, <2>3 DEF r
<1> QED
  BY <1>2, <1>4, <1>5, <1>6

\* A slot in front that is not of c was in front before slots of c were taken.
LEMMA FrontKept ==
  ASSUME Typed, Fronts, NEW c \in Channels, NEW t, Loses(c, t), NEW O \in SUBSET Opened,
         NEW i \in Places, Ahead(t, O, i), t[i].fd # FdOf[c]
  PROVE  t[i] = slots[i] /\ t[i] \in AddsOf(O) /\ NoteOf(t[i].udata, t[i].kind) \in knotes
<1>1. Places \subseteq Nat
  BY KqueueAssumption DEF Places
<1>2. Opened \subseteq Channels /\ AddsOf(O) \subseteq AddsOf(Opened)
  BY DEF Opened, AddsOf
<1>3. \A j \in Places : j <= i \/ t[j].fd = t[i].fd => t[j] = slots[j] /\ t[j] \in AddsOf(O)
  BY LosesOf DEF Ahead
<1>4. t[i] = slots[i] /\ t[i] \in AddsOf(O)
  BY <1>1, <1>3
<1>5. t[i].fd # -1
  <2>1. t[i] \in Changes
    BY <1>4 DEF Loses, Ahead, AddsOf, AddOf, Free
  <2> QED
    BY <2>1, ChangeOf
<1>6. \A j \in Places : slots[j].fd = slots[i].fd => t[j].fd = t[i].fd
  BY <1>4, <1>5, LosesOf DEF Touches
<1>7. Ahead(slots, Opened, i)
  BY <1>2, <1>3, <1>4, <1>6 DEF Ahead
<1> QED
  BY <1>4, <1>7 DEF Fronts
-------------------------------------------------------------------------------
(* The steps. *)

\* A channel is closed and freed, after slots of it were taken from the table.
LEMMA CloseKeeps ==
  ASSUME Inv, NEW c \in Opened, MayFree(c), NEW t, Loses(c, t),
         NEW kn \in SUBSET knotes, \A x \in knotes \ kn : x.fd = FdOf[c],
         slots' = t, knotes' = {x \in kn : x.fd # FdOf[c]},
         FreeMemory(c), listed' = listed \ {c}, events' = events, starved' = starved,
         uneven \subseteq uneven', Spoils,
         starved = {} /\ uneven' = {} => SlotsOf(t, c) = {}
  PROVE  Inv'
<1> DEFINE O == Opened \ {c}
<1>1. /\ Typed /\ Tracked /\ CleanNotes /\ Fronts /\ Counted
      /\ life' = [life EXCEPT ![c] = "freed"] /\ mask' = [mask EXCEPT ![c] = {}]
      /\ c \in Channels
  BY DEF Inv, FreeMemory, Opened
<1>2. Opened' = O /\ O \subseteq Opened /\ O \subseteq Channels /\ Opened \subseteq Channels
  BY <1>1 DEF Typed, Opened
<1>3. Apart(O) /\ \A d \in O : FdOf[d] # FdOf[c]
  BY <1>1, <1>2 DEF Typed, Apart
<1>4. Typed'
  <2>1. life' \in [Channels -> {"none", "open", "freed"}] /\ mask' \in [Channels -> SUBSET Kinds]
    BY <1>1 DEF Typed
  <2>2. listed' \subseteq O
    BY <1>1 DEF Typed
  <2>3. slots' \in [Places -> Changes \cup {Free}]
    BY DEF Loses
  <2>4. ASSUME NEW i \in Places, slots'[i] # Free PROVE life'[slots'[i].udata] # "none"
    <3>1. CASE slots'[i] = slots[i]
      BY <1>1, <2>4, <3>1 DEF Typed
    <3>2. CASE slots'[i].udata = c
      BY <1>1, <3>2 DEF Typed
    <3> QED
      BY <1>1, <2>4, <3>1, <3>2, LosesOf
  <2>5. knotes' \subseteq NotesOf(Channels) /\ events' \subseteq NotesOf(Channels)
    BY <1>1 DEF Typed
  <2>6. \A d \in Channels \ (listed' \cup uneven') : mask'[d] = {}
    BY <1>1 DEF Typed
  <2>7. /\ Places' = Places /\ Changes' = Changes /\ (NotesOf(Channels))' = NotesOf(Channels)
        /\ (Apart(Opened))' = Apart(O)
    BY <1>2 DEF Places, Changes, AddsOf, AddOf, DeleteOf, NotesOf, NoteOf, Apart
  <2> QED
    BY <1>2, <1>3, <2>1, <2>2, <2>3, <2>4, <2>5, <2>6, <2>7 DEF Typed, Free
<1>5. Tracked' /\ spoilt \subseteq spoilt' /\ CleanFds' \subseteq CleanFds
  BY <1>4, SpoiltOf
<1>6. CleanNotes'
  <2>1. ASSUME NEW x \in knotes' \cup events'
        PROVE  x \in knotes \cup events /\ (x.udata \in Opened => x.udata \in Opened')
    <3>1. CASE x \in knotes'
      <4>1. x \in knotes /\ x.fd # FdOf[c] /\ x \in NotesOf(Channels)
        BY <1>1, <3>1 DEF Typed
      <4>2. x.udata # c
        BY <4>1, ChangeOf
      <4> QED
        BY <1>2, <4>1, <4>2
    <3>2. CASE x \in events'
      BY <1>2, <3>2 DEF MayFree
    <3> QED
      BY <3>1, <3>2
  <2> QED
    BY <1>1, <1>4, <2>1, NotesKept
<1>7. Fronts'
  <2>1. ASSUME NEW i \in Places, Ahead(t, O, i) PROVE NoteOf(t[i].udata, t[i].kind) \in knotes'
    <3>1. t[i] \in AddsOf(O)
      BY <2>1, KqueueAssumption DEF Ahead, Places
    <3>2. t[i].fd = FdOf[t[i].udata] /\ t[i].udata \in O
      BY <1>3, <3>1, OwnerOf
    <3>3. t[i].fd # FdOf[c]
      BY <1>3, <3>2
    <3>4. NoteOf(t[i].udata, t[i].kind) \in knotes
      BY <1>1, <1>2, <2>1, <3>3, FrontKept
    <3>5. NoteOf(t[i].udata, t[i].kind).fd # FdOf[c]
      BY <3>2, <3>3 DEF NoteOf
    <3> QED
      BY <3>4, <3>5
  <2>2. \A i : (Ahead(slots, Opened, i))' = Ahead(t, O, i)
    BY <1>2 DEF Ahead, AddsOf, AddOf, Places
  <2> QED
    BY <2>1, <2>2 DEF Fronts, Places, NoteOf
<1>8. Counted'
  <2>1. ASSUME NEW d \in O \ (starved' \cup uneven'), FdOf[d] \in CleanFds'
        PROVE  Cardinality(SlotsOf(t, d)) = Cardinality(mask'[d])
    <3>1. SlotsOf(t, d) = SlotsOf(slots, d)
      BY <1>1, <1>2, <1>3, LosesOf, TouchKeeps
    <3>2. mask'[d] = mask[d]
      BY <1>1, <1>2 DEF Typed
    <3> QED
      BY <1>1, <1>5, <2>1, <3>1, <3>2 DEF Counted
  <2>2. \A d : SlotsOf(slots, d)' = SlotsOf(t, d)
    BY DEF SlotsOf, Places
  <2> QED
    BY <1>2, <2>1, <2>2 DEF Counted
<1>9. starved' = {} /\ spoilt' = {} => AllWatched'
  <2> SUFFICES ASSUME starved' = {}, spoilt' = {}, NEW d \in listed', NEW k \in mask'[d]
               PROVE  NoteOf(d, k) \in knotes'
    BY DEF AllWatched, NoteOf
  <2>1. d \in listed /\ d \in O /\ k \in mask[d]
    BY <1>1 DEF Typed
  <2>2. NoteOf(d, k) \in knotes
    BY <1>5, <2>1 DEF Inv, AllWatched
  <2>3. NoteOf(d, k).fd # FdOf[c]
    BY <1>3, <2>1 DEF NoteOf
  <2> QED
    BY <2>2, <2>3
<1>10. starved' = {} /\ uneven' = {} => spoilt' = {}
  <2> SUFFICES ASSUME starved' = {}, uneven' = {} PROVE spoilt' = {}
    OBVIOUS
  <2>1. spoilt = {} /\ SlotsOf(t, c) = {}
    BY DEF Inv
  <2>2. slots \in [Places -> AddsOf(Opened) \cup {Free}]
    BY <1>1, <2>1, CleanTable
  <2>3. ASSUME NEW i \in Places, t[i] # Free PROVE t[i] \in AddsOf(O)
    <3>1. t[i].fd # FdOf[c]
      BY <2>1 DEF SlotsOf
    <3>2. \A k : DeleteOf(c, k).fd = FdOf[c]
      BY DEF DeleteOf
    <3>3. t[i] = slots[i] /\ t[i] \in AddsOf(Opened)
      BY <2>2, <2>3, <3>1, <3>2 DEF Loses
    <3>4. t[i].udata \in O /\ t[i].kind \in Kinds /\ t[i] = AddOf(t[i].udata, t[i].kind)
      BY <1>1, <3>1, <3>3, OwnerOf DEF Typed
    <3> QED
      BY <3>4 DEF AddsOf
  <2>4. t \in [Places -> AddsOf(O) \cup {Free}]
    BY <2>3 DEF Loses
  <2> QED
    BY <1>2, <1>4, <2>1, <2>4, SpoiltOf
<1> QED
  BY <1>4, <1>5, <1>6, <1>7, <1>8, <1>9, <1>10 DEF Inv

\* No slot is counted only if there is none.
LEMMA NoSlots ==
  ASSUME NEW t, NEW c
  PROVE  IsFiniteSet(SlotsOf(t, c)) /\ (Cardinality(SlotsOf(t, c)) = 0 <=> SlotsOf(t, c) = {})
<1>1. IsFiniteSet(Places) /\ SlotsOf(t, c) \subseteq Places
  BY FS_Interval, KqueueAssumption DEF Places, SlotsOf
<1>2. IsFiniteSet(SlotsOf(t, c))
  BY <1>1, FS_Subset
<1> QED
  BY <1>2, FS_EmptySet

\* As long as channels are removed one event at a time, one that is open has a slot for
\* each of its events, and the kernel watches them.
LEMMA InOrder ==
  ASSUME Inv, starved = {}, uneven = {}, NEW c \in Opened
  PROVE  /\ Cardinality(SlotsOf(slots, c)) = Cardinality(mask[c])
         /\ c \in listed => \A k \in mask[c] : NoteOf(c, k) \in knotes
         /\ c \notin listed => SlotsOf(slots, c) = {}
<1>1. spoilt = {} /\ AllWatched /\ c \in Channels
  BY DEF Inv, Opened
<1>2. FdOf[c] \in CleanFds
  BY <1>1 DEF CleanFds, Fds
<1>3. Cardinality(SlotsOf(slots, c)) = Cardinality(mask[c])
  BY <1>2 DEF Inv, Counted
<1>4. c \notin listed => SlotsOf(slots, c) = {}
  <2> SUFFICES ASSUME c \notin listed PROVE SlotsOf(slots, c) = {}
    OBVIOUS
  <2>1. mask[c] = {}
    BY <1>1 DEF Inv, Typed
  <2> QED
    BY <1>3, <2>1, NoSlots, FS_EmptySet
<1> QED
  BY <1>1, <1>3, <1>4 DEF AllWatched

\* One event that is removed gives its slot back.
LEMMA OneGiven ==
  ASSUME Inv, starved = {}, uneven = {}, NEW c \in listed, NEW m \in SUBSET Kinds,
         m \subseteq mask[c], Cardinality(m) = 1
  PROVE  LET r == RemoveFd(Io, c, m)
         IN  /\ Gives(c, m, r)
             /\ Cardinality(SlotsOf(r.slots, c)) = Cardinality(SlotsOf(slots, c)) - 1
<1> DEFINE r == RemoveFd(Io, c, m)
           k == Last(KindSeq(m))
<1>1. c \in Opened /\ c \in Channels /\ slots \in [Places -> Changes \cup {Free}]
      /\ mask[c] \in SUBSET Kinds
  BY DEF Inv, Typed, Opened
<1>2. RemovesNone(c, m, r) \/ (m # {} /\ (Gives(c, m, r) \/ Refuses(c, m, r)))
  BY <1>1, RemoveFdOf
<1>3. m # {}
  BY FS_EmptySet
<1>4. k \in mask[c]
  BY <1>3, LastKind
<1>5. NoteOf(c, k) \in knotes
  BY <1>1, <1>4, InOrder
<1>6. SlotsOf(slots, c) # {}
  <2>1. Cardinality(mask[c]) # 0
    BY <1>1, <1>4, KindsListed
  <2> QED
    BY <1>1, <2>1, InOrder, FS_EmptySet
<1>7. FdOf[c] \in OpenFds
  BY <1>1 DEF OpenFds, Opened
<1> HIDE DEF r, k
<1>8. Gives(c, m, r)
  BY <1>2, <1>3, <1>5, <1>6, <1>7 DEF RemovesNone, Refuses, k
<1>9. PICK p \in Places : First(c, p) /\ r.slots = [slots EXCEPT ![p] = Free]
  BY <1>8 DEF Gives
<1>10. SlotsOf(r.slots, c) = SlotsOf(slots, c) \ {p}
  <2>1. FdOf[c] # Free.fd
    BY <1>1, KqueueAssumption DEF Free
  <2> QED
    BY <1>1, <1>9, <2>1 DEF SlotsOf
<1>11. p \in SlotsOf(slots, c) /\ IsFiniteSet(SlotsOf(slots, c))
  BY <1>9, NoSlots DEF First
<1>12. Cardinality(SlotsOf(r.slots, c)) = Cardinality(SlotsOf(slots, c)) - 1
  BY <1>10, <1>11, FS_RemoveElement
<1> QED
  BY <1>8, <1>12 DEF r

LEMMA FreeChannelKeeps ==
  ASSUME Inv, NEW c \in Channels, FreeChannel(c)
  PROVE  Inv'
<1> DEFINE t == slots
           kn == knotes
<1>1. /\ MayFree(c) /\ c \in Opened /\ c \notin listed /\ FreeMemory(c) /\ Spoils
      /\ events' = events /\ starved' = starved /\ uneven' = uneven /\ listed' = listed \ {c}
  BY DEF FreeChannel, Opened, pollVars
<1>2. slots' = t /\ knotes' = {x \in kn : x.fd # FdOf[c]}
  BY DEF FreeChannel, CloseIt, Becomes, Io
<1>3. Loses(c, t)
  BY DEF Inv, Typed, Loses
<1>4. starved = {} /\ uneven' = {} => SlotsOf(t, c) = {}
  BY <1>1, InOrder
<1>5. kn \in SUBSET knotes /\ \A x \in knotes \ kn : x.fd = FdOf[c]
  OBVIOUS
<1> HIDE DEF t, kn
<1> QED
  BY <1>1, <1>2, <1>3, <1>4, <1>5, CloseKeeps

LEMMA RemoveChannelKeeps ==
  ASSUME Inv, NEW c \in Channels, RemoveChannel(c)
  PROVE  Inv'
<1> DEFINE m == mask[c]
           r == RemoveFd(Io, c, m)
           t == r.slots
           kn == r.knotes
<1>1. /\ MayFree(c) /\ c \in listed /\ FreeMemory(c) /\ Spoils /\ CloseIt(c, r)
      /\ events' = events /\ starved' = starved /\ listed' = listed \ {c}
      /\ uneven' = IF Cardinality(m) > 1 THEN uneven \cup {c} ELSE uneven
  BY DEF RemoveChannel, pollVars
<1>2. c \in Opened /\ m \in SUBSET Kinds /\ Typed
  BY <1>1 DEF Inv, Typed
<1>3. /\ Loses(c, t) /\ kn \in SUBSET knotes /\ \A x \in knotes \ kn : x.fd = FdOf[c]
  BY <1>2, RemoveFdLoses
<1>4. slots' = t /\ knotes' = {x \in kn : x.fd # FdOf[c]}
  BY <1>1 DEF CloseIt, Becomes
<1>5. ASSUME starved = {}, uneven' = {} PROVE SlotsOf(t, c) = {}
  <2>1. uneven = {} /\ Cardinality(m) \in 0..1
    <3>1. Cardinality(m) \in 0..3
      BY <1>2, KindsListed
    <3> HIDE DEF m
    <3> QED
      BY <1>1, <1>5, <3>1
  <2>2. Cardinality(SlotsOf(slots, c)) = Cardinality(m)
    BY <1>2, <1>5, <2>1, InOrder
  <2>3. CASE Cardinality(m) = 0
    <3>1. SlotsOf(slots, c) = {}
      BY <2>2, <2>3, NoSlots
    <3>2. \A i \in Places : t[i] = slots[i]
      BY <1>3, <3>1 DEF Loses, SlotsOf
    <3> QED
      BY <3>1, <3>2 DEF SlotsOf
  <2>4. CASE Cardinality(m) = 1
    <3>1. Cardinality(SlotsOf(t, c)) = 0
      BY <1>1, <1>2, <1>5, <2>1, <2>2, <2>4, OneGiven
    <3> QED
      BY <3>1, NoSlots
  <2> QED
    BY <2>1, <2>3, <2>4
<1>6. uneven \subseteq uneven'
  BY <1>1
<1> HIDE DEF t, kn, r, m
<1> QED
  BY <1>1, <1>2, <1>3, <1>4, <1>5, <1>6, CloseKeeps

\* One event of c has been removed for each slot that was.
LEMMA CountsOne ==
  ASSUME Typed, NEW c \in Opened, NEW m \in SUBSET mask[c], Cardinality(m) <= 1,
         Cardinality(SlotsOf(slots, c)) = Cardinality(mask[c])
  PROVE  LET r == RemoveFd(Io, c, m)
         IN  \/ Cardinality(SlotsOf(r.slots, c)) = Cardinality(mask[c] \ m)
             \/ \E i \in Places : r.slots[i].flag = "delete" /\ r.slots[i].udata = c
<1> DEFINE r == RemoveFd(Io, c, m)
<1>1. /\ c \in Channels /\ slots \in [Places -> Changes \cup {Free}] /\ mask[c] \in SUBSET Kinds
      /\ m \in SUBSET Kinds
  BY DEF Typed, Opened
<1>2. RemovesNone(c, m, r) \/ (m # {} /\ (Gives(c, m, r) \/ Refuses(c, m, r)))
  BY <1>1, RemoveFdOf
<1>3. IsFiniteSet(mask[c]) /\ (m # {} => Cardinality(mask[c]) # 0)
  <2>1. m # {} => mask[c] # {}
    OBVIOUS
  <2> QED
    BY <1>1, <2>1, KindsListed, KindsFinite, FS_Subset
<1> HIDE DEF r
<1>4. CASE m = {}
  <2>1. r.slots = slots /\ mask[c] \ m = mask[c]
    BY <1>2, <1>4 DEF RemovesNone
  <2> QED
    BY <2>1 DEF r
<1>5. CASE m # {} /\ RemovesNone(c, m, r)
  BY <1>3, <1>5, FS_EmptySet DEF RemovesNone
<1>6. CASE m # {} /\ Gives(c, m, r)
  <2>1. PICK p \in Places : First(c, p) /\ r.slots = [slots EXCEPT ![p] = Free]
    BY <1>6 DEF Gives
  <2>2. SlotsOf(r.slots, c) = SlotsOf(slots, c) \ {p}
    <3>1. FdOf[c] # Free.fd
      BY <1>1, KqueueAssumption DEF Free
    <3> QED
      BY <1>1, <2>1, <3>1 DEF SlotsOf
  <2>3. Cardinality(SlotsOf(r.slots, c)) = Cardinality(SlotsOf(slots, c)) - 1
    BY <2>1, <2>2, NoSlots, FS_RemoveElement DEF First
  <2>4. PICK k \in m : TRUE
    BY <1>6
  <2>5. m = {k}
    <3>1. IsFiniteSet(m)
      BY <1>3, FS_Subset
    <3>2. IsFiniteSet(m \ {k}) /\ Cardinality(m \ {k}) = Cardinality(m) - 1
      BY <2>4, <3>1, FS_RemoveElement
    <3>3. Cardinality(m) \in Nat /\ Cardinality(m \ {k}) \in Nat
      BY <3>1, <3>2, FS_CardinalityType
    <3>4. Cardinality(m \ {k}) = 0
      BY <3>2, <3>3
    <3>5. m \ {k} = {}
      BY <3>2, <3>4, FS_EmptySet
    <3> QED
      BY <2>4, <3>5
  <2>6. Cardinality(mask[c] \ m) = Cardinality(mask[c]) - 1
    BY <1>3, <2>4, <2>5, FS_RemoveElement
  <2> QED
    BY <2>3, <2>6 DEF r
<1>7. CASE m # {} /\ Refuses(c, m, r)
  <2>1. PICK p \in Places : r.slots = [slots EXCEPT ![p] = DeleteOf(c, Last(KindSeq(m)))]
    BY <1>7 DEF Refuses
  <2>2. r.slots[p] = DeleteOf(c, Last(KindSeq(m)))
    BY <1>1, <2>1
  <2>3. r.slots[p].flag = "delete" /\ r.slots[p].udata = c
    BY <2>2 DEF DeleteOf
  <2> QED
    BY <2>3 DEF r
<1> QED
  BY <1>2, <1>4, <1>5, <1>6, <1>7

LEMMA RemoveEventsKeeps ==
  ASSUME Inv, NEW c \in Channels, NEW m \in SUBSET Kinds, RemoveEvents(c, m)
  PROVE  Inv'
<1> DEFINE r == RemoveFd(Io, c, m)
           t == r.slots
<1>1. /\ Typed /\ Tracked /\ CleanNotes /\ Fronts /\ Counted /\ Spoils
      /\ c \in listed /\ slots' = t /\ knotes' = r.knotes
      /\ mask' = [mask EXCEPT ![c] = mask[c] \ m]
      /\ listed' = IF mask[c] \subseteq m THEN listed \ {c} ELSE listed
      /\ uneven' = IF Cardinality(m) > 1 \/ ~(m \subseteq mask[c]) THEN uneven \cup {c} ELSE uneven
      /\ life' = life /\ events' = events /\ starved' = starved
  BY DEF Inv, RemoveEvents, Becomes, pollVars
<1>2. c \in Opened /\ Opened' = Opened /\ Opened \subseteq Channels /\ mask[c] \in SUBSET Kinds
  BY <1>1 DEF Typed, Opened
<1>3. /\ Loses(c, t) /\ r.knotes \subseteq knotes
      /\ \A x \in knotes \ r.knotes : m # {} /\ x.fd = FdOf[c] /\ x.kind = Last(KindSeq(m))
  BY <1>1, RemoveFdLoses
<1>4. RemovesNone(c, m, r) \/ (m # {} /\ (Gives(c, m, r) \/ Refuses(c, m, r)))
  BY <1>1, RemoveFdOf DEF Typed
<1>5. m # {} => Last(KindSeq(m)) \in m
  BY LastKind
<1>6. Cardinality(m) \in 0..3
  BY KindsListed
<1> HIDE DEF r, t
<1>7. Typed'
  <2>1. mask' \in [Channels -> SUBSET Kinds] /\ listed' \subseteq Opened
    BY <1>1, <1>2 DEF Typed
  <2>2. ASSUME NEW i \in Places, slots'[i] # Free PROVE life'[slots'[i].udata] # "none"
    <3>1. CASE t[i] = slots[i]
      BY <1>1, <2>2, <3>1 DEF Typed
    <3>2. CASE t[i].udata = c
      BY <1>1, <1>2, <3>2 DEF Opened
    <3> QED
      BY <1>1, <1>3, <2>2, <3>1, <3>2, LosesOf
  <2>3. \A d \in Channels \ (listed' \cup uneven') : mask'[d] = {}
    BY <1>1 DEF Typed
  <2>4. slots' \in [Places -> Changes \cup {Free}] /\ knotes' \subseteq NotesOf(Channels)
    BY <1>1, <1>3 DEF Loses, Typed
  <2>5. /\ Places' = Places /\ Changes' = Changes /\ (NotesOf(Channels))' = NotesOf(Channels)
        /\ (Apart(Opened))' = Apart(Opened)
    BY <1>2 DEF Places, Changes, AddsOf, AddOf, DeleteOf, NotesOf, NoteOf, Apart
  <2> QED
    BY <1>1, <1>2, <2>1, <2>2, <2>3, <2>4, <2>5 DEF Typed, Free
<1>8. /\ Tracked' /\ spoilt \subseteq spoilt' /\ CleanFds' \subseteq CleanFds
      /\ \A i \in Places : slots'[i].flag = "delete" => slots'[i].udata \in spoilt'
      /\ spoilt = {} /\ slots' \in [Places -> AddsOf(Opened') \cup {Free}] => spoilt' = {}
  BY <1>1, <1>7, SpoiltOf
<1>9. CleanNotes'
  <2>1. \A x \in knotes' \cup events' : x \in knotes \cup events /\ (x.udata \in Opened => x.udata \in Opened')
    BY <1>1, <1>2, <1>3
  <2> QED
    BY <1>1, <1>7, <2>1, NotesKept
<1>10. Fronts'
  <2>1. ASSUME NEW i \in Places, Ahead(t, Opened, i) PROVE NoteOf(t[i].udata, t[i].kind) \in r.knotes
    <3>0. i \in Nat /\ \A j \in Places : j \in Nat
      BY KqueueAssumption DEF Places
    <3>1. t[i] \in AddsOf(Opened)
      BY <2>1, <3>0 DEF Ahead
    <3>2. t[i].fd = FdOf[t[i].udata]
      BY <1>1, <3>1, OwnerOf DEF Typed
    <3>3. CASE t[i].fd = FdOf[c]
      <4>1. RemovesNone(c, m, r)
        <5>1. ASSUME NEW p \in Places, First(c, p) PROVE t[p] \in AddsOf(Opened)
          <6>1. t[i] = slots[i]
            BY <1>3, <3>1, LosesOf
          <6>2. p <= i
            BY <3>3, <5>1, <6>1 DEF First, SlotsOf
          <6> QED
            BY <2>1, <6>2 DEF Ahead
        <5>2. ASSUME NEW p \in Places, NEW s, First(c, p), s.flag # "add" PROVE t # [slots EXCEPT ![p] = s]
          <6>1. [slots EXCEPT ![p] = s][p] = s
            BY <1>1 DEF Typed
          <6>2. \A x \in AddsOf(Opened) : x.flag = "add"
            BY DEF AddsOf, AddOf
          <6> QED
            BY <5>1, <5>2, <6>1, <6>2
        <5>3. Free.flag # "add" /\ \A k : DeleteOf(c, k).flag # "add"
          BY DEF Free, DeleteOf
        <5>4. ~Gives(c, m, r) /\ ~Refuses(c, m, r)
          BY <5>2, <5>3 DEF Gives, Refuses, t
        <5> QED
          BY <1>4, <5>4
      <4>2. t = slots /\ r.knotes = knotes
        BY <4>1 DEF RemovesNone, t
      <4> QED
        BY <1>1, <2>1, <4>2 DEF Fronts
    <3>4. CASE t[i].fd # FdOf[c]
      <4>1. NoteOf(t[i].udata, t[i].kind) \in knotes
        BY <1>1, <1>3, <2>1, <3>4, FrontKept
      <4>2. NoteOf(t[i].udata, t[i].kind).fd # FdOf[c]
        BY <3>2, <3>4 DEF NoteOf
      <4> QED
        BY <1>3, <4>1, <4>2
    <3> QED
      BY <3>3, <3>4
  <2>2. \A i : (Ahead(slots, Opened, i))' = Ahead(t, Opened, i)
    BY <1>1, <1>2 DEF Ahead, AddsOf, AddOf, Places
  <2> QED
    BY <1>1, <2>1, <2>2 DEF Fronts, Places, NoteOf
<1>11. Counted'
  <2>1. ASSUME NEW d \in Opened \ (starved' \cup uneven'), FdOf[d] \in CleanFds'
        PROVE  Cardinality(SlotsOf(t, d)) = Cardinality(mask'[d])
    <3>1. Cardinality(SlotsOf(slots, d)) = Cardinality(mask[d])
      BY <1>1, <1>8, <2>1 DEF Counted
    <3>2. CASE d # c
      <4>1. FdOf[d] # FdOf[c]
        BY <1>1, <1>2, <3>2 DEF Typed, Apart
      <4>2. SlotsOf(t, d) = SlotsOf(slots, d)
        BY <1>2, <1>3, <4>1, LosesOf, TouchKeeps
      <4> QED
        BY <1>1, <1>2, <3>1, <3>2, <4>2 DEF Typed
    <3>3. CASE d = c
      <4>1. m \subseteq mask[c] /\ Cardinality(m) <= 1
        BY <1>1, <1>6, <2>1, <3>3
      <4>2. ~\E i \in Places : t[i].flag = "delete" /\ t[i].udata = c
        BY <1>1, <1>2, <1>8, <2>1, <3>3 DEF CleanFds
      <4>3. Cardinality(SlotsOf(t, c)) = Cardinality(mask[c] \ m)
        BY <1>1, <1>2, <3>1, <3>3, <4>1, <4>2, CountsOne DEF t, r
      <4> QED
        BY <1>1, <1>2, <3>3, <4>3 DEF Typed
    <3> QED
      BY <3>2, <3>3
  <2>2. \A d : SlotsOf(slots, d)' = SlotsOf(t, d)
    BY <1>1 DEF SlotsOf, Places
  <2> QED
    BY <1>2, <2>1, <2>2 DEF Counted
<1>12. starved' = {} /\ spoilt' = {} => AllWatched'
  <2> SUFFICES ASSUME starved' = {}, spoilt' = {}, NEW d \in listed', NEW j \in mask'[d]
               PROVE  NoteOf(d, j) \in knotes'
    BY DEF AllWatched, NoteOf
  <2>1. d \in listed /\ j \in mask[d] /\ (d = c => j \notin m)
    BY <1>1 DEF Typed
  <2>2. NoteOf(d, j) \in knotes
    BY <1>1, <1>8, <2>1 DEF Inv, AllWatched
  <2>3. d # c => FdOf[d] # FdOf[c]
    BY <1>1, <1>2, <2>1 DEF Typed, Apart
  <2>4. NoteOf(d, j).fd = FdOf[d] /\ NoteOf(d, j).kind = j
    BY DEF NoteOf
  <2> QED
    BY <1>1, <1>3, <1>5, <2>1, <2>2, <2>3, <2>4
<1>13. starved' = {} /\ uneven' = {} => spoilt' = {}
  <2> SUFFICES ASSUME starved' = {}, uneven' = {} PROVE spoilt' = {}
    OBVIOUS
  <2>1. starved = {} /\ uneven = {} /\ spoilt = {} /\ m \subseteq mask[c] /\ Cardinality(m) \in 0..1
    BY <1>1, <1>6 DEF Inv
  <2>2. slots \in [Places -> AddsOf(Opened) \cup {Free}]
    BY <1>1, <2>1, CleanTable
  <2>3. CASE Cardinality(m) = 1
    <3>1. Gives(c, m, r)
      BY <1>1, <2>1, <2>3, OneGiven DEF r
    <3>2. t \in [Places -> AddsOf(Opened) \cup {Free}]
      BY <2>2, <3>1 DEF Gives, t
    <3> QED
      BY <1>1, <1>2, <1>8, <2>1, <3>2
  <2>4. CASE Cardinality(m) = 0
    <3>1. m = {}
      BY <2>4, KindsListed
    <3>2. t = slots
      BY <1>4, <3>1 DEF RemovesNone, t
    <3> QED
      BY <1>1, <1>2, <1>8, <2>1, <2>2, <3>2
  <2> QED
    BY <2>1, <2>3, <2>4
<1> QED
  BY <1>7, <1>8, <1>9, <1>10, <1>11, <1>12, <1>13 DEF Inv

\* event_io_add_fd, whatever the table holds.
LEMMA AddFdOf ==
  ASSUME NEW O, Apart(O), NEW c \in O, NEW m \in SUBSET Kinds,
         NEW io, io.slots \in [Places -> Changes \cup {Free}], io.knotes \in SUBSET NotesOf(Channels),
         NEW open, open = FdsOf(O)
  PROVE  LET r == AddFd(io, c, m, open)
         IN  /\ r.slots \in [Places -> Changes \cup {Free}]
             /\ Extends(c, io.slots, r.slots) /\ Touches(c, io.slots, r.slots)
             /\ r.knotes \subseteq NotesOf(Channels)
             /\ \A x \in r.knotes \ io.knotes : \E i \in Places :
                  r.slots[i] \in AddsOf(Channels) /\ x = NoteOf(r.slots[i].udata, r.slots[i].kind)
             /\ \A i \in Places : Ahead(r.slots, O, i) => NoteOf(r.slots[i].udata, r.slots[i].kind) \in r.knotes
             /\ Cardinality(m) <= Cardinality(FreeSlots(io.slots)) /\ SlotsOf(io.slots, c) = {} =>
                  Cardinality(SlotsOf(r.slots, c)) = Cardinality(m)
<1> DEFINE t == io.slots
           kn == io.knotes
           u == Fill(t, c, m)
           r == AddFd(io, c, m, open)
<1>1. r.slots = u /\ r.knotes = Submit(u, kn, open) /\ u = [i \in Places |-> u[i]]
  BY DEF AddFd, Fill
<1>2. c \in Channels /\ t \in [Places -> Changes \cup {Free}] /\ kn \in SUBSET NotesOf(Channels)
  BY DEF Apart
<1> HIDE DEF t, kn, r
<1>3. /\ Extends(c, t, u)
      /\ Cardinality(m) <= Cardinality(FreeSlots(t)) => Filled(c, m, t, u)
  BY <1>2, FillPuts
<1> HIDE DEF u
<1>4. \A s \in AddsOf({c}) : s \in Changes /\ s.fd = FdOf[c] /\ s # Free
  <2>1. AddsOf({c}) \subseteq Changes
    BY <1>2 DEF AddsOf, Changes
  <2> QED
    BY <2>1, ChangeOf DEF AddsOf, AddOf
<1>5. u \in [Places -> Changes \cup {Free}]
  <2>1. \A i \in Places : u[i] \in Changes \cup {Free}
    BY <1>2, <1>3, <1>4 DEF Extends
  <2> QED
    BY <1>1, <2>1
<1>6. Touches(c, t, u)
  <2>1. ASSUME NEW i \in Places, u[i] # t[i] PROVE t[i].fd = -1 /\ u[i].fd = FdOf[c]
    <3>1. t[i] = Free /\ u[i] \in AddsOf({c})
      BY <1>3, <2>1 DEF Extends
    <3> QED
      BY <1>4, <3>1 DEF Free
  <2> QED
    BY <2>1 DEF Touches
<1>7. /\ r.knotes \subseteq NotesOf(Channels)
      /\ \A x \in r.knotes \ kn : \E i \in Places :
           u[i] \in AddsOf(Channels) /\ x = NoteOf(u[i].udata, u[i].kind)
      /\ \A i \in Places : Ahead(u, O, i) => NoteOf(u[i].udata, u[i].kind) \in r.knotes
  BY <1>1, <1>2, <1>5, SubmitFront
<1>8. ASSUME Cardinality(m) <= Cardinality(FreeSlots(t)), SlotsOf(t, c) = {}
      PROVE  Cardinality(SlotsOf(u, c)) = Cardinality(m)
  <2>1. Cardinality(TakenIn(t, u)) = Cardinality(m)
    BY <1>3, <1>8 DEF Filled
  <2>2. FreeSlots(t) = {i \in Places : t[i] = Free}
    BY <1>2 DEF FreeSlots
  <2>3. \A i \in Places : t[i].fd # FdOf[c]
    BY <1>8 DEF SlotsOf
  <2>4. FdOf[c] # Free.fd
    BY <1>2, KqueueAssumption DEF Free
  <2>5. \A i \in Places : u[i].fd = FdOf[c] <=> t[i] = Free /\ u[i] # Free
    BY <1>3, <1>4, <2>3, <2>4 DEF Extends
  <2>6. SlotsOf(u, c) = TakenIn(t, u)
    BY <2>2, <2>5 DEF SlotsOf, TakenIn
  <2> QED
    BY <2>1, <2>6
<1> QED
  BY <1>1, <1>3, <1>5, <1>6, <1>7, <1>8 DEF t, kn, r

LEMMA AddChannelKeeps ==
  ASSUME Inv, NEW c \in Channels, AddChannel(c)
  PROVE  Inv'
<1> DEFINE O == Opened \cup {c}
           m == IF c \in Conns THEN {"read", "error"} ELSE {"read"}
           open == OpenFds \cup {FdOf[c]}
           io == Io
           r == AddFd(io, c, m, open)
<1>1. /\ Typed /\ Tracked /\ CleanNotes /\ Fronts /\ Counted /\ Spoils
      /\ life[c] = "none" /\ FdOf[c] \notin FdsOf(Opened)
      /\ life' = [life EXCEPT ![c] = "open"] /\ listed' = listed \cup {c}
      /\ mask' = [mask EXCEPT ![c] = m]
      /\ slots' = r.slots /\ knotes' = r.knotes
      /\ events' = events /\ uneven' = uneven
      /\ starved' = IF Cardinality(FreeSlots(slots)) < Cardinality(m) THEN starved \cup {c} ELSE starved
  <2>1. starved' = IF Cardinality(FreeSlots(slots)) < Cardinality(m) THEN starved \cup {c} ELSE starved
    BY DEF AddChannel, Starves, Io
  <2> HIDE DEF m
  <2> QED
    BY <2>1, OpenedFds DEF Inv, AddChannel, Becomes, pollVars, m
<1>2. m \in SUBSET Kinds
  BY DEF Kinds
<1>3. Opened' = O /\ c \notin Opened /\ Opened \subseteq O /\ O \subseteq Channels
  BY <1>1 DEF Typed, Opened
<1>4. Apart(O) /\ c \in O /\ open = FdsOf(O)
  BY <1>1, <1>3, OpenedFds DEF Typed, Apart, FdsOf
<1>5. /\ io.slots = slots /\ io.knotes = knotes
      /\ slots \in [Places -> Changes \cup {Free}] /\ knotes \in SUBSET NotesOf(Channels)
  BY <1>1 DEF Typed, Io
<1> HIDE DEF m, io, open
<1>6. /\ r.slots \in [Places -> Changes \cup {Free}]
      /\ Extends(c, slots, r.slots) /\ Touches(c, slots, r.slots)
      /\ r.knotes \subseteq NotesOf(Channels)
      /\ \A x \in r.knotes \ knotes : \E i \in Places :
           r.slots[i] \in AddsOf(Channels) /\ x = NoteOf(r.slots[i].udata, r.slots[i].kind)
      /\ \A i \in Places : Ahead(r.slots, O, i) => NoteOf(r.slots[i].udata, r.slots[i].kind) \in r.knotes
      /\ Cardinality(m) <= Cardinality(FreeSlots(slots)) /\ SlotsOf(slots, c) = {} =>
           Cardinality(SlotsOf(r.slots, c)) = Cardinality(m)
  <2> HIDE DEF O
  <2>1. io.slots \in [Places -> Changes \cup {Free}] /\ io.knotes \in SUBSET NotesOf(Channels)
    BY <1>5
  <2>2. /\ r.slots \in [Places -> Changes \cup {Free}]
        /\ Extends(c, io.slots, r.slots) /\ Touches(c, io.slots, r.slots)
        /\ r.knotes \subseteq NotesOf(Channels)
        /\ \A x \in r.knotes \ io.knotes : \E i \in Places :
             r.slots[i] \in AddsOf(Channels) /\ x = NoteOf(r.slots[i].udata, r.slots[i].kind)
        /\ \A i \in Places : Ahead(r.slots, O, i) => NoteOf(r.slots[i].udata, r.slots[i].kind) \in r.knotes
        /\ Cardinality(m) <= Cardinality(FreeSlots(io.slots)) /\ SlotsOf(io.slots, c) = {} =>
             Cardinality(SlotsOf(r.slots, c)) = Cardinality(m)
    BY <1>2, <1>4, <2>1, AddFdOf
  <2> HIDE DEF r
  <2> QED
    BY <1>5, <2>2
<1>7. c \notin starved' => Cardinality(m) <= Cardinality(FreeSlots(slots))
  <2>1. Cardinality(FreeSlots(slots)) \in Nat
    BY <1>5, RankOf
  <2>2. Cardinality(m) \in Nat
    BY <1>2, KindsListed
  <2> QED
    BY <1>1, <2>1, <2>2
<1>8. ASSUME spoilt = {}, starved' = {}
      PROVE  /\ r.slots \in [Places -> AddsOf(O) \cup {Free}]
             /\ knotes \subseteq r.knotes /\ \A k \in m : NoteOf(c, k) \in r.knotes
  <2>1. slots \in [Places -> AddsOf(O) \cup {Free}] /\ knotes \subseteq NotesOf(O)
    <3>1. AddsOf(Opened) \subseteq AddsOf(O) /\ NotesOf(Opened) \subseteq NotesOf(O)
      BY DEF AddsOf, NotesOf
    <3> QED
      BY <1>1, <1>8, <3>1, CleanTable
  <2>2. Cardinality(m) <= Cardinality(FreeSlots(slots))
    BY <1>7, <1>8
  <2> HIDE DEF O, r
  <2>3. /\ io.slots \in [Places -> AddsOf(O) \cup {Free}] /\ io.knotes \subseteq NotesOf(O)
        /\ Cardinality(m) <= Cardinality(FreeSlots(io.slots))
    BY <1>5, <2>1, <2>2
  <2> QED
    BY <1>2, <1>4, <1>5, <2>3, AddFdAdds DEF r
<1> HIDE DEF r
<1>9. Typed'
  <2>1. life' \in [Channels -> {"none", "open", "freed"}] /\ mask' \in [Channels -> SUBSET Kinds]
        /\ listed' \subseteq O
    BY <1>1, <1>2 DEF Typed
  <2>2. ASSUME NEW i \in Places, slots'[i] # Free PROVE life'[slots'[i].udata] # "none"
    <3>1. CASE slots'[i] = slots[i]
      BY <1>1, <2>2, <3>1 DEF Typed
    <3>2. CASE slots'[i] \in AddsOf({c})
      <4>1. slots'[i].udata = c
        BY <3>2 DEF AddsOf, AddOf
      <4> QED
        BY <1>1, <4>1 DEF Typed
    <3> QED
      BY <1>1, <1>6, <3>1, <3>2 DEF Extends
  <2>3. \A d \in Channels \ (listed' \cup uneven') : mask'[d] = {}
    BY <1>1 DEF Typed
  <2>4. /\ Places' = Places /\ Changes' = Changes /\ (NotesOf(Channels))' = NotesOf(Channels)
        /\ (Apart(Opened))' = Apart(O)
    BY <1>3 DEF Places, Changes, AddsOf, AddOf, DeleteOf, NotesOf, NoteOf, Apart
  <2>5. events' \subseteq NotesOf(Channels)
    BY <1>1 DEF Typed
  <2> QED
    BY <1>1, <1>3, <1>4, <1>6, <2>1, <2>2, <2>3, <2>4, <2>5 DEF Typed, Free
<1>10. /\ Tracked' /\ spoilt \subseteq spoilt' /\ CleanFds' \subseteq CleanFds
       /\ spoilt = {} /\ slots' \in [Places -> AddsOf(Opened') \cup {Free}] => spoilt' = {}
  BY <1>1, <1>9, SpoiltOf
<1>11. CleanNotes'
  <2>1. \A x \in knotes' \cup events' :
          \/ x \in knotes \cup events /\ (x.udata \in Opened => x.udata \in Opened')
          \/ \E i \in Places : /\ slots'[i] \in AddsOf(Channels)
                               /\ x = NoteOf(slots'[i].udata, slots'[i].kind)
    BY <1>1, <1>3, <1>6
  <2> QED
    BY <1>1, <1>9, <2>1, NotesKept
<1>12. Fronts'
  <2>1. \A i : (Ahead(slots, Opened, i))' = Ahead(r.slots, O, i)
    BY <1>1, <1>3 DEF Ahead, AddsOf, AddOf, Places
  <2> QED
    BY <1>1, <1>6, <2>1 DEF Fronts, Places, NoteOf
<1>13. Counted'
  <2>1. ASSUME NEW d \in O \ (starved' \cup uneven'), FdOf[d] \in CleanFds'
        PROVE  Cardinality(SlotsOf(r.slots, d)) = Cardinality(mask'[d])
    <3>1. CASE d # c
      <4>1. FdOf[d] # FdOf[c] /\ d \in Opened /\ d \in Channels /\ d \notin starved
        BY <1>1, <1>3, <1>4, <2>1, <3>1 DEF Apart
      <4>2. SlotsOf(r.slots, d) = SlotsOf(slots, d)
        BY <1>6, <4>1, TouchKeeps
      <4> QED
        BY <1>1, <1>10, <2>1, <3>1, <4>1, <4>2 DEF Counted, Typed
    <3>2. CASE d = c
      <4>1. SlotsOf(slots, c) = {}
        <5> SUFFICES ASSUME NEW i \in Places, slots[i].fd = FdOf[c] PROVE FALSE
          BY DEF SlotsOf
        <5>1. slots[i] # Free
          BY KqueueAssumption DEF Free
        <5>2. slots[i] \in Changes
          BY <1>5, <5>1
        <5>3. slots[i].fd = FdOf[slots[i].udata] /\ slots[i].udata \in Channels
          BY <5>2, ChangeOf
        <5>4. slots[i].udata \notin spoilt
          BY <1>10, <2>1, <3>2, <5>3 DEF CleanFds
        <5>5. slots[i] \in AddsOf(Opened)
          BY <1>1, <5>1, <5>4 DEF Tracked
        <5>6. slots[i].udata \in Opened
          BY <5>5 DEF AddsOf, AddOf
        <5> QED
          BY <1>1, <5>3, <5>6 DEF FdsOf
      <4>2. Cardinality(SlotsOf(r.slots, c)) = Cardinality(m)
        BY <1>6, <1>7, <2>1, <3>2, <4>1
      <4> QED
        BY <1>1, <3>2, <4>2 DEF Typed
    <3> QED
      BY <3>1, <3>2
  <2>2. \A d : SlotsOf(slots, d)' = SlotsOf(r.slots, d)
    BY <1>1 DEF SlotsOf, Places
  <2> QED
    BY <1>3, <2>1, <2>2 DEF Counted
<1>14. starved' = {} /\ spoilt' = {} => AllWatched'
  <2> SUFFICES ASSUME starved' = {}, spoilt' = {}, NEW d \in listed', NEW k \in mask'[d]
               PROVE  NoteOf(d, k) \in knotes'
    BY DEF AllWatched, NoteOf
  <2>1. spoilt = {} /\ starved = {}
    BY <1>1, <1>10
  <2>2. CASE d = c
    BY <1>1, <1>8, <2>1, <2>2 DEF Typed
  <2>3. CASE d # c
    <3>1. NoteOf(d, k) \in knotes
      BY <1>1, <2>1, <2>3 DEF Typed, Inv, AllWatched
    <3> QED
      BY <1>1, <1>8, <2>1, <3>1
  <2> QED
    BY <2>2, <2>3
<1>15. starved' = {} /\ uneven' = {} => spoilt' = {}
  <2> SUFFICES ASSUME starved' = {}, uneven' = {} PROVE spoilt' = {}
    OBVIOUS
  <2>1. spoilt = {}
    BY <1>1 DEF Inv
  <2> QED
    BY <1>1, <1>3, <1>8, <1>10, <2>1
<1> QED
  BY <1>9, <1>10, <1>11, <1>12, <1>13, <1>14, <1>15 DEF Inv

LEMMA MarkWriteKeeps ==
  ASSUME Inv, NEW c \in Channels, NEW marks \in BOOLEAN, MarkWrite(c, marks)
  PROVE  Inv'
<1> DEFINE m == IF marks THEN mask[c] \cup {"write"} ELSE mask[c] \ {"write"}
           io == RemoveFd(Io, c, Kinds)
           open == OpenFds
           r == AddFd(io, c, m, open)
<1>1. /\ Typed /\ Tracked /\ CleanNotes /\ Fronts /\ Counted /\ Spoils
      /\ c \in Opened /\ mask' = [mask EXCEPT ![c] = m]
      /\ slots' = r.slots /\ knotes' = r.knotes
      /\ listed' = listed /\ life' = life /\ events' = events /\ uneven' = uneven \cup {c}
      /\ starved' = IF Cardinality(FreeSlots(io.slots)) < Cardinality(m) THEN starved \cup {c} ELSE starved
  BY DEF Inv, MarkWrite, Becomes, Starves, pollVars, Opened
<1>2. Opened' = Opened /\ Opened \subseteq Channels /\ mask[c] \in SUBSET Kinds /\ Apart(Opened)
  BY <1>1 DEF Typed, Opened
<1>3. m \in SUBSET Kinds
  BY <1>2 DEF Kinds
<1>4. open = FdsOf(Opened)
  BY OpenedFds
<1>5. /\ Loses(c, io.slots) /\ io.knotes \subseteq knotes
      /\ \A x \in knotes \ io.knotes : x.fd = FdOf[c]
  BY <1>1, RemoveFdLoses
<1> HIDE DEF m, io, open
<1>6. io.slots \in [Places -> Changes \cup {Free}] /\ io.knotes \in SUBSET NotesOf(Channels)
  BY <1>1, <1>5 DEF Loses, Typed
<1>7. /\ r.slots \in [Places -> Changes \cup {Free}]
      /\ Extends(c, io.slots, r.slots) /\ Touches(c, io.slots, r.slots)
      /\ r.knotes \subseteq NotesOf(Channels)
      /\ \A x \in r.knotes \ io.knotes : \E i \in Places :
           r.slots[i] \in AddsOf(Channels) /\ x = NoteOf(r.slots[i].udata, r.slots[i].kind)
      /\ \A i \in Places : Ahead(r.slots, Opened, i) => NoteOf(r.slots[i].udata, r.slots[i].kind) \in r.knotes
  BY <1>1, <1>2, <1>3, <1>4, <1>6, AddFdOf
<1>8. Touches(c, slots, r.slots)
  <2>1. Touches(c, slots, io.slots)
    BY <1>5, LosesOf
  <2> HIDE DEF r
  <2> QED
    BY <1>7, <2>1 DEF Touches
<1>9. c \notin starved' => Cardinality(m) <= Cardinality(FreeSlots(io.slots))
  <2> DEFINE t == io.slots
  <2>1. t \in [Places -> Changes \cup {Free}]
    BY <1>6
  <2> HIDE DEF t
  <2>2. Cardinality(FreeSlots(t)) \in Nat
    BY <2>1, RankOf
  <2>3. Cardinality(m) \in Nat
    BY <1>3, KindsListed
  <2> QED
    BY <1>1, <2>2, <2>3 DEF t
<1>10. Typed'
  <2>1. mask' \in [Channels -> SUBSET Kinds] /\ listed' \subseteq Opened
    BY <1>1, <1>2, <1>3 DEF Typed
  <2>2. ASSUME NEW i \in Places, slots'[i] # Free PROVE life'[slots'[i].udata] # "none"
    <3>1. CASE slots'[i] = slots[i]
      BY <1>1, <2>2, <3>1 DEF Typed
    <3>2. CASE slots'[i].udata = c
      BY <1>1, <3>2 DEF Opened
    <3>3. slots'[i] = io.slots[i] \/ slots'[i].udata = c
      <4>1. \A s \in AddsOf({c}) : s.udata = c
        BY DEF AddsOf, AddOf
      <4> QED
        BY <1>1, <1>7, <4>1 DEF Extends
    <3>4. io.slots[i] = slots[i] \/ io.slots[i] = Free \/ io.slots[i].udata = c
      BY <1>5, LosesOf
    <3> HIDE DEF r
    <3> QED
      BY <2>2, <3>1, <3>2, <3>3, <3>4
  <2>3. \A d \in Channels \ (listed' \cup uneven') : mask'[d] = {}
    BY <1>1 DEF Typed
  <2>4. /\ Places' = Places /\ Changes' = Changes /\ (NotesOf(Channels))' = NotesOf(Channels)
        /\ (Apart(Opened))' = Apart(Opened)
    BY <1>2 DEF Places, Changes, AddsOf, AddOf, DeleteOf, NotesOf, NoteOf, Apart
  <2> HIDE DEF r
  <2> QED
    BY <1>1, <1>2, <1>7, <2>1, <2>2, <2>3, <2>4 DEF Typed, Free
<1>11. /\ Tracked' /\ spoilt \subseteq spoilt' /\ CleanFds' \subseteq CleanFds
       /\ \A i \in Places : slots'[i].flag = "delete" => slots'[i].udata \in spoilt'
  BY <1>1, <1>10, SpoiltOf
<1>12. CleanNotes'
  <2>1. \A x \in knotes' \cup events' :
          \/ x \in knotes \cup events /\ (x.udata \in Opened => x.udata \in Opened')
          \/ \E i \in Places : /\ slots'[i] \in AddsOf(Channels)
                               /\ x = NoteOf(slots'[i].udata, slots'[i].kind)
    <3> HIDE DEF r
    <3> QED
      BY <1>1, <1>2, <1>5, <1>7
  <2> QED
    BY <1>1, <1>10, <2>1, NotesKept
<1>13. Fronts'
  <2> HIDE DEF r
  <2>1. \A i : (Ahead(slots, Opened, i))' = Ahead(r.slots, Opened, i)
    BY <1>1, <1>2 DEF Ahead, AddsOf, AddOf, Places
  <2> QED
    BY <1>1, <1>7, <2>1 DEF Fronts, Places, NoteOf
<1>14. Counted'
  <2> HIDE DEF r
  <2>1. ASSUME NEW d \in Opened \ (starved' \cup uneven'), FdOf[d] \in CleanFds'
        PROVE  Cardinality(SlotsOf(r.slots, d)) = Cardinality(mask'[d])
    <3>1. FdOf[d] # FdOf[c] /\ d # c /\ d \in Channels /\ d \notin starved
      BY <1>1, <1>2, <2>1 DEF Apart
    <3>2. SlotsOf(r.slots, d) = SlotsOf(slots, d)
      BY <1>8, <3>1, TouchKeeps
    <3> QED
      BY <1>1, <1>11, <2>1, <3>1, <3>2 DEF Counted, Typed
  <2>2. \A d : SlotsOf(slots, d)' = SlotsOf(r.slots, d)
    BY <1>1 DEF SlotsOf, Places
  <2> QED
    BY <1>2, <2>1, <2>2 DEF Counted
<1>15. starved' = {} /\ spoilt' = {} => AllWatched'
  <2> SUFFICES ASSUME starved' = {}, spoilt' = {}, NEW d \in listed', NEW k \in mask'[d]
               PROVE  NoteOf(d, k) \in knotes'
    BY DEF AllWatched, NoteOf
  <2>1. spoilt = {} /\ starved = {} /\ Cardinality(m) <= Cardinality(FreeSlots(io.slots))
    BY <1>1, <1>9, <1>11
  <2>2. slots \in [Places -> AddsOf(Opened) \cup {Free}] /\ knotes \subseteq NotesOf(Opened)
    BY <1>1, <2>1, CleanTable
  <2>3. ASSUME NEW i \in Places PROVE io.slots[i] \in AddsOf(Opened) \cup {Free}
    <3> SUFFICES ASSUME NEW j \in Kinds, io.slots[i] = DeleteOf(c, j) PROVE FALSE
      BY <1>5, <2>2 DEF Loses
    <3>1. io.slots[i].flag = "delete" /\ io.slots[i] # Free
      BY DEF DeleteOf, Free
    <3>2. slots'[i] = io.slots[i]
      BY <1>1, <1>7, <3>1 DEF Extends
    <3> QED
      BY <1>11, <2>1, <3>1, <3>2
  <2>4. /\ io.slots \in [Places -> AddsOf(Opened) \cup {Free}] /\ io.knotes \subseteq NotesOf(Opened)
    BY <1>5, <1>6, <2>2, <2>3
  <2>5. io.knotes \subseteq r.knotes /\ \A j \in m : NoteOf(c, j) \in r.knotes
    BY <1>1, <1>2, <1>3, <1>4, <2>1, <2>4, AddFdAdds
  <2> HIDE DEF r
  <2>6. CASE d = c
    BY <1>1, <1>2, <2>5, <2>6 DEF Typed
  <2>7. CASE d # c
    <3>1. NoteOf(d, k) \in knotes
      BY <1>1, <2>1, <2>7 DEF Typed, Inv, AllWatched
    <3>2. NoteOf(d, k).fd # FdOf[c]
      BY <1>1, <1>2, <2>7 DEF Typed, Apart, NoteOf
    <3> QED
      BY <1>1, <1>5, <2>5, <3>1, <3>2
  <2> QED
    BY <2>6, <2>7
<1> QED
  BY <1>1, <1>10, <1>11, <1>12, <1>13, <1>14, <1>15 DEF Inv

\* What neither the table nor the channels see of a poll.
LEMMA PollKeeps ==
  ASSUME Inv, UNCHANGED <<slots, knotes, chanVars, histories>>, events' \subseteq knotes \cup events
  PROVE  Inv'
<1>1. /\ slots' = slots /\ knotes' = knotes /\ life' = life /\ mask' = mask /\ listed' = listed
      /\ uneven' = uneven /\ starved' = starved /\ spoilt' = spoilt
  BY DEF chanVars, histories
<1>2. /\ Opened' = Opened /\ CleanFds' = CleanFds /\ Places' = Places /\ Changes' = Changes
      /\ (NotesOf(Channels))' = NotesOf(Channels) /\ (Apart(Opened))' = Apart(Opened)
      /\ (AddsOf(Opened))' = AddsOf(Opened)
  BY <1>1 DEF Opened, CleanFds, Fds, Places, Changes, AddsOf, AddOf, DeleteOf, NotesOf, NoteOf, Apart
<1>3. Typed'
  BY <1>1, <1>2 DEF Inv, Typed, Free
<1>4. Tracked' /\ CleanNotes'
  BY <1>1, <1>2 DEF Inv, Tracked, CleanNotes, Free
<1>5. Fronts'
  BY <1>1, <1>2 DEF Inv, Fronts, Ahead, NoteOf
<1>6. Counted' /\ (starved' = {} /\ spoilt' = {} => AllWatched')
  BY <1>1, <1>2 DEF Inv, Counted, SlotsOf, AllWatched, NoteOf
<1> QED
  BY <1>1, <1>3, <1>4, <1>5, <1>6 DEF Inv

LEMMA InitHolds == Init => Inv
<1> SUFFICES ASSUME Init PROVE Inv
  OBVIOUS
<1>1. /\ slots = [i \in Places |-> Free] /\ knotes = {} /\ listed = {} /\ events = {}
      /\ life = [c \in Channels |-> "none"] /\ mask = [c \in Channels |-> {}]
      /\ spoilt = {}
  BY DEF Init, Places
<1>2. Opened = {}
  BY <1>1 DEF Opened
<1>3. Typed /\ Tracked /\ CleanNotes /\ Counted /\ AllWatched
  BY <1>1, <1>2 DEF Typed, Tracked, CleanNotes, Counted, AllWatched, Apart
<1>4. Fronts
  <2> SUFFICES ASSUME NEW i \in Places, Ahead(slots, {}, i) PROVE FALSE
    BY <1>2 DEF Fronts
  <2>1. i <= i
    BY KqueueAssumption DEF Places
  <2> QED
    BY <2>1 DEF Ahead, AddsOf
<1> QED
  BY <1>1, <1>3, <1>4 DEF Inv

LEMMA Inductive == Inv /\ [Next]_vars => Inv'
<1> SUFFICES ASSUME Inv, [Next]_vars PROVE Inv'
  OBVIOUS
<1>1. CASE UNCHANGED vars
  BY <1>1, PollKeeps DEF vars, pollVars
<1>2. ASSUME NEW c \in Channels, AddChannel(c) PROVE Inv'
  BY <1>2, AddChannelKeeps
<1>3. ASSUME NEW c \in Channels, RemoveChannel(c) PROVE Inv'
  BY <1>3, RemoveChannelKeeps
<1>4. ASSUME NEW c \in Channels, FreeChannel(c) PROVE Inv'
  BY <1>4, FreeChannelKeeps
<1>5. ASSUME NEW c \in Channels, NEW m \in Masks, RemoveEvents(c, m) PROVE Inv'
  BY <1>5, RemoveEventsKeeps, KqueueAssumption
<1>6. ASSUME NEW c \in Channels, NEW marks \in BOOLEAN, MarkWrite(c, marks) PROVE Inv'
  BY <1>6, MarkWriteKeeps
<1>7. CASE Poll
  BY <1>7, PollKeeps DEF Poll
<1>8. ASSUME NEW e \in events, Deliver(e) PROVE Inv'
  BY <1>8, PollKeeps DEF Deliver
<1>9. CASE CallbackReturns
  BY <1>9, PollKeeps DEF CallbackReturns
<1> QED
  BY <1>1, <1>2, <1>3, <1>4, <1>5, <1>6, <1>7, <1>8, <1>9 DEF Next

LEMMA InvHolds == Spec => []Inv
<1>1. Init => Inv
  BY InitHolds
<1>2. Inv /\ [Next]_vars => Inv'
  BY Inductive
<1> QED
  BY <1>1, <1>2, PTL DEF Spec
-------------------------------------------------------------------------------
(* The properties of Kqueue, for channels removed in any of the ways the code  *)
(* has, tcp_connect_delete with its read and error events included.            *)

\* What stands in the table before any slot that is free or was left behind, and
\* has no slot left for its descriptor, stays watched, and its own channel is told:
\* so the listening channel of the example server, which is added first, whatever
\* its connections leave behind and even when they find the table full.
THEOREM FrontStaysWatched == Spec => []FrontIsWatched
<1>1. Inv => FrontIsWatched
  <2> SUFFICES ASSUME Inv, NEW i \in Places, InFront(i) PROVE Watched(slots[i].udata, slots[i].kind)
    BY DEF FrontIsWatched, Places
  <2>1. ASSUME NEW j \in Places, Owned(slots[j]) PROVE slots[j] \in AddsOf(Opened)
    <3>1. slots[j].flag = "add" /\ life[slots[j].udata] = "open"
      BY <2>1 DEF Owned
    <3>2. slots[j] \in Changes
      BY <3>1 DEF Inv, Typed, Free
    <3>3. slots[j].udata \in Opened /\ Opened \subseteq Channels
      BY <3>1, <3>2, ChangeOf DEF Opened
    <3> QED
      BY <3>1, <3>2, <3>3, ChangeOf
  <2>2. Ahead(slots, Opened, i)
    BY <2>1 DEF InFront, Ahead, Places
  <2> QED
    BY <2>2 DEF Inv, Fronts, Watched, NoteOf
<1>2. Spec => []Inv
  BY InvHolds
<1> QED
  BY <1>1, <1>2, PTL

\* Until a channel leaves a slot behind or finds the table full, the kernel watches
\* every event that a listed channel asks for, and tells that channel: the additions
\* of event_io_add_fd are all taken, although each of them submits the whole table
\* again.
THEOREM AskedStaysWatched == Spec => []AskedIsWatched
<1>1. Inv => AskedIsWatched
  BY DEF Inv, AllWatched, AskedIsWatched, Watched, NoteOf
<1>2. Spec => []Inv
  BY InvHolds
<1> QED
  BY <1>1, <1>2, PTL

\* With room in the table, nothing is left behind by channels that are removed one
\* event at a time and never marked for writing, and as long as nothing was left of
\* its descriptor, a channel treated so has as many slots as events it asks for,
\* whatever was done with the others.
THEOREM SlotsStayThoseOfMasks == Spec => []SlotsMatchMasks
<1>1. Inv => SlotsMatchMasks
  BY DEF Inv, Counted, SlotsMatchMasks, SlotsOf, Places, Opened
<1>2. Spec => []Inv
  BY InvHolds
<1> QED
  BY <1>1, <1>2, PTL

\* The channel that event_io_poll finds in an event is open and has the event's
\* descriptor, however often the descriptor was closed and used again, unless a
\* channel that had it left a slot behind, as tcp_connect_delete does.
THEOREM EventsStayWithOwners == Spec => []EventsReachOwners
<1>1. Inv => EventsReachOwners
  <2> SUFFICES ASSUME Inv, NEW e \in events, e.fd \in CleanFds
               PROVE  life[e.udata] = "open" /\ FdOf[e.udata] = e.fd
    BY DEF EventsReachOwners
  <2>1. e \in NotesOf(Channels) /\ e.udata \in Opened
    BY DEF Inv, Typed, CleanNotes
  <2> QED
    BY <2>1, ChangeOf DEF Opened
<1>2. Spec => []Inv
  BY InvHolds
<1> QED
  BY <1>1, <1>2, PTL
===============================================================================
