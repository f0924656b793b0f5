--------------------------- MODULE ChannelPollProof ---------------------------
(***************************************************************************)
(* Theorems about ChannelPoll, for any number of channels, descriptors and *)
(* application threads.                                                    *)
(***************************************************************************)
EXTENDS ChannelPoll, SequenceTheorems, WellFoundedInduction, TLAPS

\* No channel is twice in a list; and which channel comes first.
Distinct(s) == \A i, j \in DOMAIN s : s[i] = s[j] => i = j

NotBefore(s, x, y) == \E i, j \in DOMAIN s : i <= j /\ s[i] = x /\ s[j] = y

\* The records of a thread's call.
Removals == [op : {"remove_fd"}, c : Channels, at : {"remove"}, old : SUBSET Kinds]
Markings == [op : {"mark", "unmark"}, c : Channels, old : SUBSET Kinds,
             at : {"store", "proc", "origin", "lock", "clear", "restore", "add"}]
CallRecords == {NoCall} \cup Removals \cup Markings

\* The stages of a call that are inside fd_mtx.
InMutex == {"remove", "clear", "restore", "add"}

-------------------------------------------------------------------------------
(* Lemmas about numbers and sequences. *)

\* A set of naturals that is not empty has a least element.
LEMMA LeastOf ==
  ASSUME NEW S \in SUBSET Nat, S # {}
  PROVE  Min(S) \in S /\ \A x \in S : Min(S) <= x
<1> DEFINE R == {ss \in Nat \X Nat : ss[1] < ss[2]}
<1>1. IsWellFoundedOn(R, Nat)
  BY NatLessThanWellFounded DEF OpToRel
<1> HIDE DEF R
<1>2. PICK m \in S : \A x \in S : <<x, m>> \notin R
  BY <1>1, WFMin
<1>3. ASSUME NEW x \in S PROVE m <= x
  <2>1. x \in Nat /\ m \in Nat /\ (x < m => <<x, m>> \in R)
    BY DEF R
  <2> QED
    BY <1>2, <2>1
<1> QED
  BY <1>3 DEF Min

\* What RemoveAt leaves at every place.
LEMMA RemoveAtSeq ==
  ASSUME NEW S, NEW s \in Seq(S), NEW k \in 1..Len(s)
  PROVE  /\ RemoveAt(s, k) \in Seq(S)
         /\ Len(RemoveAt(s, k)) = Len(s) - 1
         /\ \A j \in 1..(Len(s) - 1) :
              RemoveAt(s, k)[j] = IF j < k THEN s[j] ELSE s[j + 1]
<1> DEFINE a == SubSeq(s, 1, k - 1)
           b == SubSeq(s, k + 1, Len(s))
<1>1. /\ a \in Seq(S) /\ Len(a) = k - 1
      /\ \A j \in 1..(k - 1) : a[j] = s[j]
  OBVIOUS
<1>2. /\ b \in Seq(S) /\ Len(b) = Len(s) - k
      /\ \A j \in 1..(Len(s) - k) : b[j] = s[k + j]
  OBVIOUS
<1>3. RemoveAt(s, k) = a \o b
  BY DEF RemoveAt
<1>4. Len(s) \in Nat /\ k \in Nat
  OBVIOUS
<1> HIDE DEF a, b
<1>5. /\ a \o b \in Seq(S) /\ Len(a \o b) = Len(a) + Len(b)
      /\ \A j \in 1..(Len(a) + Len(b)) :
           (a \o b)[j] = IF j <= Len(a) THEN a[j] ELSE b[j - Len(a)]
  BY <1>1, <1>2, ConcatProperties
<1>6. Len(a) + Len(b) = Len(s) - 1
  BY <1>1, <1>2, <1>4
<1>7. ASSUME NEW j \in 1..(Len(s) - 1)
      PROVE  (a \o b)[j] = IF j < k THEN s[j] ELSE s[j + 1]
  <2>1. CASE j < k
    BY <2>1, <1>1, <1>4, <1>5, <1>6
  <2>2. CASE j >= k
    <3> DEFINE i == j - (k - 1)
    <3>1. i \in 1..(Len(s) - k) /\ k + i = j + 1 /\ ~(j <= k - 1)
      BY <2>2, <1>4
    <3>2. (a \o b)[j] = b[i]
      BY <3>1, <1>1, <1>4, <1>5, <1>6
    <3> HIDE DEF i
    <3>3. b[i] = s[k + i]
      BY <3>1, <1>2
    <3> QED
      BY <2>2, <3>1, <3>2, <3>3, <1>4
  <2>3. j < k \/ j >= k
    BY <1>4
  <2> QED
    BY <2>1, <2>2, <2>3
<1> QED
  BY <1>3, <1>5, <1>6, <1>7

\* One of finitely many integers is the greatest.
LEMMA GreatestValue ==
  ASSUME NEW n \in Nat \ {0}, NEW f, \A i \in 1..n : f[i] \in Int
  PROVE  \E m \in 1..n : \A i \in 1..n : f[i] <= f[m]
<1> DEFINE P(j) == \E m \in 1..j : \A i \in 1..j : f[i] <= f[m]
           Bad == {j \in 1..n : ~P(j)}
<1>1. SUFFICES ASSUME Bad # {} PROVE FALSE
  <2>1. n \in 1..n
    OBVIOUS
  <2> QED
    BY <2>1
<1> DEFINE b == Min(Bad)
<1>2. b \in 1..n /\ ~P(b) /\ \A j \in Bad : b <= j
  <2>1. Bad \in SUBSET Nat
    OBVIOUS
  <2> HIDE DEF Bad
  <2>2. b \in Bad /\ \A j \in Bad : b <= j
    BY <1>1, <2>1, LeastOf
  <2> QED
    BY <2>2 DEF Bad
<1> HIDE DEF b
<1>3. P(1)
  <2>1. 1 \in 1..1 /\ 1 \in 1..n /\ \A i \in 1..1 : i = 1
    OBVIOUS
  <2> QED
    BY <2>1
<1>4. b - 1 \in 1..n /\ P(b - 1)
  <2>1. b # 1
    BY <1>2, <1>3
  <2>2. b - 1 \in 1..n /\ ~(b <= b - 1)
    BY <1>2, <2>1
  <2> QED
    BY <1>2, <2>2
<1>5. PICK m \in 1..(b - 1) : \A i \in 1..(b - 1) : f[i] <= f[m]
  BY <1>4
<1>6. /\ m \in 1..b /\ m \in 1..n /\ b \in 1..b
      /\ \A i \in 1..b : i \in 1..n /\ (i \in 1..(b - 1) \/ i = b)
  BY <1>2
<1>7. CASE f[b] <= f[m]
  BY <1>2, <1>5, <1>6, <1>7
<1>8. CASE ~(f[b] <= f[m])
  <2>1. \A i \in 1..b : f[i] <= f[b]
    BY <1>2, <1>5, <1>6, <1>8
  <2> QED
    BY <1>2, <1>6, <2>1
<1> QED
  BY <1>7, <1>8

-------------------------------------------------------------------------------
(* The inductive invariant, whatever the constants. *)

Types == TypeOK /\ call \in [Actors -> CallRecords]

\* A channel that is listed is open, and an open one has its descriptor alone.
Lists ==
  /\ Distinct(ec_map)
  /\ \A c \in Channels : Listed(c) => life[c] = "open"
  /\ \A c, d \in Channels : life[c] = "open" /\ life[d] = "open" /\ FdOf[c] = FdOf[d] => c = d

\* Who is inside fd_mtx, and what is owed to the thread inside it.
Locks ==
  /\ InPass => fd_mtx = L
  /\ call[L] # NoCall => pc \in {"idle", "callback"}
  /\ \A a \in Actors : call[a].at \in InMutex => fd_mtx = a
  /\ \A a \in Actors : call[a].at = "remove" =>
       Listed(call[a].c) /\ (call[a].old = {} /\ InPass => call[a].c # next)

\* The pass holds on to listed channels.
Walk ==
  /\ pc = "visit" => Listed(cur)
  /\ pc \in {"check", "callback"} => cur \in Channels /\ (next # None => Listed(next))

\* The kinds of event the pass has still to look at for cur.
KindsAhead == IF pc = "check" THEN {kind} \cup LaterKinds(kind) ELSE LaterKinds(kind)

\* Every event that is due is of a listed channel with a callback for it, and
\* ahead of the pass.
Dues ==
  /\ \A d \in due : Listed(d[1]) /\ Reported(d[1], d[2]) /\ d[2] \in procs[d[1]]
  /\ pc = "idle" => due = {}
  /\ pc = "visit" => \A d \in due : NotBefore(ec_map, cur, d[1])
  /\ pc \in {"check", "callback"} => \A d \in due :
       (d[1] = cur /\ d[2] \in KindsAhead) \/ (next # None /\ NotBefore(ec_map, next, d[1]))

Inv == Types /\ Lists /\ Locks /\ Walk /\ Dues

\* What holds when no callback deletes its channel with events left.
Alive ==
  pc \in {"check", "callback"} =>
    life[cur] = "open" \/ \A k \in KindsAhead : ~Reported(cur, k)

-------------------------------------------------------------------------------
(* The inductive invariant when only L marks channels and calls              *)
(* event_loop_remove_fd.                                                     *)

OnlyL ==
  /\ \A a \in Apps : call[a] = NoCall
  /\ call[L] # NoCall => Listed(call[L].c)

\* The bits of a channel that no call works on are those of its mask; those of
\* the channel of a call are what the stages before made them.
Bits ==
  /\ \A c \in Channels, k \in Kinds :
       Listed(c) /\ c # call[L].c => (FdOf[c] \in fds[k] <=> k \in mask[c])
  /\ call[L].at = "remove" =>
       /\ call[L].old \cap mask[call[L].c] = {}
       /\ \A k \in Kinds \ mask[call[L].c] : FdOf[call[L].c] \in fds[k] <=> k \in call[L].old
  /\ call[L].at = "clear" => mask[call[L].c] = Kinds
  /\ call[L].at \in {"restore", "add"} => \A k \in Kinds : FdOf[call[L].c] \notin fds[k]
  /\ \A k \in Kinds : \A f \in fds[k] : \E c \in Range(ec_map) : FdOf[c] = f

\* What a call of mark or unmark has brought about so far.
Marked ==
  LET r == call[L]
      want == r.op = "mark"
  IN  /\ r.at \in {"proc", "origin", "add"} => ("write" \in mask[r.c] <=> want)
      /\ r.at \in {"origin", "lock", "clear", "restore", "add"} => ("write" \in procs[r.c] <=> want)
      /\ r.at \in {"lock", "clear", "restore"} => ("write" \in r.old <=> want)

-------------------------------------------------------------------------------
(* Lists of channels. *)

LEMMA InRange ==
  ASSUME NEW s \in Seq(Channels)
  PROVE  /\ DOMAIN s = 1..Len(s) /\ Len(s) \in Nat
         /\ \A c : c \in Range(s) <=> \E n \in 1..Len(s) : s[n] = c
         /\ Range(s) \subseteq Channels
BY DEF Range

\* A channel that is not listed is added.
LEMMA Added ==
  ASSUME NEW s \in Seq(Channels), Distinct(s), NEW c \in Channels, c \notin Range(s)
  PROVE  /\ Append(s, c) \in Seq(Channels) /\ Distinct(Append(s, c))
         /\ Range(Append(s, c)) = Range(s) \cup {c}
         /\ \A x, y : NotBefore(s, x, y) => NotBefore(Append(s, c), x, y)
<1> DEFINE t == Append(s, c)
<1>1. /\ t \in Seq(Channels) /\ Len(t) = Len(s) + 1 /\ t[Len(s) + 1] = c
      /\ \A n \in 1..Len(s) : t[n] = s[n]
  OBVIOUS
<1>2. Len(s) \in Nat /\ DOMAIN s = 1..Len(s) /\ DOMAIN t = 1..(Len(s) + 1)
  BY <1>1, InRange
<1> HIDE DEF t
<1>3. \A n \in 1..(Len(s) + 1) : n \in 1..Len(s) \/ n = Len(s) + 1
  BY <1>2
<1>4. \A n \in 1..Len(s) : s[n] # c
  BY InRange
<1>5. Distinct(t)
  BY <1>1, <1>2, <1>3, <1>4 DEF Distinct
<1>6. Range(t) = Range(s) \cup {c}
  <2>1. ASSUME NEW d PROVE d \in Range(t) <=> d \in Range(s) \cup {c}
    <3>1. d \in Range(t) <=> \E n \in 1..(Len(s) + 1) : t[n] = d
      BY <1>1, InRange
    <3>2. d \in Range(s) <=> \E n \in 1..Len(s) : s[n] = d
      BY InRange
    <3>3. \A n \in 1..Len(s) : n \in 1..(Len(s) + 1)
      BY <1>2
    <3>4. Len(s) + 1 \in 1..(Len(s) + 1)
      BY <1>2
    <3> QED
      BY <1>1, <1>3, <3>1, <3>2, <3>3, <3>4, Zenon
  <2> QED
    BY <2>1
<1>7. \A x, y : NotBefore(s, x, y) => NotBefore(t, x, y)
  BY <1>1, <1>2 DEF NotBefore
<1> QED
  BY <1>1, <1>5, <1>6, <1>7 DEF t

\* The n-th channel is removed.
LEMMA Removed ==
  ASSUME NEW s \in Seq(Channels), Distinct(s), NEW n \in 1..Len(s)
  PROVE  /\ RemoveAt(s, n) \in Seq(Channels) /\ Distinct(RemoveAt(s, n))
         /\ Range(RemoveAt(s, n)) = Range(s) \ {s[n]}
         /\ \A x, y : NotBefore(s, x, y) /\ s[n] \notin {x, y} => NotBefore(RemoveAt(s, n), x, y)
<1> DEFINE t == RemoveAt(s, n)
           Old(j) == IF j < n THEN j ELSE j + 1
           New(i) == IF i < n THEN i ELSE i - 1
<1>1. /\ t \in Seq(Channels) /\ Len(t) = Len(s) - 1
      /\ \A j \in 1..(Len(s) - 1) : t[j] = s[Old(j)]
  <2>1. \A j \in 1..(Len(s) - 1) : t[j] = IF j < n THEN s[j] ELSE s[j + 1]
    BY RemoveAtSeq
  <2> QED
    BY <2>1, RemoveAtSeq
<1>2. Len(s) \in Nat /\ DOMAIN s = 1..Len(s) /\ DOMAIN t = 1..(Len(s) - 1) /\ n \in Int
  BY <1>1, InRange
<1> HIDE DEF t
<1>3. \A j \in 1..(Len(s) - 1) : Old(j) \in 1..Len(s) /\ Old(j) # n
  BY <1>2
<1>4. \A i \in 1..Len(s) : i # n => New(i) \in 1..(Len(s) - 1) /\ Old(New(i)) = i
  BY <1>2
<1>5. \A i, j \in 1..(Len(s) - 1) : Old(i) = Old(j) => i = j
  BY <1>2
<1>6. \A i, j \in 1..Len(s) : i <= j /\ i # n /\ j # n => New(i) <= New(j)
  BY <1>2
<1> HIDE DEF Old, New
<1>7. \A i \in 1..Len(s) : i # n => t[New(i)] = s[i]
  BY <1>1, <1>4
<1>8. Distinct(t)
  BY <1>1, <1>2, <1>3, <1>5 DEF Distinct
<1>9. Range(t) = Range(s) \ {s[n]}
  <2>1. ASSUME NEW d PROVE d \in Range(t) <=> d \in Range(s) \ {s[n]}
    <3>1. d \in Range(t) <=> \E j \in 1..(Len(s) - 1) : t[j] = d
      BY <1>1, InRange
    <3>2. d \in Range(s) <=> \E i \in 1..Len(s) : s[i] = d
      BY InRange
    <3>3. ASSUME NEW j \in 1..(Len(s) - 1), t[j] = d PROVE d \in Range(s) /\ d # s[n]
      <4>1. Old(j) \in 1..Len(s) /\ Old(j) # n /\ s[Old(j)] = d
        BY <1>1, <1>3, <3>3
      <4>2. s[Old(j)] # s[n]
        BY <4>1, <1>2 DEF Distinct
      <4> QED
        BY <4>1, <4>2, <3>2
    <3>4. ASSUME NEW i \in 1..Len(s), s[i] = d, d # s[n] PROVE d \in Range(t)
      BY <1>4, <1>7, <3>1, <3>4
    <3> QED
      BY <3>1, <3>2, <3>3, <3>4
  <2> QED
    BY <2>1
<1>10. ASSUME NEW x, NEW y, NotBefore(s, x, y), s[n] \notin {x, y}
       PROVE  NotBefore(t, x, y)
  <2>1. PICK i \in 1..Len(s), j \in 1..Len(s) : i <= j /\ s[i] = x /\ s[j] = y
    BY <1>2, <1>10 DEF NotBefore
  <2>2. i # n /\ j # n
    BY <2>1, <1>10
  <2>3. /\ New(i) \in DOMAIN t /\ New(j) \in DOMAIN t /\ New(i) <= New(j)
        /\ t[New(i)] = x /\ t[New(j)] = y
    BY <2>1, <2>2, <1>2, <1>4, <1>6, <1>7
  <2> QED
    BY <2>3 DEF NotBefore
<1> QED
  BY <1>1, <1>8, <1>9, <1>10 DEF t

\* event_channel_map_remove removes the channel that has the descriptor.
LEMMA RemovedByFd ==
  ASSUME Types, Lists, NEW c \in Channels, Listed(c)
  PROVE  /\ MapRemove(FdOf[c]) \in Seq(Channels) /\ Distinct(MapRemove(FdOf[c]))
         /\ Range(MapRemove(FdOf[c])) = Range(ec_map) \ {c}
         /\ \A x, y : NotBefore(ec_map, x, y) /\ c \notin {x, y} =>
              NotBefore(MapRemove(FdOf[c]), x, y)
<1> DEFINE Found == {i \in 1..Len(ec_map) : FdOf[ec_map[i]] = FdOf[c]}
           n == Min(Found)
<1>1. ec_map \in Seq(Channels) /\ Len(ec_map) \in Nat
  BY DEF Types, TypeOK
<1>2. PICK m \in 1..Len(ec_map) : ec_map[m] = c
  BY <1>1, InRange DEF Listed
<1>3. Found # {} /\ Found \in SUBSET Nat
  BY <1>1, <1>2
<1>4. n \in Found
  <2> HIDE DEF Found
  <2> QED
    BY <1>3, LeastOf
<1>5. n \in 1..Len(ec_map) /\ n # 0 /\ ec_map[n] = c
  <2>1. n \in 1..Len(ec_map) /\ FdOf[ec_map[n]] = FdOf[c]
    BY <1>4
  <2> HIDE DEF n
  <2>2. ec_map[n] \in Channels /\ Listed(ec_map[n])
    BY <2>1, <1>1, InRange DEF Listed
  <2>3. n # 0
    BY <2>1, <1>1
  <2> QED
    BY <2>1, <2>2, <2>3 DEF Lists
<1>6. ec_map # <<>>
  BY <1>1, <1>2
<1>7. MapRemove(FdOf[c]) = RemoveAt(ec_map, n)
  <2>1. SelectInSeq(ec_map, LAMBDA d : FdOf[d] = FdOf[c]) = n
    BY <1>3 DEF SelectInSeq
  <2> QED
    BY <2>1, <1>5, <1>6 DEF MapRemove
<1> HIDE DEF n
<1>8. Distinct(ec_map)
  BY DEF Lists
<1> QED
  BY <1>1, <1>5, <1>7, <1>8, Removed

\* event_channel_map_get_max_fd covers every channel of the list.
LEMMA MaxFdIs ==
  ASSUME NEW s \in Seq(Channels)
  PROVE  /\ MaxFd(s) \in Fds \cup {-1}
         /\ \A c \in Range(s) : FdOf[c] <= MaxFd(s)
<1> DEFINE S == {-1} \cup {FdOf[c] : c \in Range(s)}
<1>1. \A c \in Range(s) : c \in Channels /\ FdOf[c] \in Nat
  BY InRange, ChannelPollAssumption
<1>2. S \subseteq Fds \cup {-1}
  BY <1>1 DEF Fds
<1>3. \E m \in S : \A f \in S : m >= f
  <2>1. CASE s = <<>>
    <3>1. Range(s) = {}
      BY <2>1 DEF Range
    <3> QED
      BY <3>1
  <2>2. CASE s # <<>>
    <3> DEFINE f == [i \in 1..Len(s) |-> FdOf[s[i]]]
    <3>1. Len(s) \in Nat \ {0}
      BY <2>2
    <3>2. \A i \in 1..Len(s) : s[i] \in Range(s) /\ f[i] = FdOf[s[i]] /\ f[i] \in Nat
      BY <1>1, InRange
    <3> HIDE DEF f
    <3>3. PICK m \in 1..Len(s) : \A i \in 1..Len(s) : f[i] <= f[m]
      <4>1. \A i \in 1..Len(s) : f[i] \in Int
        BY <3>2
      <4> QED
        BY <3>1, <4>1, GreatestValue, Zenon
    <3>4. f[m] \in S /\ f[m] \in Nat
      BY <3>2
    <3>5. ASSUME NEW c \in Range(s) PROVE FdOf[c] <= f[m]
      BY <3>2, <3>3, InRange
    <3>6. ASSUME NEW g \in S PROVE f[m] >= g
      <4>1. g \in Int /\ (g = -1 \/ g <= f[m])
        BY <1>1, <3>5
      <4> QED
        BY <4>1, <3>4
    <3> QED
      BY <3>4, <3>6
  <2> QED
    BY <2>1, <2>2
<1>4. MaxFd(s) \in S /\ \A f \in S : MaxFd(s) >= f
  <2>1. MaxFd(s) = CHOOSE m \in S : \A f \in S : m >= f
    BY DEF MaxFd, Max
  <2> QED
    BY <1>3, <2>1
<1>5. \A c \in Range(s) : FdOf[c] \in S
  OBVIOUS
<1>6. \A x \in S : x \in Int
  BY <1>1
<1> QED
  BY <1>2, <1>4, <1>5, <1>6

\* event_channel_map_get_next: what is not before c is c, or not before the next.
LEMMA FollowingIs ==
  ASSUME Types, Lists, NEW c \in Channels, Listed(c)
  PROVE  /\ Following(c) \in Channels \cup {None}
         /\ Following(c) # None => Listed(Following(c))
         /\ \A y : NotBefore(ec_map, c, y) =>
              y = c \/ (Following(c) # None /\ NotBefore(ec_map, Following(c), y))
<1> DEFINE n == At(c)
<1>1. ec_map \in Seq(Channels) /\ Len(ec_map) \in Nat /\ DOMAIN ec_map = 1..Len(ec_map)
  BY InRange DEF Types, TypeOK
<1>2. n \in 1..Len(ec_map) /\ ec_map[n] = c
  <2>1. \E m \in DOMAIN ec_map : ec_map[m] = c
    BY DEF Listed, Range
  <2> QED
    BY <2>1, <1>1 DEF At
<1>3. Following(c) = IF n < Len(ec_map) THEN ec_map[n + 1] ELSE None
  BY DEF Following
<1> HIDE DEF n
<1>4. n < Len(ec_map) =>
        n + 1 \in 1..Len(ec_map) /\ ec_map[n + 1] \in Channels /\ Listed(ec_map[n + 1])
  BY <1>1, <1>2, InRange DEF Listed
<1>5. None \notin Channels
  BY ChannelPollAssumption
<1>6. ASSUME NEW y, NotBefore(ec_map, c, y), y # c
      PROVE  n < Len(ec_map) /\ NotBefore(ec_map, ec_map[n + 1], y)
  <2>1. PICK i \in 1..Len(ec_map), j \in 1..Len(ec_map) : i <= j /\ ec_map[i] = c /\ ec_map[j] = y
    BY <1>1, <1>6 DEF NotBefore
  <2>2. i = n /\ i # j
    BY <2>1, <1>1, <1>2, <1>6 DEF Lists, Distinct
  <2>3. n < Len(ec_map) /\ n + 1 <= j /\ n + 1 \in 1..Len(ec_map)
    BY <2>1, <2>2, <1>1
  <2> QED
    BY <2>1, <2>3, <1>1 DEF NotBefore
<1> QED
  BY <1>3, <1>4, <1>5, <1>6

\* Nothing is before the first channel of the list.
LEMMA HeadIs ==
  ASSUME NEW s \in Seq(Channels), s # <<>>
  PROVE  /\ Head(s) \in Range(s) /\ Head(s) \in Channels
         /\ \A y \in Range(s) : NotBefore(s, Head(s), y)
<1>1. 1 \in 1..Len(s) /\ Head(s) = s[1] /\ DOMAIN s = 1..Len(s) /\ Len(s) \in Nat
  BY InRange
<1>2. \A j \in 1..Len(s) : 1 <= j
  BY <1>1
<1>3. ASSUME NEW y \in Range(s) PROVE NotBefore(s, Head(s), y)
  <2>1. PICK j \in 1..Len(s) : s[j] = y
    BY InRange
  <2> QED
    BY <1>1, <1>2, <2>1 DEF NotBefore
<1> QED
  BY <1>1, <1>3, InRange


-------------------------------------------------------------------------------
(* Calls. *)

\* What the record of a thread's call says.
LEMMA CallFields ==
  ASSUME Types, NEW a \in Actors
  PROVE  /\ call[a].c \in Channels \cup {None} /\ call[a].old \subseteq Kinds
         /\ call[a] = NoCall \/ call[a] \in Removals \/ call[a] \in Markings
         /\ call[a].at = "remove" => call[a] \in Removals
         /\ call[a].at \notin {"none", "remove"} => call[a] \in Markings
         /\ call[a].at # "none" => call[a] # NoCall /\ call[a].c \in Channels
<1>1. call[a] \in CallRecords
  BY DEF Types
<1> QED
  BY <1>1 DEF CallRecords, NoCall, Removals, Markings

\* A marking goes on to another stage.
LEMMA GoesOn ==
  ASSUME Types, NEW a \in Actors, call[a] \in Markings,
         NEW at \in {"store", "proc", "origin", "lock", "clear", "restore", "add"}, Go(a, at)
  PROVE  /\ call' \in [Actors -> CallRecords]
         /\ call'[a].at = at /\ call'[a].op = call[a].op
         /\ call'[a].c = call[a].c /\ call'[a].old = call[a].old
         /\ call'[a] # NoCall
         /\ \A b \in Actors : b # a => call'[b] = call[b]
<1>1. call \in [Actors -> CallRecords]
  BY DEF Types
<1>2. [call[a] EXCEPT !.at = at] \in Markings
  BY DEF Markings
<1>3. call' = [call EXCEPT ![a] = [call[a] EXCEPT !.at = at]]
  BY DEF Go
<1>4. /\ call'[a] = [call[a] EXCEPT !.at = at]
      /\ \A b \in Actors : b # a => call'[b] = call[b]
  BY <1>1, <1>3
<1>5. call' \in [Actors -> CallRecords]
  BY <1>1, <1>2, <1>3 DEF CallRecords
<1>6. call'[a].at = at /\ call'[a].op = call[a].op /\ call'[a].c = call[a].c /\ call'[a].old = call[a].old
  BY <1>4 DEF Markings
<1>7. call'[a] # NoCall
  BY <1>6 DEF NoCall
<1> QED
  BY <1>4, <1>5, <1>6, <1>7

-------------------------------------------------------------------------------
(* Types. *)

LEMMA SomeFds == FdOf \in [Channels -> Fds] /\ Fds \subseteq Nat
BY ChannelPollAssumption DEF Fds

LEMMA BitsTyped ==
  ASSUME Types, NEW c \in Channels, NEW kinds, SetBits(c, kinds) \/ ClearBits(c, kinds)
  PROVE  fds' \in [Kinds -> SUBSET Fds] /\ is_dirty' = TRUE /\ max_fd' = max_fd
BY SomeFds DEF Types, TypeOK, SetBits, ClearBits

\* The calls of the API keep the types.
LEMMA ApiTyped ==
  ASSUME Inv, NEW a \in Actors, NEW c \in Channels,
         \/ AddChannel(a, c) \/ AddChannelFails(a, c) \/ RemoveChannel(a, c) \/ FreeChannel(a, c)
         \/ \E m \in Masks : RemoveFdBegins(a, c, m)
         \/ \E op \in {"mark", "unmark"} : Mark(a, c, op)
  PROVE  Types'
<1> USE DEF Inv
<1>1. CASE AddChannel(a, c)
  <2>1. Append(ec_map, c) \in Seq(Channels)
    BY DEF Types, TypeOK
  <2>2. fds' \in [Kinds -> SUBSET Fds] /\ is_dirty' = TRUE /\ max_fd' = max_fd
    BY <1>1, BitsTyped DEF AddChannel
  <2>3. /\ life' \in [Channels -> {"none", "open", "freed"}]
        /\ mask' \in [Channels -> SUBSET Kinds] /\ procs' \in [Channels -> SUBSET Kinds]
    BY <1>1 DEF AddChannel, Types, TypeOK, Kinds
  <2> QED
    BY <1>1, <2>1, <2>2, <2>3 DEF AddChannel, MapAdd, Types, TypeOK, passVars
<1>2. CASE AddChannelFails(a, c)
  BY <1>2 DEF AddChannelFails, FreeMemory, Types, TypeOK, ioVars, passVars
<1>3. CASE RemoveChannel(a, c)
  <2>1. MapRemove(FdOf[c]) \in Seq(Channels)
    BY <1>3, RemovedByFd DEF RemoveChannel
  <2>2. fds' \in [Kinds -> SUBSET Fds] /\ is_dirty' = TRUE /\ max_fd' = max_fd
    BY <1>3, BitsTyped DEF RemoveChannel
  <2>3. /\ life' \in [Channels -> {"none", "open", "freed"}]
        /\ mask' \in [Channels -> SUBSET Kinds] /\ procs' \in [Channels -> SUBSET Kinds]
        /\ due' \subseteq Channels \X Kinds
    BY <1>3 DEF RemoveChannel, FreeMemory, Forget, Types, TypeOK, Kinds
  <2> QED
    BY <1>3, <2>1, <2>2, <2>3 DEF RemoveChannel, Types, TypeOK, passVars
<1>4. CASE FreeChannel(a, c)
  BY <1>4 DEF FreeChannel, FreeMemory, Types, TypeOK, ioVars, passVars
<1>5. ASSUME NEW m \in Masks, RemoveFdBegins(a, c, m) PROVE Types'
  <2>1. m \subseteq Kinds
    BY ChannelPollAssumption
  <2>2. [op |-> "remove_fd", c |-> c, at |-> "remove", old |-> mask[c] \ m] \in Removals
    BY DEF Removals, Types, TypeOK
  <2>3. call' \in [Actors -> CallRecords]
    BY <1>5, <2>2 DEF RemoveFdBegins, Types, CallRecords
  <2>4. \A b \in Actors : call'[b].c \in Channels \cup {None} /\ call'[b].old \subseteq Kinds
    BY <2>3 DEF CallRecords, Removals, Markings, NoCall
  <2>5. mask' \in [Channels -> SUBSET Kinds]
    BY <1>5, <2>1 DEF RemoveFdBegins, Types, TypeOK
  <2> QED
    BY <1>5, <2>3, <2>4, <2>5 DEF RemoveFdBegins, Types, TypeOK, ioVars, passVars
<1>6. ASSUME NEW op \in {"mark", "unmark"}, Mark(a, c, op) PROVE Types'
  <2>1. [op |-> op, c |-> c, at |-> "store", old |-> mask[c]] \in Markings
    BY DEF Markings, Types, TypeOK
  <2>2. call' \in [Actors -> CallRecords]
    BY <1>6, <2>1 DEF Mark, Types, CallRecords
  <2>3. \A b \in Actors : call'[b].c \in Channels \cup {None} /\ call'[b].old \subseteq Kinds
    BY <2>2 DEF CallRecords, Removals, Markings, NoCall
  <2> QED
    BY <1>6, <2>2, <2>3 DEF Mark, Types, TypeOK, chanVars, ioVars, passVars
<1> QED
  BY <1>1, <1>2, <1>3, <1>4, <1>5, <1>6

\* A call that is over, or one step further, is still a call.
LEMMA CallsTyped ==
  ASSUME call' \in [Actors -> CallRecords]
  PROVE  \A b \in Actors : call'[b].c \in Channels \cup {None} /\ call'[b].old \subseteq Kinds
BY DEF CallRecords, Removals, Markings, NoCall

LEMMA CallEnds ==
  ASSUME Types, NEW a \in Actors, call' = [call EXCEPT ![a] = NoCall]
  PROVE  /\ call' \in [Actors -> CallRecords] /\ call'[a] = NoCall
         /\ \A b \in Actors : b # a => call'[b] = call[b]
BY DEF Types, CallRecords

LEMMA Unlocks ==
  ASSUME NEW a \in Actors, Unlock(a)
  PROVE  fd_mtx' \in Actors \cup {None}
BY DEF Unlock, Actors

\* The steps of the calls in progress keep the types.
LEMMA CallStepsTyped ==
  ASSUME Inv, NEW a \in Actors, CallSteps(a)
  PROVE  Types'
<1> USE DEF Inv
<1>1. CASE RemoveFdEnds(a)
  <2> DEFINE c == call[a].c
             rest == call[a].old
  <2>1. call[a].at = "remove" /\ c \in Channels /\ rest \subseteq Kinds /\ Listed(c)
    BY <1>1, CallFields DEF RemoveFdEnds, Doing, Locks
  <2>2. ec_map' \in Seq(Channels)
    <3>1. MapRemove(FdOf[c]) \in Seq(Channels)
      BY <2>1, RemovedByFd
    <3> QED
      BY <1>1, <3>1 DEF RemoveFdEnds, Types, TypeOK
  <2>3. fds' \in [Kinds -> SUBSET Fds] /\ is_dirty' = TRUE /\ max_fd' = max_fd
    BY <1>1, <2>1, BitsTyped DEF RemoveFdEnds
  <2>4. mask' \in [Channels -> SUBSET Kinds] /\ due' \subseteq Channels \X Kinds
    BY <1>1, <2>1 DEF RemoveFdEnds, Types, TypeOK
  <2>5. call' \in [Actors -> CallRecords]
    BY <1>1, CallEnds DEF RemoveFdEnds
  <2>6. fd_mtx' \in Actors \cup {None}
    BY <1>1, Unlocks DEF RemoveFdEnds
  <2>7. UNCHANGED <<life, procs, passVars>>
    BY <1>1 DEF RemoveFdEnds
  <2> QED
    BY <2>2, <2>3, <2>4, <2>5, <2>6, <2>7, CallsTyped DEF Types, TypeOK, passVars
<1>2. CASE StoreMask(a)
  <2>1. call[a] \in Markings /\ call[a].c \in Channels /\ call[a].old \subseteq Kinds
    BY <1>2, CallFields DEF StoreMask, Doing
  <2>2. call' \in [Actors -> CallRecords]
    BY <1>2, <2>1, GoesOn DEF StoreMask
  <2>3. mask' \in [Channels -> SUBSET Kinds]
    BY <1>2, <2>1 DEF StoreMask, Types, TypeOK, Kinds
  <2> QED
    BY <1>2, <2>2, <2>3, CallsTyped DEF StoreMask, Types, TypeOK, ioVars, passVars
<1>3. CASE StoreProc(a)
  <2>1. call[a] \in Markings /\ call[a].c \in Channels /\ call[a].old \subseteq Kinds
    BY <1>3, CallFields DEF StoreProc, Doing
  <2>2. call' \in [Actors -> CallRecords]
    BY <1>3, <2>1, GoesOn DEF StoreProc
  <2>3. procs' \in [Channels -> SUBSET Kinds] /\ due' \subseteq Channels \X Kinds
    BY <1>3, <2>1 DEF StoreProc, Types, TypeOK, Kinds
  <2> QED
    BY <1>3, <2>2, <2>3, CallsTyped DEF StoreProc, Types, TypeOK, ioVars, passVars
<1>4. CASE ReadOrigin(a)
  <2>1. call[a] \in Markings /\ call[a].c \in Channels
    BY <1>4, CallFields DEF ReadOrigin, Doing
  <2>2. [call[a] EXCEPT !.at = "lock", !.old = mask[call[a].c]] \in Markings
    BY <2>1 DEF Markings, Types, TypeOK
  <2>3. call' \in [Actors -> CallRecords]
    BY <1>4, <2>2 DEF ReadOrigin, Types, CallRecords
  <2> QED
    BY <1>4, <2>3, CallsTyped DEF ReadOrigin, Types, TypeOK, chanVars, ioVars, passVars
<1>5. CASE MaskAll(a)
  <2>1. call[a] \in Markings /\ call[a].c \in Channels
    BY <1>5, CallFields DEF MaskAll, Doing
  <2>2. call' \in [Actors -> CallRecords]
    BY <1>5, <2>1, GoesOn DEF MaskAll
  <2>3. mask' \in [Channels -> SUBSET Kinds]
    BY <1>5, <2>1 DEF MaskAll, Types, TypeOK
  <2> QED
    BY <1>5, <2>2, <2>3, CallsTyped DEF MaskAll, Types, TypeOK, ioVars, passVars
<1>6. CASE ClearAll(a)
  <2>1. call[a] \in Markings /\ call[a].c \in Channels
    BY <1>6, CallFields DEF ClearAll, Doing
  <2>2. call' \in [Actors -> CallRecords]
    BY <1>6, <2>1, GoesOn DEF ClearAll
  <2>3. fds' \in [Kinds -> SUBSET Fds] /\ is_dirty' = TRUE /\ max_fd' = max_fd
    BY <1>6, <2>1, BitsTyped DEF ClearAll
  <2> QED
    BY <1>6, <2>2, <2>3, CallsTyped DEF ClearAll, Types, TypeOK, chanVars, passVars
<1>7. CASE RestoreMask(a)
  <2>1. call[a] \in Markings /\ call[a].c \in Channels /\ call[a].old \subseteq Kinds
    BY <1>7, CallFields DEF RestoreMask, Doing
  <2>2. call' \in [Actors -> CallRecords]
    BY <1>7, <2>1, GoesOn DEF RestoreMask
  <2>3. mask' \in [Channels -> SUBSET Kinds]
    BY <1>7, <2>1 DEF RestoreMask, Types, TypeOK
  <2> QED
    BY <1>7, <2>2, <2>3, CallsTyped DEF RestoreMask, Types, TypeOK, ioVars, passVars
<1>8. CASE AddBits(a)
  <2>1. call[a] \in Markings /\ call[a].c \in Channels
    BY <1>8, CallFields DEF AddBits, Doing
  <2>2. call' \in [Actors -> CallRecords]
    BY <1>8, CallEnds DEF AddBits
  <2>3. fds' \in [Kinds -> SUBSET Fds] /\ is_dirty' = TRUE /\ max_fd' = max_fd
    BY <1>8, <2>1, BitsTyped DEF AddBits
  <2>4. fd_mtx' \in Actors \cup {None}
    BY <1>8, Unlocks DEF AddBits
  <2> QED
    BY <1>8, <2>2, <2>3, <2>4, CallsTyped DEF AddBits, Types, TypeOK, chanVars, passVars
<1> QED
  BY <1>1, <1>2, <1>3, <1>4, <1>5, <1>6, <1>7, <1>8 DEF CallSteps

\* The pass keeps the types.
LEMMA NextKindTyped ==
  ASSUME Types, NextKind
  PROVE  /\ pc' \in {"idle", "visit", "check"} /\ kind' \in Kinds
         /\ cur' \in Channels \cup {None} /\ next' \in Channels \cup {None}
         /\ fd_mtx' \in Actors \cup {None} /\ back' \in [Kinds -> SUBSET Fds]
<1>1. NoEvents \in [Kinds -> SUBSET Fds]
  BY DEF NoEvents
<1>2. CASE kind # "error"
  BY <1>2 DEF Types, TypeOK, NextKind, Kinds
<1>3. CASE kind = "error"
  BY <1>1, <1>3 DEF Types, TypeOK, NextKind, NextChannel, Kinds
<1> QED
  BY <1>2, <1>3

\* What select does with its report.
SelectReports(ev) ==
  \/ /\ ev = NoEvents
     /\ UNCHANGED <<passVars, due, fd_mtx>>
  \/ /\ ev # NoEvents
     /\ back' = ev
     /\ due' = {d \in Range(ec_map) \X Kinds : FdOf[d[1]] \in ev[d[2]] /\ d[2] \in procs[d[1]]}
     /\ cur' = Head(ec_map) /\ pc' = "visit" /\ fd_mtx' = L
     /\ UNCHANGED <<kind, next>>

LEMMA SelectIs ==
  ASSUME Types, Select
  PROVE  \E ev \in [Kinds -> SUBSET Fds] : SelectReports(ev)
<1>1. \A m : Reports(m) \subseteq [Kinds -> SUBSET Fds]
  BY DEF Reports, NoEvents
<1> DEFINE m == IF is_dirty THEN MaxFd(ec_map) ELSE max_fd
<1>2. \E ev \in Reports(m) : SelectReports(ev)
  BY Zenon DEF Select, SelectReports
<1> HIDE DEF m
<1> QED
  BY <1>1, <1>2

LEMMA PassTyped ==
  ASSUME Inv, Select \/ Visit \/ CallsChannel \/ SkipsKind \/ CallbackReturns
  PROVE  Types'
<1> USE DEF Inv
<1>1. CASE Select
  <2>1. max_fd' \in Fds \cup {-1} /\ is_dirty' = FALSE
    BY <1>1, MaxFdIs DEF Select, Types, TypeOK
  <2>2. UNCHANGED <<ec_map, chanVars, fds, call>>
    BY <1>1 DEF Select
  <2>3. PICK ev \in [Kinds -> SUBSET Fds] : SelectReports(ev)
    BY <1>1, SelectIs
  <2>5. ec_map \in Seq(Channels) /\ ec_map # <<>>
    BY <1>1 DEF Select, Types, TypeOK
  <2>6. Head(ec_map) \in Channels /\ Range(ec_map) \subseteq Channels
    BY <2>5, HeadIs, InRange
  <2>7. /\ back' \in [Kinds -> SUBSET Fds] /\ due' \subseteq Channels \X Kinds
        /\ cur' \in Channels \cup {None} /\ next' \in Channels \cup {None}
        /\ pc' \in {"idle", "visit", "check", "callback"} /\ kind' \in Kinds
        /\ fd_mtx' \in Actors \cup {None}
    BY <2>3, <2>6 DEF SelectReports, passVars, Types, TypeOK, Actors
  <2> QED
    BY <2>1, <2>2, <2>7 DEF chanVars, Types, TypeOK
<1>2. CASE Visit
  <2>1. Following(cur) \in Channels \cup {None}
    <3>1. cur \in Channels /\ Listed(cur)
      BY <1>2, InRange DEF Visit, Types, TypeOK, Listed
    <3> QED
      BY <3>1, FollowingIs
  <2> QED
    BY <1>2, <2>1 DEF Visit, Types, TypeOK, chanVars, ioVars, Kinds
<1>3. CASE CallsChannel
  BY <1>3 DEF CallsChannel, Types, TypeOK, chanVars, ioVars
<1>4. CASE SkipsKind \/ CallbackReturns
  <2>1. NextKind /\ UNCHANGED <<ec_map, chanVars, ioVars, call, due>>
    BY <1>4 DEF SkipsKind, CallbackReturns
  <2> QED
    BY <2>1, NextKindTyped DEF Types, TypeOK, chanVars, ioVars
<1> QED
  BY <1>1, <1>2, <1>3, <1>4

LEMMA TypesNext ==
  ASSUME Inv, Next
  PROVE  Types'
BY ApiTyped, CallStepsTyped, PassTyped DEF Next

-------------------------------------------------------------------------------
(* The list. *)

\* Who takes a channel off the list.
Unlists(a, c) ==
  RemoveChannel(a, c) \/ (RemoveFdEnds(a) /\ call[a].c = c /\ call[a].old = {})

\* Most steps leave the list alone.
LEMMA ListAlone ==
  ASSUME Next
  PROVE  \/ UNCHANGED ec_map
         \/ \E a \in Actors, c \in Channels : AddChannel(a, c) \/ RemoveChannel(a, c)
         \/ \E a \in Actors : RemoveFdEnds(a)
<1>1. CASE Select \/ Visit \/ CallsChannel \/ SkipsKind \/ CallbackReturns
  BY <1>1, Zenon DEF Select, Visit, CallsChannel, SkipsKind, CallbackReturns
<1>2. ASSUME NEW a \in Actors, CallSteps(a), ~RemoveFdEnds(a) PROVE UNCHANGED ec_map
  BY <1>2, Zenon DEF CallSteps, StoreMask, StoreProc, ReadOrigin, MaskAll, ClearAll, RestoreMask, AddBits
<1>3. ASSUME NEW a \in Actors, NEW c \in Channels,
             \/ AddChannelFails(a, c) \/ FreeChannel(a, c)
             \/ \E m \in Masks : RemoveFdBegins(a, c, m)
             \/ \E op \in {"mark", "unmark"} : Mark(a, c, op)
      PROVE  UNCHANGED ec_map
  BY <1>3, Zenon DEF AddChannelFails, FreeChannel, RemoveFdBegins, Mark
<1> QED
  BY <1>1, <1>2, <1>3, Zenon DEF Next

\* What a step does to the list: channels keep their order, and come and go by
\* the actions for it.
LEMMA ListSteps ==
  ASSUME Inv, Next
  PROVE  /\ Distinct(ec_map')
         /\ \A x, y : NotBefore(ec_map, x, y) /\ {x, y} \subseteq Range(ec_map') =>
              NotBefore(ec_map', x, y)
         /\ \A c \in Range(ec_map) : c \notin Range(ec_map') => \E a \in Actors : Unlists(a, c)
         /\ \A c \in Range(ec_map') : c \notin Range(ec_map) => \E a \in Actors : AddChannel(a, c)
<1>1. ec_map \in Seq(Channels) /\ Distinct(ec_map) /\ Types /\ Lists
  BY DEF Inv, Types, TypeOK, Lists
<1>2. CASE UNCHANGED ec_map
  BY <1>1, <1>2
<1>3. ASSUME NEW a \in Actors, NEW c \in Channels, AddChannel(a, c)
      PROVE  /\ Distinct(ec_map')
             /\ Range(ec_map') = Range(ec_map) \cup {c}
             /\ \A x, y : NotBefore(ec_map, x, y) => NotBefore(ec_map', x, y)
  <2>1. life[c] = "none" /\ ec_map' = Append(ec_map, c)
    BY <1>3 DEF AddChannel, MapAdd
  <2>2. c \notin Range(ec_map)
    BY <1>1, <2>1 DEF Lists, Listed
  <2> QED
    BY <1>1, <2>1, <2>2, Added
<1>4. ASSUME NEW c \in Channels, Listed(c), ec_map' = MapRemove(FdOf[c])
      PROVE  /\ Distinct(ec_map')
             /\ Range(ec_map') = Range(ec_map) \ {c}
             /\ \A x, y : NotBefore(ec_map, x, y) /\ c \notin {x, y} => NotBefore(ec_map', x, y)
  BY <1>1, <1>4, RemovedByFd
<1>5. ASSUME NEW a \in Actors, NEW c \in Channels, RemoveChannel(a, c)
      PROVE  Listed(c) /\ ec_map' = MapRemove(FdOf[c]) /\ Unlists(a, c)
  BY <1>5 DEF RemoveChannel, Unlists
<1>6. ASSUME NEW a \in Actors, RemoveFdEnds(a), ec_map' # ec_map
      PROVE  /\ call[a].c \in Channels /\ Listed(call[a].c)
             /\ ec_map' = MapRemove(FdOf[call[a].c]) /\ Unlists(a, call[a].c)
  <2>1. call[a].at = "remove"
    BY <1>6 DEF RemoveFdEnds, Doing
  <2>2. call[a].c \in Channels /\ Listed(call[a].c)
    BY <1>1, <2>1, CallFields DEF Inv, Locks
  <2> QED
    BY <1>6, <2>2 DEF RemoveFdEnds, Unlists
<1>7. CASE \E a \in Actors, c \in Channels : AddChannel(a, c)
  BY <1>3, <1>7, Zenon
<1>8. CASE \E a \in Actors, c \in Channels : RemoveChannel(a, c)
  <2>1. PICK a \in Actors, c \in Channels : RemoveChannel(a, c)
    BY <1>8
  <2>2. /\ Unlists(a, c) /\ Distinct(ec_map') /\ Range(ec_map') = Range(ec_map) \ {c}
        /\ \A x, y : NotBefore(ec_map, x, y) /\ c \notin {x, y} => NotBefore(ec_map', x, y)
    BY <1>4, <1>5, <2>1, Zenon
  <2> QED
    BY <2>2, Zenon
<1>9. CASE ec_map' # ec_map /\ \E a \in Actors : RemoveFdEnds(a)
  <2>1. PICK a \in Actors : RemoveFdEnds(a)
    BY <1>9
  <2> DEFINE c == call[a].c
  <2>2. /\ Unlists(a, c) /\ Distinct(ec_map') /\ Range(ec_map') = Range(ec_map) \ {c}
        /\ \A x, y : NotBefore(ec_map, x, y) /\ c \notin {x, y} => NotBefore(ec_map', x, y)
    BY <1>4, <1>6, <1>9, <2>1, Zenon
  <2> HIDE DEF c
  <2> QED
    BY <2>2, Zenon
<1> QED
  BY <1>2, <1>7, <1>8, <1>9, ListAlone, Zenon

\* While the pass runs only L takes channels off the list, in a callback, and
\* never the next one.
LEMMA UnlistsInPass ==
  ASSUME Inv, InPass, NEW a \in Actors, NEW c \in Channels, Unlists(a, c)
  PROVE  a = L /\ pc = "callback" /\ c # next
<1>1. Types /\ Locks /\ fd_mtx = L /\ L # None
  BY ChannelPollAssumption DEF Inv, Locks, Actors
<1>2. CASE RemoveChannel(a, c)
  <2>1. a = L
    BY <1>1, <1>2 DEF RemoveChannel, CanLock
  <2> QED
    BY <2>1, <1>2 DEF RemoveChannel, MayCall, MayUnlist, InPass
<1>3. CASE RemoveFdEnds(a) /\ call[a].c = c /\ call[a].old = {}
  <2>1. call[a].at = "remove"
    BY <1>3 DEF RemoveFdEnds, Doing
  <2>2. a = L /\ call[a] # NoCall
    BY <1>1, <2>1, CallFields DEF Locks, InMutex
  <2> QED
    BY <1>1, <1>3, <2>1, <2>2 DEF Locks, InPass
<1> QED
  BY <1>2, <1>3 DEF Unlists

\* Who makes a channel open, or no longer open.
LEMMA LifeSteps ==
  ASSUME Next
  PROVE  \/ UNCHANGED life
         \/ \E a \in Actors, c \in Channels :
              \/ AddChannel(a, c) /\ life' = [life EXCEPT ![c] = "open"]
              \/ /\ AddChannelFails(a, c) \/ RemoveChannel(a, c) \/ FreeChannel(a, c)
                 /\ life' = [life EXCEPT ![c] = "freed"]
<1>1. CASE Select \/ Visit \/ CallsChannel \/ SkipsKind \/ CallbackReturns
  BY <1>1, Zenon DEF Select, Visit, CallsChannel, SkipsKind, CallbackReturns, chanVars
<1>2. ASSUME NEW a \in Actors, CallSteps(a) PROVE UNCHANGED life
  BY <1>2, Zenon DEF CallSteps, RemoveFdEnds, StoreMask, StoreProc, ReadOrigin, MaskAll, ClearAll,
    RestoreMask, AddBits, chanVars
<1>3. ASSUME NEW a \in Actors, NEW c \in Channels,
             \/ \E m \in Masks : RemoveFdBegins(a, c, m)
             \/ \E op \in {"mark", "unmark"} : Mark(a, c, op)
      PROVE  UNCHANGED life
  BY <1>3, Zenon DEF RemoveFdBegins, Mark, chanVars
<1>4. ASSUME NEW a \in Actors, NEW c \in Channels
      PROVE  /\ AddChannel(a, c) => life' = [life EXCEPT ![c] = "open"]
             /\ AddChannelFails(a, c) \/ RemoveChannel(a, c) \/ FreeChannel(a, c) =>
                  life' = [life EXCEPT ![c] = "freed"]
  BY Zenon DEF AddChannel, AddChannelFails, RemoveChannel, FreeChannel, FreeMemory
<1> QED
  BY <1>1, <1>2, <1>3, <1>4, Zenon DEF Next

LEMMA ListsNext ==
  ASSUME Inv, Next
  PROVE  Lists'
<1>1. life \in [Channels -> {"none", "open", "freed"}] /\ Lists
  BY DEF Inv, Types, TypeOK
<1>2. Range(ec_map) \subseteq Channels /\ Range(ec_map') \subseteq Channels
  BY TypesNext, InRange DEF Inv, Types, TypeOK
<1>3. ASSUME NEW c \in Channels, Listed(c)' PROVE life'[c] = "open"
  <2>1. CASE ~Listed(c)
    <3>1. PICK a \in Actors : AddChannel(a, c)
      BY <1>3, <2>1, ListSteps DEF Listed
    <3> QED
      BY <3>1, <1>1 DEF AddChannel
  <2>2. CASE Listed(c)
    <3>1. life[c] = "open"
      BY <1>1, <2>2 DEF Lists
    <3>2. ASSUME NEW a \in Actors, NEW d \in Channels,
                 AddChannelFails(a, d) \/ RemoveChannel(a, d) \/ FreeChannel(a, d)
          PROVE  d # c
      <4>1. CASE AddChannelFails(a, d) \/ FreeChannel(a, d)
        BY <4>1, <2>2, <3>1 DEF AddChannelFails, FreeChannel
      <4>2. CASE RemoveChannel(a, d)
        <5>1. ec_map' = MapRemove(FdOf[d]) /\ Listed(d)
          BY <4>2 DEF RemoveChannel
        <5>2. Range(ec_map') = Range(ec_map) \ {d}
          BY <5>1, RemovedByFd DEF Inv
        <5> QED
          BY <5>2, <1>3 DEF Listed
      <4> QED
        BY <3>2, <4>1, <4>2
    <3> QED
      BY <1>1, <3>1, <3>2, LifeSteps
  <2> QED
    BY <2>1, <2>2
<1>4. \A c, d \in Channels :
        life'[c] = "open" /\ life'[d] = "open" /\ FdOf[c] = FdOf[d] => c = d
  <2>1. ASSUME NEW a \in Actors, NEW b \in Channels, AddChannel(a, b),
               life' = [life EXCEPT ![b] = "open"]
        PROVE  \A c, d \in Channels :
                 life'[c] = "open" /\ life'[d] = "open" /\ FdOf[c] = FdOf[d] => c = d
    <3>1. \A d \in Channels : FdOf[d] = FdOf[b] => life[d] # "open"
      BY <2>1 DEF AddChannel
    <3> QED
      BY <1>1, <2>1, <3>1 DEF Lists
  <2>2. ASSUME \A c \in Channels : life'[c] = "open" => life[c] = "open"
        PROVE  \A c, d \in Channels :
                 life'[c] = "open" /\ life'[d] = "open" /\ FdOf[c] = FdOf[d] => c = d
    BY <1>1, <2>2 DEF Lists
  <2> QED
    BY <1>1, <2>1, <2>2, LifeSteps
<1> QED
  BY <1>3, <1>4, ListSteps DEF Lists

-------------------------------------------------------------------------------
(* The mutex. *)

\* What a step of a call does to the call and to the mutex.
LEMMA CallStepIs ==
  ASSUME Inv, NEW a \in Actors, CallSteps(a)
  PROVE  /\ UNCHANGED passVars /\ call[a] # NoCall
         /\ \A b \in Actors : b # a => call'[b] = call[b]
         /\ \/ call'[a] = NoCall /\ call[a].at \in InMutex /\ Unlock(a)
            \/ call'[a].at = "clear" /\ CanLock(a) /\ fd_mtx' = a
            \/ call'[a].at \in {"restore", "add"} /\ call[a].at \in InMutex /\ UNCHANGED fd_mtx
            \/ call'[a].at \in {"proc", "origin", "lock"} /\ UNCHANGED fd_mtx
<1> USE DEF Inv
<1>1. CASE RemoveFdEnds(a)
  BY <1>1, CallEnds, CallFields DEF RemoveFdEnds, Doing, InMutex, passVars
<1>2. CASE AddBits(a)
  BY <1>2, CallEnds, CallFields DEF AddBits, Doing, InMutex
<1>3. CASE StoreMask(a)
  BY <1>3, GoesOn, CallFields DEF StoreMask, Doing
<1>4. CASE StoreProc(a)
  BY <1>4, GoesOn, CallFields DEF StoreProc, Doing
<1>5. CASE ReadOrigin(a)
  <2>1. call[a] \in Markings /\ call[a] # NoCall
    BY <1>5, CallFields DEF ReadOrigin, Doing
  <2>2. call \in [Actors -> CallRecords]
    BY DEF Types
  <2>3. call' = [call EXCEPT ![a] = [call[a] EXCEPT !.at = "lock", !.old = mask[call[a].c]]]
    BY <1>5 DEF ReadOrigin
  <2>4. call'[a].at = "lock" /\ \A b \in Actors : b # a => call'[b] = call[b]
    BY <2>1, <2>2, <2>3 DEF Markings
  <2> QED
    BY <1>5, <2>1, <2>4 DEF ReadOrigin
<1>6. CASE MaskAll(a)
  BY <1>6, GoesOn, CallFields DEF MaskAll, Doing
<1>7. CASE ClearAll(a)
  BY <1>7, GoesOn, CallFields DEF ClearAll, Doing, InMutex
<1>8. CASE RestoreMask(a)
  BY <1>8, GoesOn, CallFields DEF RestoreMask, Doing, InMutex
<1> QED
  BY <1>1, <1>2, <1>3, <1>4, <1>5, <1>6, <1>7, <1>8 DEF CallSteps

\* What the beginning of a call does to it.
LEMMA BeginIs ==
  ASSUME Inv, NEW a \in Actors, NEW c \in Channels,
         (\E m \in Masks : RemoveFdBegins(a, c, m)) \/ \E op \in {"mark", "unmark"} : Mark(a, c, op)
  PROVE  /\ UNCHANGED <<ec_map, passVars>> /\ MayCall(a) /\ Listed(c) /\ call'[a].c = c
         /\ \A b \in Actors : b # a => call'[b] = call[b]
         /\ \/ /\ call'[a].at = "remove" /\ CanLock(a) /\ fd_mtx' = a
               /\ a = L /\ call'[a].old = {} => MayUnlist(c)
            \/ call'[a].at = "store" /\ UNCHANGED fd_mtx
<1>1. call \in [Actors -> CallRecords]
  BY DEF Inv, Types
<1>2. ASSUME NEW m \in Masks, RemoveFdBegins(a, c, m)
      PROVE  /\ UNCHANGED <<ec_map, passVars>> /\ MayCall(a) /\ Listed(c) /\ call'[a].c = c
             /\ \A b \in Actors : b # a => call'[b] = call[b]
             /\ call'[a].at = "remove" /\ CanLock(a) /\ fd_mtx' = a
             /\ a = L /\ call'[a].old = {} => MayUnlist(c)
  BY <1>1, <1>2 DEF RemoveFdBegins
<1>3. ASSUME NEW op \in {"mark", "unmark"}, Mark(a, c, op)
      PROVE  /\ UNCHANGED <<ec_map, passVars>> /\ MayCall(a) /\ Listed(c) /\ call'[a].c = c
             /\ \A b \in Actors : b # a => call'[b] = call[b]
             /\ call'[a].at = "store" /\ UNCHANGED fd_mtx
  BY <1>1, <1>3 DEF Mark
<1> QED
  BY <1>2, <1>3

\* A channel whose event_loop_remove_fd is in progress stays listed.
LEMMA StaysListed ==
  ASSUME Inv, Next, NEW b \in Actors, call[b].at = "remove", call'[b] = call[b]
  PROVE  Listed(call[b].c)'
<1>1. Types /\ Locks
  BY DEF Inv
<1>2. call[b].c \in Channels /\ Listed(call[b].c) /\ fd_mtx = b /\ call[b] # NoCall
  BY <1>1, CallFields DEF Locks, InMutex
<1>3. ASSUME NEW a \in Actors PROVE ~Unlists(a, call[b].c)
  <2>1. ~RemoveChannel(a, call[b].c)
    BY DEF RemoveChannel, NotInUse
  <2>2. ~RemoveFdEnds(a)
    <3>1. SUFFICES ASSUME RemoveFdEnds(a) PROVE FALSE
      OBVIOUS
    <3>2. a = b
      BY <1>1, <1>2, <3>1 DEF RemoveFdEnds, Doing, Locks, InMutex
    <3> QED
      BY <1>1, <1>2, <3>1, <3>2, CallEnds DEF RemoveFdEnds
  <2> QED
    BY <2>1, <2>2 DEF Unlists
<1> QED
  BY <1>2, <1>3, ListSteps DEF Listed

\* The steps of the pass find nobody else inside the mutex.
LEMMA PassAlone ==
  ASSUME Inv, Select \/ Visit \/ CallsChannel \/ SkipsKind \/ CallbackReturns
  PROVE  call[L] = NoCall /\ UNCHANGED <<ec_map, call>> /\ \A a \in Actors : call[a].at \notin InMutex
<1>1. Locks /\ Types /\ L \in Actors /\ None \notin Actors
  BY ChannelPollAssumption DEF Inv, Actors
<1>2. CASE Select
  BY <1>1, <1>2 DEF Select, Locks
<1>3. CASE ~Select
  <2>1. InPass /\ UNCHANGED <<ec_map, call>> /\ call[L] = NoCall
    BY <1>1, <1>3 DEF Visit, CallsChannel, SkipsKind, CallbackReturns, InPass, Locks
  <2> QED
    BY <1>1, <2>1 DEF Locks, InMutex, NoCall
<1> QED
  BY <1>2, <1>3

\* The pass moves within the mutex.
LEMMA PassMoves ==
  ASSUME Inv, Select \/ Visit \/ CallsChannel \/ SkipsKind \/ CallbackReturns
  PROVE  InPass' => fd_mtx' = L
<1>1. Locks
  BY DEF Inv
<1>2. CASE Select
  <2>1. PICK ev \in [Kinds -> SUBSET Fds] : SelectReports(ev)
    BY <1>2, SelectIs DEF Inv
  <2> QED
    BY <1>2, <2>1 DEF Select, SelectReports, InPass, passVars
<1>3. CASE Visit
  BY <1>1, <1>3 DEF Visit, Locks, InPass
<1>4. CASE CallsChannel
  BY <1>1, <1>4 DEF CallsChannel, Locks, InPass
<1>5. CASE SkipsKind \/ CallbackReturns
  <2>1. NextKind /\ fd_mtx = L
    BY <1>1, <1>5 DEF SkipsKind, CallbackReturns, Locks, InPass
  <2> QED
    BY <2>1 DEF NextKind, NextChannel, InPass
<1> QED
  BY <1>2, <1>3, <1>4, <1>5

LEMMA LocksNext ==
  ASSUME Inv, Next
  PROVE  Locks'
<1>1. Locks /\ Types /\ L \in Actors /\ None \notin Actors
  BY ChannelPollAssumption DEF Inv, Actors
<1>2. CASE Select \/ Visit \/ CallsChannel \/ SkipsKind \/ CallbackReturns
  <2>1. call'[L] = NoCall /\ \A a \in Actors : call'[a].at \notin InMutex
    BY <1>2, PassAlone
  <2> QED
    BY <1>2, <2>1, PassMoves DEF Locks, InMutex
<1>3. ASSUME NEW a \in Actors, CallSteps(a) PROVE Locks'
  <2>1. UNCHANGED passVars /\ call[a] # NoCall /\ \A b \in Actors : b # a => call'[b] = call[b]
    BY <1>3, CallStepIs DEF Inv
  <2>2. call'[a].at # "remove"
    BY <1>3, CallStepIs DEF NoCall
  <2>3. /\ InPass => fd_mtx' = L
        /\ \A b \in Actors : call'[b].at \in InMutex => fd_mtx' = b
    <3>1. CASE call'[a] = NoCall /\ call[a].at \in InMutex /\ Unlock(a)
      BY <1>1, <2>1, <3>1 DEF Unlock, Locks, NoCall, InMutex
    <3>2. CASE call'[a].at = "clear" /\ CanLock(a) /\ fd_mtx' = a
      BY <1>1, <2>1, <3>2 DEF CanLock, Locks, InMutex
    <3>3. CASE call'[a].at \in {"restore", "add"} /\ call[a].at \in InMutex /\ UNCHANGED fd_mtx
      BY <1>1, <2>1, <3>3 DEF Locks
    <3>4. CASE call'[a].at \in {"proc", "origin", "lock"} /\ UNCHANGED fd_mtx
      BY <1>1, <2>1, <3>4 DEF Locks, InMutex
    <3> QED
      BY <1>3, <3>1, <3>2, <3>3, <3>4, CallStepIs
  <2>4. ASSUME NEW b \in Actors, call'[b].at = "remove"
        PROVE  Listed(call[b].c)' /\ call'[b] = call[b]
    <3>1. b # a
      BY <2>2, <2>4
    <3> QED
      BY <2>1, <2>4, <3>1, StaysListed
  <2>5. call'[L] # NoCall => pc \in {"idle", "callback"}
    BY <1>1, <2>1 DEF Locks
  <2>6. pc' = pc /\ next' = next /\ InPass' = InPass
    BY <2>1 DEF passVars, InPass
  <2> QED
    BY <1>1, <2>3, <2>4, <2>5, <2>6 DEF Locks, Listed
<1>4. ASSUME NEW a \in Actors, NEW c \in Channels,
             (\E m \in Masks : RemoveFdBegins(a, c, m)) \/ \E op \in {"mark", "unmark"} : Mark(a, c, op)
      PROVE  Locks'
  <2>1. UNCHANGED <<ec_map, passVars>> /\ MayCall(a) /\ Listed(c) /\ call'[a].c = c
    BY <1>4, BeginIs
  <2>2. \A b \in Actors : b # a => call'[b] = call[b]
    BY <1>4, BeginIs
  <2>3. pc' = pc /\ next' = next /\ InPass' = InPass /\ ec_map' = ec_map
    BY <2>1 DEF passVars, InPass
  <2>4. call'[L] # NoCall => pc \in {"idle", "callback"}
    BY <1>1, <2>1, <2>2 DEF Locks, MayCall
  <2>5. CASE /\ call'[a].at = "remove" /\ CanLock(a) /\ fd_mtx' = a
             /\ a = L /\ call'[a].old = {} => MayUnlist(c)
    <3>1. \A b \in Actors : b # a => call'[b].at \notin InMutex
      BY <1>1, <2>2, <2>5 DEF CanLock, Locks
    <3>2. InPass => a = L
      BY <1>1, <2>5 DEF CanLock, Locks
    <3>3. call'[a].old = {} /\ InPass => c # next
      BY <2>5, <3>2 DEF MayUnlist
    <3> QED
      BY <2>1, <2>3, <2>4, <2>5, <3>1, <3>2, <3>3 DEF Locks, Listed, InMutex
  <2>6. CASE call'[a].at = "store" /\ UNCHANGED fd_mtx
    BY <1>1, <2>2, <2>3, <2>4, <2>6 DEF Locks, Listed, InMutex
  <2> QED
    BY <1>4, <2>5, <2>6, BeginIs
<1>5. ASSUME NEW a \in Actors, NEW c \in Channels,
             AddChannel(a, c) \/ AddChannelFails(a, c) \/ RemoveChannel(a, c) \/ FreeChannel(a, c)
      PROVE  Locks'
  <2>1. UNCHANGED <<fd_mtx, call, passVars>>
    BY <1>5 DEF AddChannel, AddChannelFails, RemoveChannel, FreeChannel
  <2>2. \A b \in Actors : call[b].at = "remove" => Listed(call[b].c)'
    BY <2>1, StaysListed
  <2>3. pc' = pc /\ next' = next /\ InPass' = InPass
    BY <2>1 DEF passVars, InPass
  <2> QED
    BY <1>1, <2>1, <2>2, <2>3 DEF Locks, Listed
<1> QED
  BY <1>2, <1>3, <1>4, <1>5 DEF Next

-------------------------------------------------------------------------------
(* The pass. *)

\* All other steps leave the pass where it is.
LEMMA PassStays ==
  ASSUME Inv, Next, ~(Select \/ Visit \/ CallsChannel \/ SkipsKind \/ CallbackReturns)
  PROVE  UNCHANGED passVars
<1>1. ASSUME NEW a \in Actors, NEW c \in Channels,
             AddChannel(a, c) \/ AddChannelFails(a, c) \/ RemoveChannel(a, c) \/ FreeChannel(a, c)
      PROVE  UNCHANGED passVars
  BY <1>1, Zenon DEF AddChannel, AddChannelFails, RemoveChannel, FreeChannel
<1>2. ASSUME NEW a \in Actors, CallSteps(a) PROVE UNCHANGED passVars
  BY <1>2, CallStepIs
<1>3. ASSUME NEW a \in Actors, NEW c \in Channels,
             (\E m \in Masks : RemoveFdBegins(a, c, m)) \/ \E op \in {"mark", "unmark"} : Mark(a, c, op)
      PROVE  UNCHANGED passVars
  BY <1>3, BeginIs
<1> QED
  BY <1>1, <1>2, <1>3, Zenon DEF Next

LEMMA WalkNext ==
  ASSUME Inv, Next
  PROVE  Walk'
<1>1. Types /\ Lists /\ Walk /\ None \notin Channels /\ Range(ec_map) \subseteq Channels
  BY InRange, ChannelPollAssumption DEF Inv, Types, TypeOK
<1>2. CASE Select
  <2>1. PICK ev \in [Kinds -> SUBSET Fds] : SelectReports(ev)
    BY <1>1, <1>2, SelectIs
  <2>2. ec_map' = ec_map /\ ec_map \in Seq(Channels) /\ ec_map # <<>> /\ pc = "idle"
    BY <1>1, <1>2 DEF Select, Types, TypeOK
  <2>3. Head(ec_map) \in Range(ec_map)
    BY <2>2, HeadIs
  <2> QED
    BY <2>1, <2>2, <2>3 DEF SelectReports, passVars, Walk, Listed
<1>3. CASE Visit
  <2>1. cur \in Channels /\ Listed(cur) /\ ec_map' = ec_map /\ cur' = cur /\ next' = Following(cur)
        /\ pc' = "check"
    BY <1>1, <1>3 DEF Visit, Walk, Listed
  <2>2. Following(cur) # None => Listed(Following(cur))
    BY <1>1, <2>1, FollowingIs
  <2> QED
    BY <2>1, <2>2 DEF Walk, Listed
<1>4. CASE CallsChannel
  BY <1>1, <1>4 DEF CallsChannel, Walk, Listed
<1>5. CASE SkipsKind \/ CallbackReturns
  <2>1. NextKind /\ ec_map' = ec_map /\ pc \in {"check", "callback"}
    BY <1>5 DEF SkipsKind, CallbackReturns
  <2> QED
    BY <1>1, <2>1 DEF NextKind, NextChannel, Walk, Listed
<1>6. CASE ~(Select \/ Visit \/ CallsChannel \/ SkipsKind \/ CallbackReturns)
  <2>1. pc' = pc /\ cur' = cur /\ next' = next
    BY <1>6, PassStays DEF passVars
  <2>2. pc = "visit" => cur \in Range(ec_map')
    <3>1. SUFFICES ASSUME pc = "visit", cur \notin Range(ec_map') PROVE FALSE
      OBVIOUS
    <3>2. cur \in Range(ec_map) /\ cur \in Channels /\ InPass
      BY <1>1, <3>1 DEF Walk, Listed, InPass
    <3>3. PICK a \in Actors : Unlists(a, cur)
      BY <3>1, <3>2, ListSteps
    <3> QED
      BY <3>1, <3>2, <3>3, UnlistsInPass
  <2>3. pc \in {"check", "callback"} /\ next # None => next \in Range(ec_map')
    <3>1. SUFFICES ASSUME pc \in {"check", "callback"}, next # None, next \notin Range(ec_map')
                   PROVE FALSE
      OBVIOUS
    <3>2. next \in Range(ec_map) /\ next \in Channels /\ InPass
      BY <1>1, <3>1 DEF Walk, Listed, InPass
    <3>3. PICK a \in Actors : Unlists(a, next)
      BY <3>1, <3>2, ListSteps
    <3> QED
      BY <3>2, <3>3, UnlistsInPass
  <2> QED
    BY <1>1, <2>1, <2>2, <2>3 DEF Walk, Listed
<1> QED
  BY <1>2, <1>3, <1>4, <1>5, <1>6

-------------------------------------------------------------------------------
(* The events that are due. *)

\* Outside the steps of the pass an event is void once its channel is unlisted or
\* loses the callback.
LEMMA DuesKept ==
  ASSUME Inv, Next, ~(Select \/ Visit \/ CallsChannel \/ SkipsKind \/ CallbackReturns),
         NEW d \in due'
  PROVE  d \in due /\ d[1] \in Range(ec_map') /\ d[2] \in procs'[d[1]]
<1>1. Types /\ Lists /\ Dues
  BY DEF Inv
<1>2. /\ due \subseteq Channels \X Kinds /\ procs \in [Channels -> SUBSET Kinds]
      /\ ec_map \in Seq(Channels)
  BY <1>1 DEF Types, TypeOK
<1>3. d \in due => d[1] \in Channels /\ d[2] \in Kinds /\ Listed(d[1]) /\ d[2] \in procs[d[1]]
                   /\ life[d[1]] = "open" /\ d = <<d[1], d[2]>>
  BY <1>1, <1>2 DEF Dues, Lists
<1>4. ASSUME NEW a \in Actors, NEW c \in Channels,
             AddChannel(a, c) \/ AddChannelFails(a, c) \/ RemoveChannel(a, c) \/ FreeChannel(a, c)
      PROVE  d \in due /\ d[1] # c /\ d[2] \in procs'[d[1]]
  <2>1. d \in due /\ (RemoveChannel(a, c) => d[1] # c)
    BY <1>4 DEF AddChannel, AddChannelFails, RemoveChannel, FreeChannel, Forget
  <2>2. d[1] # c
    BY <1>3, <1>4, <2>1 DEF AddChannel, AddChannelFails, FreeChannel
  <2>3. d[2] \in procs'[d[1]]
    BY <1>2, <1>3, <1>4, <2>1, <2>2 DEF AddChannel, AddChannelFails, RemoveChannel, FreeChannel, FreeMemory
  <2> QED
    BY <2>1, <2>2, <2>3
<1>5. ASSUME NEW a \in Actors, RemoveFdEnds(a)
      PROVE  /\ d \in due /\ d[2] \in procs'[d[1]]
             /\ call[a].old = {} => d[1] # call[a].c
  <2>1. procs' = procs /\ d \in due /\ (d[1] = call[a].c => d[2] \in call[a].old)
    BY <1>5 DEF RemoveFdEnds
  <2> QED
    BY <1>3, <2>1
<1>6. ASSUME NEW a \in Actors, StoreProc(a) PROVE d \in due /\ d[2] \in procs'[d[1]]
  <2>1. d \in due /\ (call[a].op # "mark" => d # <<call[a].c, "write">>)
    BY <1>6 DEF StoreProc
  <2>2. procs' = [procs EXCEPT ![call[a].c] = IF call[a].op = "mark" THEN @ \cup {"write"} ELSE @ \ {"write"}]
    BY <1>6 DEF StoreProc
  <2> QED
    BY <1>2, <1>3, <2>1, <2>2
<1>7. ASSUME NEW a \in Actors, CallSteps(a), ~RemoveFdEnds(a), ~StoreProc(a)
      PROVE  UNCHANGED <<due, procs>>
  BY <1>7, Zenon DEF CallSteps, StoreMask, ReadOrigin, MaskAll, ClearAll, RestoreMask, AddBits, chanVars
<1>8. ASSUME NEW a \in Actors, NEW c \in Channels,
             (\E m \in Masks : RemoveFdBegins(a, c, m)) \/ \E op \in {"mark", "unmark"} : Mark(a, c, op)
      PROVE  UNCHANGED <<due, procs>>
  BY <1>8, Zenon DEF RemoveFdBegins, Mark, chanVars
<1>9. d \in due /\ d[2] \in procs'[d[1]]
  BY <1>3, <1>4, <1>5, <1>6, <1>7, <1>8 DEF Next
<1>10. d[1] \in Range(ec_map')
  <2>1. SUFFICES ASSUME d[1] \notin Range(ec_map') PROVE FALSE
    OBVIOUS
  <2>2. PICK a \in Actors : Unlists(a, d[1])
    BY <1>3, <1>9, <2>1, ListSteps DEF Listed
  <2> QED
    BY <1>3, <1>4, <1>5, <1>9, <2>2 DEF Unlists
<1> QED
  BY <1>9, <1>10

\* The pass goes on with the kinds, or with the channel, that are left.
LEMMA DuesGoOn ==
  ASSUME Inv, NextKind, UNCHANGED <<ec_map, procs, due>>,
         \A d \in due :
           (d[1] = cur /\ d[2] \in LaterKinds(kind)) \/ (next # None /\ NotBefore(ec_map, next, d[1]))
  PROVE  Dues'
<1>1. /\ \A d \in due : Listed(d[1]) /\ Reported(d[1], d[2]) /\ d[2] \in procs[d[1]]
      /\ kind \in Kinds
  BY DEF Inv, Dues, Types, TypeOK
<1>2. CASE kind # "error"
  <2>1. pc' = "check" /\ cur' = cur /\ next' = next /\ back' = back
        /\ kind' = IF kind = "read" THEN "write" ELSE "error"
    BY <1>2 DEF NextKind
  <2>2. LaterKinds(kind) = KindsAhead'
    BY <1>1, <1>2, <2>1 DEF KindsAhead, LaterKinds, Kinds
  <2> QED
    BY <1>1, <2>1, <2>2 DEF Dues, Listed, Reported
<1>3. CASE kind = "error"
  <2>1. NextChannel
    BY <1>3 DEF NextKind
  <2>2. LaterKinds(kind) = {}
    BY <1>3 DEF LaterKinds
  <2>3. CASE next # None
    <3>1. pc' = "visit" /\ cur' = next /\ back' = back
      BY <2>1, <2>3 DEF NextChannel
    <3> QED
      BY <1>1, <2>2, <3>1 DEF Dues, Listed, Reported
  <2>4. CASE next = None
    <3>1. due = {} /\ pc' = "idle"
      BY <2>1, <2>2, <2>4 DEF NextChannel
    <3> QED
      BY <3>1 DEF Dues
  <2> QED
    BY <2>3, <2>4
<1> QED
  BY <1>2, <1>3

LEMMA DuesNext ==
  ASSUME Inv, Next
  PROVE  Dues'
<1>1. /\ Types /\ Lists /\ Walk /\ Dues
      /\ ec_map \in Seq(Channels) /\ Range(ec_map) \subseteq Channels
      /\ due \subseteq Channels \X Kinds /\ None \notin Channels
  BY InRange, ChannelPollAssumption DEF Inv, Types, TypeOK
<1>2. CASE Select
  <2>1. PICK ev \in [Kinds -> SUBSET Fds] : SelectReports(ev)
    BY <1>1, <1>2, SelectIs
  <2>2. ec_map' = ec_map /\ procs' = procs /\ pc = "idle" /\ ec_map # <<>>
    BY <1>2 DEF Select, chanVars
  <2>3. CASE UNCHANGED <<passVars, due, fd_mtx>>
    BY <1>1, <2>2, <2>3 DEF Dues, passVars
  <2>4. CASE /\ back' = ev
             /\ due' = {d \in Range(ec_map) \X Kinds : FdOf[d[1]] \in ev[d[2]] /\ d[2] \in procs[d[1]]}
             /\ cur' = Head(ec_map) /\ pc' = "visit"
    <3>1. \A d \in due' : /\ d[1] \in Range(ec_map) /\ FdOf[d[1]] \in ev[d[2]] /\ d[2] \in procs[d[1]]
                          /\ NotBefore(ec_map, Head(ec_map), d[1])
      BY <1>1, <2>2, <2>4, HeadIs
    <3> QED
      BY <2>2, <2>4, <3>1 DEF Dues, Listed, Reported
  <2> QED
    BY <2>1, <2>3, <2>4 DEF SelectReports
<1>3. CASE Visit
  <2>1. /\ cur \in Channels /\ Listed(cur) /\ ec_map' = ec_map /\ cur' = cur /\ next' = Following(cur)
        /\ pc = "visit" /\ pc' = "check" /\ kind' = "read" /\ due' = due /\ back' = back /\ procs' = procs
    BY <1>1, <1>3 DEF Visit, Walk, Listed, chanVars
  <2>2. \A y : NotBefore(ec_map, cur, y) =>
          y = cur \/ (Following(cur) # None /\ NotBefore(ec_map, Following(cur), y))
    BY <1>1, <2>1, FollowingIs
  <2>3. KindsAhead' = Kinds
    BY <2>1 DEF KindsAhead, LaterKinds, Kinds
  <2>4. \A d \in due : /\ d[2] \in Kinds /\ Listed(d[1]) /\ Reported(d[1], d[2]) /\ d[2] \in procs[d[1]]
                       /\ NotBefore(ec_map, cur, d[1])
    BY <1>1, <2>1 DEF Dues
  <2> QED
    BY <2>1, <2>2, <2>3, <2>4 DEF Dues, Listed, Reported
<1>4. CASE CallsChannel
  <2>1. /\ pc = "check" /\ pc' = "callback" /\ due' = due \ {<<cur, kind>>}
        /\ UNCHANGED <<ec_map, procs, cur, next, kind, back>>
    BY <1>4 DEF CallsChannel, chanVars
  <2>2. KindsAhead = {kind} \cup LaterKinds(kind) /\ KindsAhead' = LaterKinds(kind)
    BY <2>1 DEF KindsAhead, LaterKinds
  <2>3. \A d \in due : /\ d = <<d[1], d[2]>>
                       /\ Listed(d[1]) /\ Reported(d[1], d[2]) /\ d[2] \in procs[d[1]]
                       /\ \/ d[1] = cur /\ d[2] \in KindsAhead
                          \/ next # None /\ NotBefore(ec_map, next, d[1])
    BY <1>1, <2>1 DEF Dues
  <2> QED
    BY <2>1, <2>2, <2>3 DEF Dues, Listed, Reported
<1>5. CASE SkipsKind \/ CallbackReturns
  <2>1. NextKind /\ UNCHANGED <<ec_map, procs, due>>
    BY <1>5 DEF SkipsKind, CallbackReturns, chanVars
  <2>2. \A d \in due : /\ Reported(d[1], d[2]) /\ d[2] \in procs[d[1]]
                       /\ \/ d[1] = cur /\ d[2] \in KindsAhead
                          \/ next # None /\ NotBefore(ec_map, next, d[1])
    BY <1>1, <1>5 DEF Dues, SkipsKind, CallbackReturns
  <2>3. \A d \in due : d[1] = cur /\ d[2] \in KindsAhead => d[2] \in LaterKinds(kind)
    BY <1>5, <2>2 DEF SkipsKind, CallbackReturns, Calls, KindsAhead
  <2> QED
    BY <2>1, <2>2, <2>3, DuesGoOn
<1>6. CASE ~(Select \/ Visit \/ CallsChannel \/ SkipsKind \/ CallbackReturns)
  <2>1. pc' = pc /\ kind' = kind /\ cur' = cur /\ next' = next /\ back' = back
    BY <1>6, PassStays DEF passVars
  <2>2. \A d \in due' : d \in due /\ d[1] \in Range(ec_map') /\ d[2] \in procs'[d[1]]
    BY <1>6, DuesKept
  <2>3. /\ pc = "visit" => cur \in Range(ec_map')
        /\ pc \in {"check", "callback"} /\ next # None => next \in Range(ec_map')
    BY <2>1, WalkNext DEF Walk, Listed
  <2>4. \A x, y : NotBefore(ec_map, x, y) /\ {x, y} \subseteq Range(ec_map') => NotBefore(ec_map', x, y)
    BY ListSteps
  <2>5. KindsAhead' = KindsAhead
    BY <2>1 DEF KindsAhead, LaterKinds
  <2>6. ASSUME pc = "visit", NEW d \in due' PROVE NotBefore(ec_map', cur, d[1])
    BY <1>1, <2>2, <2>3, <2>4, <2>6 DEF Dues
  <2>7. ASSUME pc \in {"check", "callback"}, NEW d \in due'
        PROVE  (d[1] = cur /\ d[2] \in KindsAhead) \/ (next # None /\ NotBefore(ec_map', next, d[1]))
    <3>1. (d[1] = cur /\ d[2] \in KindsAhead) \/ (next # None /\ NotBefore(ec_map, next, d[1]))
      BY <1>1, <2>2, <2>7 DEF Dues
    <3> QED
      BY <2>2, <2>3, <2>4, <2>7, <3>1
  <2>8. \A d \in due' : Listed(d[1])' /\ Reported(d[1], d[2])' /\ d[2] \in procs'[d[1]]
    BY <1>1, <2>1, <2>2 DEF Dues, Listed, Reported
  <2>9. pc = "idle" => due' = {}
    BY <1>1, <2>2 DEF Dues
  <2> QED
    BY <2>1, <2>5, <2>6, <2>7, <2>8, <2>9 DEF Dues
<1> QED
  BY <1>2, <1>3, <1>4, <1>5, <1>6

-------------------------------------------------------------------------------
(* The theorems that need no hypothesis. *)

LEMMA InvInit == Init => Inv
<1> SUFFICES ASSUME Init PROVE Inv
  OBVIOUS
<1>1. /\ ec_map = <<>> /\ pc = "idle" /\ due = {} /\ fd_mtx = None
      /\ life = [c \in Channels |-> "none"] /\ \A a \in Actors : call[a] = NoCall
  BY DEF Init
<1>2. L \in Actors /\ Range(ec_map) = {}
  BY <1>1 DEF Actors, Range
<1>3. Types
  BY DEF Init, Types, TypeOK, CallRecords, NoCall, NoEvents, Kinds
<1>4. Lists
  BY <1>1, <1>2 DEF Lists, Distinct, Listed
<1>5. Locks
  BY <1>1, <1>2 DEF Locks, InMutex, InPass, NoCall
<1>6. Walk /\ Dues
  BY <1>1 DEF Walk, Dues
<1> QED
  BY <1>3, <1>4, <1>5, <1>6 DEF Inv

LEMMA InvNext == Inv /\ [Next]_vars => Inv'
<1>1. ASSUME Inv, Next PROVE Inv'
  BY <1>1, TypesNext, ListsNext, LocksNext, WalkNext, DuesNext DEF Inv
<1>2. ASSUME Inv, UNCHANGED vars PROVE Inv'
  BY <1>2 DEF Inv, Types, TypeOK, Lists, Locks, Walk, Dues, Listed, InPass, Reported, KindsAhead,
    LaterKinds, vars, chanVars, ioVars, passVars
<1> QED
  BY <1>1, <1>2

LEMMA InvHolds == Spec => []Inv
BY InvInit, InvNext, PTL DEF Spec

\* Types hold (event_channel_map.c, event_io_select.c, event_loop.c).
THEOREM TypesHold == Spec => []TypeOK
<1>1. Inv => TypeOK
  BY DEF Inv, Types
<1> QED
  BY InvHolds, <1>1, PTL

\* event_io_poll delivers every event that select reported before it returns,
\* unless the channel was removed or unmarked, whatever the callbacks and the
\* other threads call.
THEOREM EventsAreServed == Spec => []EventsServed
<1>1. Inv => EventsServed
  BY DEF Inv, Dues, EventsServed, InPass
<1> QED
  BY InvHolds, <1>1, PTL

\* event_channel_map_remove takes the channel off the list that it was called for,
\* although it searches for a descriptor and descriptors are used again.
THEOREM OthersStayListed == Spec => OthersStay
<1>1. ASSUME Inv, [Next]_vars
      PROVE  \A c \in Channels : Listed(c) /\ c \notin Range(ec_map') =>
               \/ life'[c] = "freed"
               \/ \E a \in Actors : call[a].op = "remove_fd" /\ call[a].c = c
  <2>1. SUFFICES ASSUME NEW c \in Channels, Listed(c), c \notin Range(ec_map')
                 PROVE  \/ life'[c] = "freed"
                        \/ \E a \in Actors : call[a].op = "remove_fd" /\ call[a].c = c
    OBVIOUS
  <2>2. Next
    BY <1>1, <2>1 DEF Listed, vars
  <2>3. PICK a \in Actors : Unlists(a, c)
    BY <1>1, <2>1, <2>2, ListSteps DEF Listed
  <2>4. life \in [Channels -> {"none", "open", "freed"}] /\ Types
    BY <1>1 DEF Inv, Types, TypeOK
  <2>5. CASE RemoveChannel(a, c)
    BY <2>4, <2>5 DEF RemoveChannel, FreeMemory
  <2>6. CASE RemoveFdEnds(a) /\ call[a].c = c
    BY <2>4, <2>6, CallFields DEF RemoveFdEnds, Doing, Removals
  <2> QED
    BY <2>3, <2>5, <2>6 DEF Unlists
<1> QED
  BY InvHolds, <1>1, PTL DEF Spec, OthersStay

-------------------------------------------------------------------------------
(* The pass calls no freed channel, when callbacks do not delete theirs with   *)
(* events left.                                                                *)

LEMMA AliveNext ==
  ASSUME Inv, Alive, ~RemovesOwn, Next
  PROVE  Alive'
<1>1. Types /\ Lists /\ Locks /\ Walk /\ L \in Actors /\ None \notin Actors
      /\ life \in [Channels -> {"none", "open", "freed"}]
  BY ChannelPollAssumption DEF Inv, Types, TypeOK, Actors
<1>2. CASE Select
  <2>1. PICK ev \in [Kinds -> SUBSET Fds] : SelectReports(ev)
    BY <1>1, <1>2, SelectIs
  <2> QED
    BY <1>2, <2>1 DEF Select, SelectReports, Alive, passVars
<1>3. CASE Visit
  <2>1. cur \in Channels /\ Listed(cur) /\ cur' = cur /\ life' = life
    BY <1>1, <1>3, InRange DEF Visit, Walk, Listed, chanVars, Types, TypeOK
  <2> QED
    BY <1>1, <2>1 DEF Lists, Alive
<1>4. CASE CallsChannel
  BY <1>4 DEF CallsChannel, Alive, chanVars
<1>5. CASE SkipsKind \/ CallbackReturns
  <2>1. NextKind /\ life' = life /\ pc \in {"check", "callback"} /\ kind \in Kinds
    BY <1>1, <1>5 DEF SkipsKind, CallbackReturns, chanVars, Types, TypeOK
  <2>2. CASE kind # "error"
    <3>1. pc' = "check" /\ cur' = cur /\ back' = back
          /\ kind' = IF kind = "read" THEN "write" ELSE "error"
      BY <2>1, <2>2 DEF NextKind
    <3>2. KindsAhead' \subseteq KindsAhead
      BY <2>1, <2>2, <3>1 DEF KindsAhead, LaterKinds, Kinds
    <3> QED
      BY <2>1, <3>1, <3>2 DEF Alive, Reported
  <2>3. CASE kind = "error"
    BY <2>1, <2>3 DEF NextKind, NextChannel, Alive
  <2> QED
    BY <2>2, <2>3
<1>6. CASE ~(Select \/ Visit \/ CallsChannel \/ SkipsKind \/ CallbackReturns)
  <2>1. pc' = pc /\ kind' = kind /\ cur' = cur /\ back' = back
    BY <1>6, PassStays DEF passVars
  <2>2. KindsAhead' = KindsAhead
    BY <2>1 DEF KindsAhead, LaterKinds
  <2>3. SUFFICES ASSUME pc \in {"check", "callback"}, life[cur] = "open", life'[cur] # "open"
                 PROVE  \A k \in KindsAhead : ~Reported(cur, k)
    BY <2>1, <2>2 DEF Alive, Reported
  <2>4. cur \in Channels /\ InPass /\ fd_mtx = L
    BY <1>1, <2>3 DEF Walk, Locks, InPass
  <2>5. PICK a \in Actors, c \in Channels :
          /\ AddChannelFails(a, c) \/ RemoveChannel(a, c) \/ FreeChannel(a, c)
          /\ life' = [life EXCEPT ![c] = "freed"]
    BY <1>1, <2>3, <2>4, LifeSteps
  <2>6. c = cur
    BY <1>1, <2>3, <2>4, <2>5
  <2>7. MayFree(c)
    BY <1>1, <2>3, <2>4, <2>5, <2>6 DEF AddChannelFails, RemoveChannel, FreeChannel, CanLock
  <2>8. pc = "callback" /\ \A k \in LaterKinds(kind) : ~Reported(c, k)
    BY <2>4, <2>6, <2>7 DEF MayFree
  <2> QED
    BY <2>6, <2>8 DEF KindsAhead
<1> QED
  BY <1>2, <1>3, <1>4, <1>5, <1>6

\* Callbacks may remove channels, their own included unless events are left for
\* it: event_io_poll neither follows the node of a removed channel nor calls a
\* freed one.
THEOREM WalkStaysSafe ==
  ASSUME ~RemovesOwn
  PROVE  Spec => []WalkIsSafe
<1>1. Init => Alive
  BY DEF Init, Alive
<1>2. Inv /\ Alive /\ [Next]_vars => Alive'
  <2>1. ASSUME Alive, UNCHANGED vars PROVE Alive'
    BY <2>1 DEF Alive, Reported, KindsAhead, LaterKinds, vars, chanVars, passVars
  <2> QED
    BY <2>1, AliveNext
<1>3. Inv /\ Alive => WalkIsSafe
  BY DEF Inv, Walk, Alive, WalkIsSafe, KindsAhead
<1> QED
  BY InvHolds, <1>1, <1>2, <1>3, PTL DEF Spec

-------------------------------------------------------------------------------
(* When only L marks channels and calls event_loop_remove_fd: the mutex is not *)
(* what protects the mask, so nobody else may touch it.                        *)

\* Two open channels have two descriptors.
LEMMA FdsApart ==
  ASSUME Inv, NEW c \in Channels, NEW d \in Channels, c # d,
         life[c] = "open", life[d] = "open" \/ Listed(d)
  PROVE  FdOf[c] # FdOf[d]
BY DEF Inv, Lists

\* The call of L, if there is one, is on a listed channel.
LEMMA CallOfL ==
  ASSUME Inv, OnlyL
  PROVE  /\ L \in Actors
         /\ \A c \in Channels : NotInUse(c) <=> c # call[L].c
         /\ call[L] = NoCall =>
              /\ call[L].at = "none" /\ call[L].c = None /\ None \notin Channels
         /\ call[L] # NoCall =>
              /\ call[L].c \in Channels /\ Listed(call[L].c) /\ life[call[L].c] = "open"
<1>1. Types /\ Lists /\ L \in Actors /\ None \notin Channels
  BY ChannelPollAssumption DEF Inv, Actors
<1>2. call[L] # NoCall => call[L].c \in Channels
  BY <1>1, CallFields DEF Removals, Markings
<1>3. \A a \in Apps : call[a].c = None
  BY DEF OnlyL, NoCall
<1>4. \A c \in Channels : NotInUse(c) <=> c # call[L].c
  BY <1>1, <1>3 DEF NotInUse, Actors
<1> QED
  BY <1>1, <1>2, <1>4 DEF OnlyL, Lists, NoCall

\* Adding a channel gives it the bits of its mask, for its descriptor had none.
LEMMA AloneAdd ==
  ASSUME Inv, OnlyL, Bits, Marked, NEW a \in Actors, NEW c \in Channels, AddChannel(a, c)
  PROVE  OnlyL' /\ Bits' /\ Marked'
<1> DEFINE r == call[L]
<1>1. /\ life[c] = "none" /\ (\A d \in Channels : FdOf[d] = FdOf[c] => life[d] # "open")
      /\ mask' = [mask EXCEPT ![c] = {"read", "error"}]
      /\ procs' = [procs EXCEPT ![c] = {"read"}]
      /\ fds' = [k \in Kinds |-> IF k \in {"read", "error"} THEN fds[k] \cup {FdOf[c]} ELSE fds[k]]
      /\ call' = call /\ ec_map' = Append(ec_map, c)
  BY DEF AddChannel, MapAdd, SetBits
<1>2. /\ mask \in [Channels -> SUBSET Kinds] /\ procs \in [Channels -> SUBSET Kinds]
      /\ ec_map \in Seq(Channels) /\ Range(ec_map) \subseteq Channels
      /\ \A d \in Channels : Listed(d) => life[d] = "open"
  BY InRange DEF Inv, Types, TypeOK, Lists
<1>3. Range(ec_map') = Range(ec_map) \cup {c}
  BY <1>1, <1>2, Added DEF Inv, Lists, Listed
<1>4. \A d \in Channels : Listed(d) => d # c /\ FdOf[d] # FdOf[c] /\ mask'[d] = mask[d] /\ procs'[d] = procs[d]
                                       /\ \A k \in Kinds : FdOf[d] \in fds'[k] <=> FdOf[d] \in fds[k]
  BY <1>1, <1>2
<1>5. \A k \in Kinds : FdOf[c] \notin fds[k]
  <2>1. \A k \in Kinds : \A f \in fds[k] : \E d \in Range(ec_map) : FdOf[d] = f
    BY DEF Bits
  <2>2. \A d \in Range(ec_map) : FdOf[d] # FdOf[c]
    BY <1>1, <1>2 DEF Listed
  <2> QED
    BY <2>1, <2>2
<1>6. r # NoCall => r.c \in Channels /\ Listed(r.c)
  BY CallOfL
<1>7. r = NoCall => r.at = "none"
  BY CallOfL
<1>8. OnlyL'
  BY <1>1, <1>3 DEF OnlyL, Listed
<1>9. Bits'
  <2>1. ASSUME NEW d \in Channels, NEW k \in Kinds, d \in Range(ec_map'), d # r.c
        PROVE  FdOf[d] \in fds'[k] <=> k \in mask'[d]
    <3>1. CASE d = c
      BY <1>1, <1>2, <1>5, <3>1 DEF Kinds
    <3>2. CASE d # c
      BY <1>3, <1>4, <2>1, <3>2 DEF Bits, Listed
    <3> QED
      BY <3>1, <3>2
  <2>2. \A k \in Kinds : \A f \in fds'[k] : \E d \in Range(ec_map') : FdOf[d] = f
    BY <1>1, <1>3 DEF Bits
  <2>3. r.at = "remove" =>
          /\ r.old \cap mask'[r.c] = {}
          /\ \A k \in Kinds \ mask'[r.c] : FdOf[r.c] \in fds'[k] <=> k \in r.old
    BY <1>4, <1>6, <1>7 DEF Bits
  <2>4. /\ r.at = "clear" => mask'[r.c] = Kinds
        /\ r.at \in {"restore", "add"} => \A k \in Kinds : FdOf[r.c] \notin fds'[k]
    BY <1>4, <1>6, <1>7 DEF Bits
  <2> QED
    BY <1>1, <2>1, <2>2, <2>3, <2>4 DEF Bits, Listed
<1>10. Marked'
  <2>1. r.at # "none" => mask'[r.c] = mask[r.c] /\ procs'[r.c] = procs[r.c]
    BY <1>4, <1>6, <1>7
  <2> QED
    BY <1>1, <2>1 DEF Marked
<1> QED
  BY <1>8, <1>9, <1>10

\* Removing a channel clears its bits, and those of no other.
LEMMA AloneRemove ==
  ASSUME Inv, OnlyL, Bits, Marked, NEW a \in Actors, NEW c \in Channels, RemoveChannel(a, c)
  PROVE  OnlyL' /\ Bits' /\ Marked'
<1> DEFINE r == call[L]
<1>1. /\ NotInUse(c) /\ life[c] = "open" /\ Listed(c)
      /\ mask' = [mask EXCEPT ![c] = {}] /\ procs' = [procs EXCEPT ![c] = {}]
      /\ fds' = [k \in Kinds |-> IF k \in mask[c] THEN fds[k] \ {FdOf[c]} ELSE fds[k]]
      /\ call' = call /\ ec_map' = MapRemove(FdOf[c])
  BY DEF RemoveChannel, FreeMemory, ClearBits
<1>2. /\ mask \in [Channels -> SUBSET Kinds] /\ procs \in [Channels -> SUBSET Kinds]
      /\ Range(ec_map) \subseteq Channels
  BY InRange DEF Inv, Types, TypeOK
<1>3. Range(ec_map') = Range(ec_map) \ {c}
  BY <1>1, RemovedByFd DEF Inv
<1>4. \A d \in Channels : Listed(d) /\ d # c =>
        /\ FdOf[d] # FdOf[c] /\ mask'[d] = mask[d] /\ procs'[d] = procs[d]
        /\ \A k \in Kinds : FdOf[d] \in fds'[k] <=> FdOf[d] \in fds[k]
  BY <1>1, <1>2, FdsApart
<1>5. c # r.c
  BY <1>1, CallOfL
<1>6. \A k \in Kinds : FdOf[c] \notin fds'[k]
  BY <1>1, <1>5 DEF Bits
<1>7. r # NoCall => r.c \in Channels /\ Listed(r.c)
  BY CallOfL
<1>8. r = NoCall => r.at = "none"
  BY CallOfL
<1>9. OnlyL'
  BY <1>1, <1>3, <1>5 DEF OnlyL, Listed
<1>10. Bits'
  <2>1. \A d \in Channels, k \in Kinds : d \in Range(ec_map') /\ d # r.c =>
          (FdOf[d] \in fds'[k] <=> k \in mask'[d])
    BY <1>3, <1>4 DEF Bits, Listed
  <2>2. ASSUME NEW k \in Kinds, NEW f \in fds'[k] PROVE \E d \in Range(ec_map') : FdOf[d] = f
    <3>1. f \in fds[k] /\ f # FdOf[c]
      BY <1>1, <1>6, <2>2
    <3> QED
      BY <1>3, <3>1 DEF Bits
  <2>3. r.at = "remove" =>
          /\ r.old \cap mask'[r.c] = {}
          /\ \A k \in Kinds \ mask'[r.c] : FdOf[r.c] \in fds'[k] <=> k \in r.old
    BY <1>4, <1>5, <1>7, <1>8 DEF Bits
  <2>4. /\ r.at = "clear" => mask'[r.c] = Kinds
        /\ r.at \in {"restore", "add"} => \A k \in Kinds : FdOf[r.c] \notin fds'[k]
    BY <1>4, <1>5, <1>7, <1>8 DEF Bits
  <2> QED
    BY <1>1, <2>1, <2>2, <2>3, <2>4 DEF Bits, Listed
<1>11. Marked'
  <2>1. r.at # "none" => mask'[r.c] = mask[r.c] /\ procs'[r.c] = procs[r.c]
    BY <1>4, <1>5, <1>7, <1>8
  <2> QED
    BY <1>1, <2>1 DEF Marked
<1> QED
  BY <1>9, <1>10, <1>11

\* Freeing a channel that is not listed touches nothing that the set is about.
LEMMA AloneFree ==
  ASSUME Inv, OnlyL, Bits, Marked, NEW a \in Actors, NEW c \in Channels,
         AddChannelFails(a, c) \/ FreeChannel(a, c)
  PROVE  OnlyL' /\ Bits' /\ Marked'
<1>1. /\ ~Listed(c)
      /\ mask' = [mask EXCEPT ![c] = {}] /\ procs' = [procs EXCEPT ![c] = {}]
      /\ fds' = fds /\ call' = call /\ ec_map' = ec_map
  BY DEF AddChannelFails, FreeChannel, FreeMemory, ioVars, Inv, Lists
<1>2. /\ mask \in [Channels -> SUBSET Kinds] /\ procs \in [Channels -> SUBSET Kinds]
  BY DEF Inv, Types, TypeOK
<1>3. \A d \in Channels : Listed(d) => mask'[d] = mask[d] /\ procs'[d] = procs[d]
  BY <1>1, <1>2
<1>4. call[L].at # "none" => mask'[call[L].c] = mask[call[L].c] /\ procs'[call[L].c] = procs[call[L].c]
  BY <1>3, CallOfL
<1> QED
  BY <1>1, <1>3, <1>4 DEF OnlyL, Bits, Marked, Listed

\* A call begins: event_loop_remove_fd has exchanged the mask for what it clears.
LEMMA AloneBegins ==
  ASSUME Inv, OnlyL, Bits, Marked, ~SharesChannels, NEW a \in Actors, NEW c \in Channels,
         (\E m \in Masks : RemoveFdBegins(a, c, m)) \/ \E op \in {"mark", "unmark"} : Mark(a, c, op)
  PROVE  OnlyL' /\ Bits' /\ Marked'
<1>1. /\ mask \in [Channels -> SUBSET Kinds] /\ call \in [Actors -> CallRecords]
      /\ Range(ec_map) \subseteq Channels /\ L \in Actors /\ L \notin Apps /\ Apps \subseteq Actors
  BY InRange, ChannelPollAssumption DEF Inv, Types, TypeOK, Actors
<1>2. a = L /\ call[L] = NoCall /\ Listed(c) /\ ec_map' = ec_map /\ fds' = fds /\ procs' = procs
  BY DEF RemoveFdBegins, Mark, MayCall, ioVars, chanVars
<1>3. \A d \in Channels, k \in Kinds : Listed(d) => (FdOf[d] \in fds[k] <=> k \in mask[d])
  BY <1>2, CallOfL DEF Bits
<1>4. /\ call'[L].c = c /\ call'[L].at \in {"remove", "store"}
      /\ \A b \in Apps : call'[b] = call[b]
  BY <1>1, <1>2, BeginIs
<1>5. OnlyL' /\ Marked'
  BY <1>2, <1>4 DEF OnlyL, Marked, Listed
<1>6. CASE \E m \in Masks : RemoveFdBegins(a, c, m)
  <2>1. PICK m \in Masks : RemoveFdBegins(a, c, m)
    BY <1>6
  <2>2. mask' = [mask EXCEPT ![c] = m] /\ m \subseteq Kinds /\ call'[L].old = mask[c] \ m
        /\ call'[L].at = "remove"
    BY <1>1, <1>2, <2>1, ChannelPollAssumption DEF RemoveFdBegins
  <2>3. \A d \in Channels, k \in Kinds : Listed(d) /\ d # c => (FdOf[d] \in fds[k] <=> k \in mask'[d])
    BY <1>1, <1>3, <2>2
  <2>4. mask'[c] = m
    BY <1>1, <2>2
  <2> QED
    BY <1>2, <1>3, <1>4, <1>5, <2>2, <2>3, <2>4 DEF Bits, Listed
<1>7. CASE \E op \in {"mark", "unmark"} : Mark(a, c, op)
  <2>1. mask' = mask /\ call'[L].at = "store"
    BY <1>1, <1>2, <1>7 DEF Mark, chanVars
  <2> QED
    BY <1>2, <1>3, <1>4, <1>5, <2>1 DEF Bits, Listed
<1> QED
  BY <1>6, <1>7

\* event_loop_remove_fd ends: the bits that are left are those of the mask.
LEMMA AloneRemoveFd ==
  ASSUME Inv, OnlyL, Bits, Marked, RemoveFdEnds(L)
  PROVE  OnlyL' /\ Bits' /\ Marked'
<1> DEFINE c == call[L].c
           m == mask[c]
           rest == call[L].old
<1>1. Types /\ L \in Actors /\ None \notin Channels /\ L \notin Apps /\ Apps \subseteq Actors
      /\ mask \in [Channels -> SUBSET Kinds] /\ Range(ec_map) \subseteq Channels
  BY InRange, ChannelPollAssumption DEF Inv, Types, TypeOK, Actors
<1>2. call[L].at = "remove" /\ c \in Channels /\ Listed(c) /\ life[c] = "open"
  BY <1>1, CallOfL DEF RemoveFdEnds, Doing, NoCall
<1>3. /\ mask' = [mask EXCEPT ![c] = rest] /\ rest \subseteq Kinds
      /\ fds' = [k \in Kinds |-> IF k \in m THEN fds[k] \ {FdOf[c]} ELSE fds[k]]
      /\ ec_map' = IF rest = {} THEN MapRemove(FdOf[c]) ELSE ec_map
  BY <1>1, CallFields DEF RemoveFdEnds, ClearBits
<1>4. rest \cap m = {} /\ \A k \in Kinds \ m : FdOf[c] \in fds[k] <=> k \in rest
  BY <1>2 DEF Bits
<1>5. call'[L] = NoCall /\ \A b \in Apps : call'[b] = call[b]
  BY <1>1, CallEnds DEF RemoveFdEnds
<1>6. \A k \in Kinds : FdOf[c] \in fds'[k] <=> k \in rest
  BY <1>3, <1>4
<1>7. \A d \in Channels : Listed(d) /\ d # c =>
        /\ mask'[d] = mask[d]
        /\ \A k \in Kinds : FdOf[d] \in fds'[k] <=> k \in mask[d]
  BY <1>1, <1>2, <1>3, FdsApart DEF Bits
<1>8. Range(ec_map') = IF rest = {} THEN Range(ec_map) \ {c} ELSE Range(ec_map)
  BY <1>2, <1>3, RemovedByFd DEF Inv
<1>9. mask'[c] = rest
  BY <1>1, <1>2, <1>3
<1>10. OnlyL' /\ Marked'
  BY <1>5 DEF OnlyL, Marked, NoCall
<1>11. \A d \in Channels, k \in Kinds : d \in Range(ec_map') => (FdOf[d] \in fds'[k] <=> k \in mask'[d])
  BY <1>6, <1>7, <1>8, <1>9 DEF Listed
<1>12. ASSUME NEW k \in Kinds, NEW f \in fds'[k] PROVE \E d \in Range(ec_map') : FdOf[d] = f
  <2>1. f \in fds[k]
    BY <1>3, <1>12
  <2>2. PICK d \in Range(ec_map) : FdOf[d] = f
    BY <2>1 DEF Bits
  <2>3. d = c => rest # {}
    BY <1>6, <1>12, <2>2
  <2> QED
    BY <1>8, <2>2, <2>3
<1> QED
  BY <1>5, <1>10, <1>11, <1>12 DEF Bits, Listed, NoCall

\* A stage of mark or unmark before the mutex, or between the two changes of the
\* sets: the sets stay, and no other mask changes.
LEMMA AloneMasks ==
  ASSUME Inv, OnlyL, Bits, Marked,
         StoreMask(L) \/ StoreProc(L) \/ ReadOrigin(L) \/ MaskAll(L) \/ RestoreMask(L)
  PROVE  OnlyL' /\ Bits' /\ Marked'
<1> DEFINE c == call[L].c
<1>1. Types /\ L \in Actors /\ None \notin Channels /\ L \notin Apps /\ Apps \subseteq Actors
      /\ mask \in [Channels -> SUBSET Kinds] /\ procs \in [Channels -> SUBSET Kinds]
      /\ call \in [Actors -> CallRecords]
  BY ChannelPollAssumption DEF Inv, Types, TypeOK, Actors
<1>2. call[L] \in Markings /\ c \in Channels /\ Listed(c)
  BY <1>1, CallFields, CallOfL DEF StoreMask, StoreProc, ReadOrigin, MaskAll, RestoreMask, Doing
<1>3. ec_map' = ec_map /\ fds' = fds
  BY DEF StoreMask, StoreProc, ReadOrigin, MaskAll, RestoreMask, ioVars
<1>4. /\ call'[L].c = c /\ call'[L].op = call[L].op /\ \A b \in Apps : call'[b] = call[b]
      /\ StoreMask(L) => call'[L].at = "proc" /\ call[L].at = "store"
      /\ StoreProc(L) => call'[L].at = "origin" /\ call[L].at = "proc"
      /\ ReadOrigin(L) => call'[L].at = "lock" /\ call[L].at = "origin" /\ call'[L].old = mask[c]
      /\ MaskAll(L) => call'[L].at = "clear" /\ call[L].at = "lock" /\ call'[L].old = call[L].old
      /\ RestoreMask(L) => call'[L].at = "add" /\ call[L].at = "restore" /\ call'[L].old = call[L].old
  <2>1. CASE StoreMask(L)
    BY <1>1, <1>2, <2>1, GoesOn DEF StoreMask, StoreProc, ReadOrigin, MaskAll, RestoreMask, Doing
  <2>2. CASE StoreProc(L)
    BY <1>1, <1>2, <2>2, GoesOn DEF StoreMask, StoreProc, ReadOrigin, MaskAll, RestoreMask, Doing
  <2>3. CASE ReadOrigin(L)
    BY <1>1, <1>2, <2>3 DEF StoreMask, StoreProc, ReadOrigin, MaskAll, RestoreMask, Doing, Markings
  <2>4. CASE MaskAll(L)
    BY <1>1, <1>2, <2>4, GoesOn DEF StoreMask, StoreProc, ReadOrigin, MaskAll, RestoreMask, Doing
  <2>5. CASE RestoreMask(L)
    BY <1>1, <1>2, <2>5, GoesOn DEF StoreMask, StoreProc, ReadOrigin, MaskAll, RestoreMask, Doing
  <2> QED
    BY <2>1, <2>2, <2>3, <2>4, <2>5
<1>5. \A d \in Channels : d # c => mask'[d] = mask[d]
  BY <1>1 DEF StoreMask, StoreProc, ReadOrigin, MaskAll, RestoreMask, chanVars
<1>6. OnlyL'
  BY <1>2, <1>3, <1>4 DEF OnlyL, Listed
<1>7. /\ \A d \in Channels, k \in Kinds : Listed(d) /\ d # c => (FdOf[d] \in fds[k] <=> k \in mask'[d])
      /\ \A k \in Kinds : \A f \in fds[k] : \E d \in Range(ec_map) : FdOf[d] = f
  BY <1>5 DEF Bits
<1>8. MaskAll(L) => mask'[c] = Kinds
  BY <1>1, <1>2 DEF MaskAll
<1>9. RestoreMask(L) => \A k \in Kinds : FdOf[c] \notin fds[k]
  BY <1>4 DEF Bits
<1>10. Bits'
  BY <1>3, <1>4, <1>7, <1>8, <1>9 DEF Bits, Listed
<1>11. Marked'
  <2> DEFINE want == call[L].op = "mark"
  <2>1. CASE StoreMask(L)
    <3>1. mask' = [mask EXCEPT ![c] = IF want THEN call[L].old \cup {"write"} ELSE call[L].old \ {"write"}]
      BY <2>1 DEF StoreMask
    <3> QED
      BY <1>1, <1>2, <1>4, <2>1, <3>1 DEF Marked
  <2>2. CASE StoreProc(L)
    <3>1. procs' = [procs EXCEPT ![c] = IF want THEN @ \cup {"write"} ELSE @ \ {"write"}] /\ mask' = mask
      BY <2>2 DEF StoreProc
    <3> QED
      BY <1>1, <1>2, <1>4, <2>2, <3>1 DEF Marked
  <2>3. CASE ReadOrigin(L)
    <3>1. mask' = mask /\ procs' = procs
      BY <2>3 DEF ReadOrigin, chanVars
    <3> QED
      BY <1>4, <2>3, <3>1 DEF Marked
  <2>4. CASE MaskAll(L)
    <3>1. procs' = procs
      BY <2>4 DEF MaskAll
    <3> QED
      BY <1>4, <2>4, <3>1 DEF Marked
  <2>5. CASE RestoreMask(L)
    <3>1. procs' = procs /\ mask' = [mask EXCEPT ![c] = call[L].old]
      BY <2>5 DEF RestoreMask
    <3> QED
      BY <1>1, <1>2, <1>4, <2>5, <3>1 DEF Marked
  <2> QED
    BY <2>1, <2>2, <2>3, <2>4, <2>5
<1> QED
  BY <1>6, <1>10, <1>11

\* While the mask is everything all bits of the channel are cleared; then those of
\* its mask are set.
LEMMA AloneSets ==
  ASSUME Inv, OnlyL, Bits, Marked, ClearAll(L) \/ AddBits(L)
  PROVE  OnlyL' /\ Bits' /\ Marked'
<1> DEFINE c == call[L].c
<1>1. Types /\ L \in Actors /\ None \notin Channels /\ L \notin Apps /\ Apps \subseteq Actors
      /\ Range(ec_map) \subseteq Channels
  BY InRange, ChannelPollAssumption DEF Inv, Types, TypeOK, Actors
<1>2. call[L] \in Markings /\ c \in Channels /\ Listed(c) /\ life[c] = "open"
  BY <1>1, CallFields, CallOfL DEF ClearAll, AddBits, Doing
<1>3. ec_map' = ec_map /\ mask' = mask /\ procs' = procs
  BY DEF ClearAll, AddBits, chanVars
<1>4. CASE ClearAll(L)
  <2>1. /\ call'[L].c = c /\ call'[L].op = call[L].op /\ \A b \in Apps : call'[b] = call[b]
        /\ call'[L].at = "restore" /\ call[L].at = "clear" /\ call'[L].old = call[L].old
    BY <1>1, <1>2, <1>4, GoesOn DEF ClearAll, Doing
  <2>2. fds' = [k \in Kinds |-> fds[k] \ {FdOf[c]}]
    <3>1. mask[c] = Kinds
      BY <2>1 DEF Bits
    <3> QED
      BY <1>4, <3>1 DEF ClearAll, ClearBits
  <2>3. \A d \in Channels, k \in Kinds : Listed(d) /\ d # c => (FdOf[d] \in fds'[k] <=> k \in mask[d])
    BY <1>2, <2>2, FdsApart DEF Bits
  <2>4. \A k \in Kinds : \A f \in fds'[k] : \E d \in Range(ec_map) : FdOf[d] = f
    BY <2>2 DEF Bits
  <2>5. \A k \in Kinds : FdOf[c] \notin fds'[k]
    BY <2>2
  <2>6. Bits'
    BY <1>3, <2>1, <2>3, <2>4, <2>5 DEF Bits, Listed
  <2>7. OnlyL' /\ Marked'
    BY <1>2, <1>3, <2>1 DEF OnlyL, Marked, Listed
  <2> QED
    BY <2>6, <2>7
<1>5. CASE AddBits(L)
  <2>1. call'[L] = NoCall /\ (\A b \in Apps : call'[b] = call[b]) /\ call[L].at = "add"
    BY <1>1, <1>5, CallEnds DEF AddBits, Doing
  <2>2. fds' = [k \in Kinds |-> IF k \in mask[c] THEN fds[k] \cup {FdOf[c]} ELSE fds[k]]
    BY <1>5 DEF AddBits, SetBits
  <2>3. \A d \in Channels, k \in Kinds : Listed(d) /\ d # c => (FdOf[d] \in fds'[k] <=> k \in mask[d])
    BY <1>2, <2>2, FdsApart DEF Bits
  <2>4. \A k \in Kinds : FdOf[c] \in fds'[k] <=> k \in mask[c]
    BY <2>1, <2>2 DEF Bits
  <2>5. \A k \in Kinds : \A f \in fds'[k] : \E d \in Range(ec_map) : FdOf[d] = f
    BY <1>2, <2>2 DEF Bits, Listed
  <2>6. \A d \in Channels, k \in Kinds : Listed(d) => (FdOf[d] \in fds'[k] <=> k \in mask[d])
    BY <2>3, <2>4
  <2>7. Bits'
    BY <1>3, <2>1, <2>5, <2>6 DEF Bits, Listed, NoCall
  <2>8. OnlyL' /\ Marked'
    BY <2>1 DEF OnlyL, Marked, NoCall
  <2> QED
    BY <2>7, <2>8
<1> QED
  BY <1>4, <1>5

LEMMA AloneNext ==
  ASSUME Inv, OnlyL, Bits, Marked, ~SharesChannels, Next
  PROVE  OnlyL' /\ Bits' /\ Marked'
<1>1. CASE Select \/ Visit \/ CallsChannel \/ SkipsKind \/ CallbackReturns
  <2>1. UNCHANGED <<ec_map, mask, procs, fds, call>>
    BY <1>1, Zenon DEF Select, Visit, CallsChannel, SkipsKind, CallbackReturns, chanVars, ioVars
  <2> QED
    BY <2>1 DEF OnlyL, Bits, Marked, Listed
<1>2. ASSUME NEW a \in Actors, CallSteps(a) PROVE OnlyL' /\ Bits' /\ Marked'
  <2>1. a = L
    BY <1>2, CallStepIs DEF OnlyL, Actors
  <2> QED
    BY <1>2, <2>1, AloneRemoveFd, AloneMasks, AloneSets DEF CallSteps
<1>3. ASSUME NEW a \in Actors, NEW c \in Channels,
             AddChannel(a, c) \/ AddChannelFails(a, c) \/ RemoveChannel(a, c) \/ FreeChannel(a, c)
      PROVE  OnlyL' /\ Bits' /\ Marked'
  BY <1>3, AloneAdd, AloneRemove, AloneFree
<1>4. ASSUME NEW a \in Actors, NEW c \in Channels,
             (\E m \in Masks : RemoveFdBegins(a, c, m)) \/ \E op \in {"mark", "unmark"} : Mark(a, c, op)
      PROVE  OnlyL' /\ Bits' /\ Marked'
  BY <1>4, AloneBegins
<1> QED
  BY <1>1, <1>2, <1>3, <1>4 DEF Next

LEMMA AloneHolds ==
  ASSUME ~SharesChannels
  PROVE  Spec => [](Inv /\ OnlyL /\ Bits /\ Marked)
<1>1. Init => OnlyL /\ Bits /\ Marked
  <2> SUFFICES ASSUME Init PROVE OnlyL /\ Bits /\ Marked
    OBVIOUS
  <2>1. /\ \A a \in Actors : call[a] = NoCall
        /\ \A k \in Kinds : fds[k] = {}
        /\ Range(ec_map) = {} /\ Actors = {L} \cup Apps
    BY DEF Init, NoEvents, Range, Actors
  <2> QED
    BY <2>1 DEF OnlyL, Bits, Marked, NoCall, Listed
<1>2. Inv /\ (OnlyL /\ Bits /\ Marked) /\ [Next]_vars => (OnlyL /\ Bits /\ Marked)'
  <2>1. ASSUME OnlyL, Bits, Marked, UNCHANGED vars PROVE OnlyL' /\ Bits' /\ Marked'
    BY <2>1 DEF OnlyL, Bits, Marked, Listed, vars, chanVars, ioVars
  <2> QED
    BY <2>1, AloneNext
<1> QED
  BY InvHolds, <1>1, <1>2, PTL DEF Spec

\* What a step does to the sets and to max_fd: max_fd is computed again by the
\* next select after any change of the sets.
LEMMA SetsSteps ==
  ASSUME Next
  PROVE  is_dirty' = TRUE \/ UNCHANGED ioVars \/ Select
<1>1. CASE Visit \/ CallsChannel \/ SkipsKind \/ CallbackReturns
  BY <1>1, Zenon DEF Visit, CallsChannel, SkipsKind, CallbackReturns
<1>2. ASSUME NEW a \in Actors, CallSteps(a) PROVE is_dirty' = TRUE \/ UNCHANGED ioVars
  BY <1>2, Zenon DEF CallSteps, RemoveFdEnds, StoreMask, StoreProc, ReadOrigin, MaskAll, ClearAll,
    RestoreMask, AddBits, ClearBits, SetBits
<1>3. ASSUME NEW a \in Actors, NEW c \in Channels,
             \/ AddChannel(a, c) \/ AddChannelFails(a, c) \/ RemoveChannel(a, c) \/ FreeChannel(a, c)
             \/ \E m \in Masks : RemoveFdBegins(a, c, m)
             \/ \E op \in {"mark", "unmark"} : Mark(a, c, op)
      PROVE  is_dirty' = TRUE \/ UNCHANGED ioVars
  BY <1>3, Zenon DEF AddChannel, AddChannelFails, RemoveChannel, FreeChannel, RemoveFdBegins, Mark,
    ClearBits, SetBits
<1> QED
  BY <1>1, <1>2, <1>3, Zenon DEF Next

\* When only the loop's thread marks channels and calls event_loop_remove_fd, the
\* sets given to select are those of the masks, and hold no closed descriptor.
THEOREM SetsAreThoseOfMasks ==
  ASSUME ~SharesChannels
  PROVE  Spec => []SetsMatchMasks
<1>1. Inv /\ OnlyL /\ Bits => SetsMatchMasks
  BY CallOfL DEF Bits, SetsMatchMasks
<1> QED
  BY AloneHolds, <1>1, PTL

\* The value cached in max_fd, when it is used, covers the sets.
THEOREM MaxFdAlwaysCovers ==
  ASSUME ~SharesChannels
  PROVE  Spec => []MaxFdCovers
<1>1. Init => MaxFdCovers
  BY DEF Init, MaxFdCovers
<1>2. Inv /\ Bits /\ MaxFdCovers /\ [Next]_vars => MaxFdCovers'
  <2>1. ASSUME MaxFdCovers, UNCHANGED ioVars PROVE MaxFdCovers'
    <3>1. fds' = fds /\ max_fd' = max_fd /\ (is_dirty' <=> is_dirty)
      BY <2>1, Zenon DEF ioVars
    <3> QED
      BY <2>1, <3>1, Zenon DEF MaxFdCovers
  <2>2. ASSUME Inv, Bits, MaxFdCovers, Select PROVE MaxFdCovers'
    <3>1. fds' = fds /\ max_fd' = IF is_dirty THEN MaxFd(ec_map) ELSE max_fd
      BY <2>2, Zenon DEF Select
    <3>2. CASE is_dirty
      <4>1. max_fd' = MaxFd(ec_map)
        BY <3>1, <3>2, Zenon
      <4>2. \A k \in Kinds : \A f \in fds[k] : f <= MaxFd(ec_map)
        BY <2>2, MaxFdIs DEF Bits, Inv, Types, TypeOK
      <4> QED
        BY <3>1, <4>1, <4>2, Zenon DEF MaxFdCovers
    <3>3. CASE ~is_dirty
      BY <2>2, <3>1, <3>3, Zenon DEF MaxFdCovers
    <3> QED
      BY <3>2, <3>3
  <2>3. is_dirty' = TRUE => MaxFdCovers'
    BY Zenon DEF MaxFdCovers
  <2>4. UNCHANGED vars => UNCHANGED ioVars
    BY DEF vars
  <2> QED
    BY <2>1, <2>2, <2>3, <2>4, SetsSteps
<1> QED
  BY AloneHolds, <1>1, <1>2, PTL DEF Spec

\* A call of mark or unmark that returns has made the interest in writing agree
\* with the callback for it.
THEOREM MarksTakeTheirEffect ==
  ASSUME ~SharesChannels
  PROVE  Spec => MarksTakeEffect
<1>1. ASSUME Inv, OnlyL, Marked, [Next]_vars
      PROVE  \A a \in Actors :
               LET c == call[a].c
               IN  call[a].op \in {"mark", "unmark"} /\ c \notin {call'[b].c : b \in Actors}
                     => ("write" \in mask'[c] <=> "write" \in procs'[c])
  <2>1. SUFFICES ASSUME NEW a \in Actors, call[a].op \in {"mark", "unmark"},
                        call[a].c \notin {call'[b].c : b \in Actors}
                 PROVE  "write" \in mask'[call[a].c] <=> "write" \in procs'[call[a].c]
    OBVIOUS
  <2>2. call[a] # NoCall /\ a = L /\ call[a] \in Markings
    BY <1>1, <2>1, CallFields DEF OnlyL, Actors, NoCall, Inv, Removals
  <2>3. call'[L].c # call[L].c
    BY <2>1, <2>2
  <2>4. Next /\ call' # call
    BY <1>1, <2>3 DEF vars
  <2>5. AddBits(L)
    <3>1. ~(Select \/ Visit \/ CallsChannel \/ SkipsKind \/ CallbackReturns)
      BY <1>1, <2>4, PassAlone
    <3>2. ASSUME NEW b \in Actors, NEW c \in Channels
          PROVE  ~(AddChannel(b, c) \/ AddChannelFails(b, c) \/ RemoveChannel(b, c) \/ FreeChannel(b, c))
      BY <2>4, Zenon DEF AddChannel, AddChannelFails, RemoveChannel, FreeChannel
    <3>3. ASSUME NEW b \in Actors, NEW c \in Channels
          PROVE  ~((\E m \in Masks : RemoveFdBegins(b, c, m)) \/ \E op \in {"mark", "unmark"} : Mark(b, c, op))
      BY <1>1, <2>2, <2>3, BeginIs DEF MayCall
    <3>4. ASSUME NEW b \in Actors, CallSteps(b) PROVE AddBits(L)
      <4>1. b = L
        BY <1>1, <3>4, CallStepIs DEF OnlyL, Actors
      <4>2. call[L].op # "remove_fd" /\ Types
        BY <1>1, <2>1, <2>2 DEF Inv
      <4>3. ~RemoveFdEnds(L)
        BY <4>2, <2>2, CallFields DEF RemoveFdEnds, Doing, Removals
      <4>4. ~ReadOrigin(L)
        BY <2>2, <2>3, <4>2 DEF ReadOrigin, Types, Markings
      <4>5. ~(StoreMask(L) \/ StoreProc(L) \/ MaskAll(L) \/ ClearAll(L) \/ RestoreMask(L))
        BY <2>2, <2>3, <4>2, GoesOn DEF StoreMask, StoreProc, MaskAll, ClearAll, RestoreMask
      <4> QED
        BY <3>4, <4>1, <4>3, <4>4, <4>5 DEF CallSteps
    <3> QED
      BY <2>4, <3>1, <3>2, <3>3, <3>4, Zenon DEF Next
  <2>6. call[L].at = "add" /\ mask' = mask /\ procs' = procs
    BY <2>5 DEF AddBits, Doing, chanVars
  <2> QED
    BY <1>1, <2>2, <2>6 DEF Marked
<1> QED
  BY AloneHolds, <1>1, PTL DEF Spec, MarksTakeEffect

===============================================================================
