---------------------------- MODULE BufferPipeProof ----------------------------
(***************************************************************************)
(* Proofs about BufferPipe, for all bytes, chunks and bucket lengths: the  *)
(* block is used inside its bounds, what was read can be put back without  *)
(* more memory, and the pipe implements a queue of bytes.                  *)
(***************************************************************************)
EXTENDS BufferPipe, SequenceTheorems, TLAPS

\* The first n bytes of a block, as a sequence.
LEMMA BytesOfBlock ==
  ASSUME NEW n \in Nat, NEW d, \A i \in 0..(n - 1) : d[i] \in Bytes
  PROVE  /\ [i \in 1..n |-> d[i - 1]] \in Seq(Bytes)
         /\ Len([i \in 1..n |-> d[i - 1]]) = n
         /\ \A i \in 1..n : [j \in 1..n |-> d[j - 1]][i] = d[i - 1]
  <1> DEFINE s == [i \in 1..n |-> d[i - 1]]
  <1>1. \A i \in 1..n : d[i - 1] \in Bytes
    OBVIOUS
  <1>2. s \in [1..n -> Bytes]
    BY <1>1
  <1>3. s \in Seq(Bytes)
    BY <1>2, SeqDef, Zenon
  <1>4. Len(s) = n
    BY <1>2, <1>3
  <1> QED
    BY <1>3, <1>4

\* The bytes in use, byte by byte.
LEMMA BytesHeld ==
  ASSUME TypeOK, HoldsBytes
  PROVE  /\ Contents \in Seq(Bytes) /\ Len(Contents) = length
         /\ \A i \in 1..length : Contents[i] = data[i - 1]
         /\ \A i \in 0..(length - 1) : data[i] \in Bytes
  <1>1. length \in Nat /\ Contents \in Seq(Bytes)
    BY DEF TypeOK, HoldsBytes
  <1>2. DOMAIN Contents = 1..length
    BY DEF Contents
  <1>3. Len(Contents) = length
    BY <1>1, <1>2, LenProperties
  <1>4. \A i \in 1..length : Contents[i] = data[i - 1]
    BY DEF Contents
  <1>5. \A i \in 1..length : Contents[i] \in Bytes
    BY <1>1, <1>3, ElementOfSeq
  <1>6. ASSUME NEW i \in 0..(length - 1) PROVE data[i] \in Bytes
    <2>1. i + 1 \in 1..length /\ (i + 1) - 1 = i
      BY <1>1
    <2> QED
      BY <2>1, <1>4, <1>5
  <1> QED
    BY <1>1, <1>3, <1>4, <1>6

\* The memory that a write works on has room for it and holds the same bytes.
LEMMA RoomInBlock ==
  ASSUME TypeOK, HoldsBytes, NEW n \in Nat
  PROVE  /\ Size(n) \in Nat /\ length + n <= Size(n)
         /\ Block(n) \in [0..(Size(n) - 1) -> Bytes \cup {Junk}]
         /\ \A i \in 0..(length - 1) : Block(n)[i] = data[i]
  <1> USE BufferPipeAssumption
  <1>1. CASE Fits(n)
    BY <1>1 DEF Fits, Size, Block, TypeOK
  <1>2. CASE ~Fits(n)
    <2>1. Size(n) = length + n + BUCKET_LENGTH /\ Size(n) \in Nat /\ actual_length \in Nat
      BY <1>2 DEF Size, Grown, TypeOK
    <2>2. Block(n) = [i \in 0..(Size(n) - 1) |-> IF i < actual_length THEN data[i] ELSE Junk]
      BY <1>2 DEF Block, Size, Realloc
    <2>3. \A i \in 0..(Size(n) - 1) : i < actual_length => i \in 0..(actual_length - 1)
      BY <2>1
    <2>4. Block(n) \in [0..(Size(n) - 1) -> Bytes \cup {Junk}]
      BY <2>2, <2>3 DEF TypeOK
    <2>5. \A i \in 0..(length - 1) : i \in 0..(Size(n) - 1) /\ i < actual_length
      BY <2>1 DEF TypeOK, HoldsBytes
    <2>6. \A i \in 0..(length - 1) : Block(n)[i] = data[i]
      BY <2>2, <2>5
    <2>7. length + n <= Size(n)
      BY <2>1 DEF TypeOK
    <2> QED
      BY <2>1, <2>4, <2>6, <2>7
  <1> QED
    BY <1>1, <1>2

\* The inductive invariant.
IInv == TypeOK /\ HoldsBytes /\ RoomToPutBack

\* A chunk is written behind the bytes held.
LEMMA WriteAppends ==
  ASSUME IInv, NEW chunk \in Seq(Bytes),
         Holds(Memmove(Block(Len(chunk)), length, Len(chunk), chunk, 1), Len(chunk))
  PROVE  IInv' /\ Contents' = Contents \o chunk
  <1> DEFINE n == Len(chunk)
             b == Block(n)
             q == Contents \o chunk
  <1>1. n \in Nat /\ \A i \in 1..n : chunk[i] \in Bytes
    BY LenProperties, ElementOfSeq
  <1>2. /\ Size(n) \in Nat /\ length + n <= Size(n)
        /\ b \in [0..(Size(n) - 1) -> Bytes \cup {Junk}]
        /\ \A i \in 0..(length - 1) : b[i] = data[i]
    BY <1>1, RoomInBlock DEF IInv
  <1>3. /\ data' = [i \in 0..(Size(n) - 1) |->
                      IF i \in length..(length + n - 1) THEN chunk[i - length + 1] ELSE b[i]]
        /\ length' = length + n /\ actual_length' = Size(n)
        /\ got' = <<>> /\ ret' = 0
    BY <1>2 DEF Holds, Memmove
  <1>4. length \in Nat /\ length' \in Nat
    BY <1>1, <1>3 DEF IInv, TypeOK
  <1>5. /\ Contents \in Seq(Bytes) /\ Len(Contents) = length
        /\ \A i \in 1..length : Contents[i] = data[i - 1]
        /\ \A i \in 0..(length - 1) : data[i] \in Bytes
    BY BytesHeld DEF IInv
  <1>6. /\ \A i \in 0..(length - 1) : data'[i] = data[i]
        /\ \A i \in length..(length + n - 1) : data'[i] = chunk[i - length + 1]
    BY <1>1, <1>2, <1>3, <1>4
  <1>7. \A i \in 0..(length' - 1) : data'[i] \in Bytes
    <2> SUFFICES ASSUME NEW i \in 0..(length' - 1) PROVE data'[i] \in Bytes
      OBVIOUS
    <2>1. CASE i < length
      BY <2>1, <1>4, <1>5, <1>6
    <2>2. CASE i >= length
      <3>1. i \in length..(length + n - 1) /\ i - length + 1 \in 1..n
        BY <2>2, <1>1, <1>3, <1>4
      <3> QED
        BY <3>1, <1>1, <1>6
    <2> QED
      BY <1>4, <2>1, <2>2
  <1>8. /\ Contents' \in Seq(Bytes) /\ Len(Contents') = length'
        /\ \A i \in 1..length' : Contents'[i] = data'[i - 1]
    BY <1>4, <1>7, BytesOfBlock DEF Contents
  <1>9. /\ q \in Seq(Bytes) /\ Len(q) = length + n
        /\ \A i \in 1..(length + n) : q[i] = IF i <= length THEN Contents[i] ELSE chunk[i - length]
    BY <1>5, ConcatProperties
  <1> HIDE DEF q
  <1>10. ASSUME NEW i \in 1..length' PROVE Contents'[i] = q[i]
    <2>1. CASE i <= length
      <3>1. i \in 1..length /\ i - 1 \in 0..(length - 1)
        BY <2>1, <1>4
      <3>2. Contents'[i] = Contents[i]
        BY <3>1, <1>5, <1>6, <1>8
      <3>3. q[i] = Contents[i]
        BY <2>1, <1>3, <1>9
      <3> QED
        BY <3>2, <3>3
    <2>2. CASE i > length
      <3>1. i - 1 \in length..(length + n - 1) /\ (i - 1) - length + 1 = i - length
        BY <2>2, <1>1, <1>3, <1>4
      <3>2. Contents'[i] = chunk[i - length]
        BY <3>1, <1>6, <1>8
      <3>3. q[i] = chunk[i - length]
        BY <2>2, <1>3, <1>4, <1>9
      <3> QED
        BY <3>2, <3>3
    <2> QED
      BY <1>4, <2>1, <2>2
  <1>11. Contents' = q
    BY <1>3, <1>8, <1>9, <1>10, SeqEqual
  <1>12. data' \in [0..(actual_length' - 1) -> Bytes \cup {Junk}]
    <2> SUFFICES ASSUME NEW i \in 0..(Size(n) - 1), i \in length..(length + n - 1)
                 PROVE  chunk[i - length + 1] \in Bytes
      BY <1>2, <1>3
    <2>1. i - length + 1 \in 1..n
      BY <1>1, <1>4
    <2> QED
      BY <2>1, <1>1
  <1>13. got' \in Seq(Bytes) /\ Len(got') = 0
    BY <1>3, EmptySeq
  <1> QED
    BY <1>2, <1>3, <1>4, <1>8, <1>11, <1>12, <1>13 DEF q, IInv, TypeOK, HoldsBytes, RoomToPutBack

\* A chunk is put in front of the bytes held, which are moved back.
LEMMA WriteHeadPrepends ==
  ASSUME IInv, NEW chunk \in Seq(Bytes),
         Holds(Memmove(MovedBack(Len(chunk)), 0, Len(chunk), chunk, 1), Len(chunk))
  PROVE  IInv' /\ Contents' = chunk \o Contents
  <1> DEFINE n == Len(chunk)
             b == Block(n)
             q == chunk \o Contents
  <1>1. n \in Nat /\ \A i \in 1..n : chunk[i] \in Bytes
    BY LenProperties, ElementOfSeq
  <1>2. /\ Size(n) \in Nat /\ length + n <= Size(n)
        /\ b \in [0..(Size(n) - 1) -> Bytes \cup {Junk}]
        /\ \A i \in 0..(length - 1) : b[i] = data[i]
    BY <1>1, RoomInBlock DEF IInv
  <1>3. MovedBack(n) = [i \in 0..(Size(n) - 1) |->
                          IF i \in n..(n + length - 1) THEN b[i - n] ELSE b[i]]
    BY <1>2 DEF MovedBack, Memmove
  <1>4. /\ data' = [i \in 0..(Size(n) - 1) |->
                      IF i \in 0..(n - 1) THEN chunk[i + 1] ELSE MovedBack(n)[i]]
        /\ length' = length + n /\ actual_length' = Size(n)
        /\ got' = <<>> /\ ret' = 0
    <2>1. \A i \in Int : i - 0 + 1 = i + 1 /\ 0 + n - 1 = n - 1
      BY <1>1
    <2> QED
      BY <1>1, <1>3 DEF Holds, Memmove
  <1>5. length \in Nat /\ length' \in Nat
    BY <1>1, <1>4 DEF IInv, TypeOK
  <1>6. /\ Contents \in Seq(Bytes) /\ Len(Contents) = length
        /\ \A i \in 1..length : Contents[i] = data[i - 1]
        /\ \A i \in 0..(length - 1) : data[i] \in Bytes
    BY BytesHeld DEF IInv
  <1>7. \A i \in 0..(n - 1) : data'[i] = chunk[i + 1]
    BY <1>1, <1>2, <1>4, <1>5
  <1>8. ASSUME NEW i \in n..(n + length - 1) PROVE data'[i] = data[i - n]
    <2>1. i \in 0..(Size(n) - 1) /\ i \notin 0..(n - 1) /\ i - n \in 0..(length - 1)
      BY <1>1, <1>2, <1>5
    <2>2. data'[i] = MovedBack(n)[i]
      BY <2>1, <1>4
    <2>3. MovedBack(n)[i] = b[i - n]
      BY <2>1, <1>3
    <2> QED
      BY <2>1, <2>2, <2>3, <1>2
  <1>9. \A i \in 0..(length' - 1) : data'[i] \in Bytes
    <2> SUFFICES ASSUME NEW i \in 0..(length' - 1) PROVE data'[i] \in Bytes
      OBVIOUS
    <2>1. CASE i < n
      <3>1. i \in 0..(n - 1) /\ i + 1 \in 1..n
        BY <2>1, <1>1
      <3> QED
        BY <3>1, <1>1, <1>7
    <2>2. CASE i >= n
      <3>1. i \in n..(n + length - 1) /\ i - n \in 0..(length - 1)
        BY <2>2, <1>1, <1>4, <1>5
      <3> QED
        BY <3>1, <1>6, <1>8
    <2> QED
      BY <1>1, <2>1, <2>2
  <1>10. /\ Contents' \in Seq(Bytes) /\ Len(Contents') = length'
         /\ \A i \in 1..length' : Contents'[i] = data'[i - 1]
    BY <1>5, <1>9, BytesOfBlock DEF Contents
  <1>11. /\ q \in Seq(Bytes) /\ Len(q) = n + length
         /\ \A i \in 1..(n + length) : q[i] = IF i <= n THEN chunk[i] ELSE Contents[i - n]
    BY <1>6, ConcatProperties
  <1> HIDE DEF q
  <1>12. ASSUME NEW i \in 1..length' PROVE Contents'[i] = q[i]
    <2>1. CASE i <= n
      <3>1. i - 1 \in 0..(n - 1) /\ (i - 1) + 1 = i /\ i \in 1..(n + length)
        BY <2>1, <1>1, <1>4, <1>5
      <3>2. Contents'[i] = chunk[i]
        BY <3>1, <1>7, <1>10
      <3> QED
        BY <2>1, <3>1, <3>2, <1>11
    <2>2. CASE i > n
      <3>1. /\ i - 1 \in n..(n + length - 1) /\ i \in 1..(n + length)
            /\ i - n \in 1..length /\ (i - n) - 1 = (i - 1) - n
        BY <2>2, <1>1, <1>4, <1>5
      <3>2. Contents'[i] = data[(i - 1) - n]
        BY <3>1, <1>8, <1>10
      <3>3. q[i] = Contents[i - n] /\ Contents[i - n] = data[(i - n) - 1]
        BY <2>2, <3>1, <1>1, <1>6, <1>11
      <3> QED
        BY <3>1, <3>2, <3>3
    <2> QED
      BY <1>1, <2>1, <2>2
  <1>13. Contents' = q
    <2>1. length' = n + length
      BY <1>1, <1>4, <1>5
    <2> QED
      BY <2>1, <1>10, <1>11, <1>12, SeqEqual
  <1>14. data' \in [0..(actual_length' - 1) -> Bytes \cup {Junk}]
    <2>1. ASSUME NEW i \in 0..(Size(n) - 1) PROVE MovedBack(n)[i] \in Bytes \cup {Junk}
      <3>1. CASE i \in n..(n + length - 1)
        <4>1. i - n \in 0..(Size(n) - 1)
          BY <3>1, <1>1, <1>2, <1>5
        <4> QED
          BY <3>1, <4>1, <1>2, <1>3
      <3>2. CASE i \notin n..(n + length - 1)
        BY <3>2, <1>2, <1>3
      <3> QED
        BY <3>1, <3>2
    <2>2. ASSUME NEW i \in 0..(Size(n) - 1), i \in 0..(n - 1) PROVE chunk[i + 1] \in Bytes
      <3>1. i + 1 \in 1..n
        BY <2>2, <1>1
      <3> QED
        BY <3>1, <1>1
    <2> QED
      BY <2>1, <2>2, <1>4
  <1>15. got' \in Seq(Bytes) /\ Len(got') = 0
    BY <1>4, EmptySeq
  <1>16. length' + 0 <= actual_length'
    BY <1>1, <1>2, <1>4, <1>5
  <1> QED
    BY <1>2, <1>4, <1>5, <1>10, <1>13, <1>14, <1>15, <1>16 DEF q, IInv, TypeOK, HoldsBytes, RoomToPutBack

\* Reading takes bytes off the front, and the memory stays.
LEMMA ReadTakes ==
  ASSUME IInv, NEW wanted \in Nat, Read(wanted)
  PROVE  /\ IInv'
         /\ \E n \in 0..Len(Contents) : Queue!Read(n)
  <1> DEFINE n == IF length < wanted THEN length ELSE wanted
             q == SubSeq(Contents, n + 1, Len(Contents))
             g == SubSeq(Contents, 1, n)
  <1>1. /\ got' = [i \in 1..n |-> data[i - 1]] /\ ret' = 0
        /\ data' = Memmove(data, 0, length - n, data, n)
        /\ length' = length - n
        /\ actual_length' = actual_length
    BY DEF Read
  <1>2. length \in Nat /\ n \in 0..length /\ length' \in Nat /\ actual_length \in Nat
    BY <1>1 DEF IInv, TypeOK
  <1>3. /\ Contents \in Seq(Bytes) /\ Len(Contents) = length
        /\ \A i \in 1..length : Contents[i] = data[i - 1]
        /\ \A i \in 0..(length - 1) : data[i] \in Bytes
    BY BytesHeld DEF IInv
  <1> HIDE DEF n
  <1>4. data' = [i \in 0..(actual_length - 1) |->
                   IF i \in 0..(0 + (length - n) - 1) THEN data[i - 0 + n] ELSE data[i]]
    BY <1>1 DEF Memmove, IInv, TypeOK
  <1>5. ASSUME NEW i \in 0..(length' - 1) PROVE data'[i] = data[n + i] /\ n + i \in 0..(length - 1)
    <2>0. length <= actual_length /\ length' = length - n
      BY <1>1 DEF IInv, HoldsBytes
    <2>1. /\ i \in 0..(actual_length - 1) /\ i \in 0..(0 + (length - n) - 1)
          /\ i - 0 + n = n + i /\ n + i \in 0..(length - 1)
      BY <2>0, <1>2
    <2> QED
      BY <2>1, <1>4
  <1>6. /\ Contents' \in Seq(Bytes) /\ Len(Contents') = length'
        /\ \A i \in 1..length' : Contents'[i] = data'[i - 1]
    <2>1. \A i \in 0..(length' - 1) : data'[i] \in Bytes
      BY <1>3, <1>5
    <2> QED
      BY <2>1, <1>2, BytesOfBlock DEF Contents
  <1>7. /\ q \in Seq(Bytes) /\ Len(q) = length'
        /\ \A i \in 1..length' : q[i] = Contents[n + i]
    <2>1. \A i \in (n + 1)..length : Contents[i] \in Bytes
      BY <1>2, <1>3, ElementOfSeq
    <2>2. /\ n + 1 \in Int /\ length \in Int /\ length - (n + 1) + 1 = length'
          /\ (n + 1 > length => length' = 0)
          /\ \A i \in 1..length' : (n + 1) + i - 1 = n + i
      BY <1>1, <1>2
    <2>3. /\ q \in Seq(Bytes)
          /\ Len(q) = IF n + 1 <= length THEN length - (n + 1) + 1 ELSE 0
          /\ \A i \in 1..(length - (n + 1) + 1) : q[i] = Contents[(n + 1) + i - 1]
      BY <2>1, <2>2, <1>3, SubSeqProperties
    <2> HIDE DEF q
    <2> QED
      BY <2>2, <2>3, <1>2
  <1>8. /\ g \in Seq(Bytes) /\ Len(g) = n
        /\ \A i \in 1..n : g[i] = Contents[i]
    <2>1. \A i \in 1..n : Contents[i] \in Bytes
      BY <1>2, <1>3, ElementOfSeq
    <2>2. 1 \in Int /\ n \in Int /\ n - 1 + 1 = n /\ \A i \in 1..n : 1 + i - 1 = i
      BY <1>2
    <2>3. /\ g \in Seq(Bytes)
          /\ Len(g) = IF 1 <= n THEN n - 1 + 1 ELSE 0
          /\ \A i \in 1..(n - 1 + 1) : g[i] = Contents[1 + i - 1]
      BY <2>1, <2>2, SubSeqProperties
    <2> HIDE DEF g
    <2> QED
      BY <2>2, <2>3, <1>2
  <1>9. got' \in Seq(Bytes) /\ Len(got') = n /\ \A i \in 1..n : got'[i] = data[i - 1]
    <2>1. n \in Nat /\ \A i \in 0..(n - 1) : data[i] \in Bytes
      BY <1>2, <1>3
    <2> QED
      BY <2>1, <1>1, BytesOfBlock
  <1>10. Contents' = q
    <2> HIDE DEF q
    <2>1. ASSUME NEW i \in 1..length' PROVE Contents'[i] = q[i]
      <3>1. i - 1 \in 0..(length' - 1) /\ n + i \in 1..length /\ n + (i - 1) = (n + i) - 1
        BY <1>1, <1>2
      <3> QED
        BY <3>1, <1>3, <1>5, <1>6, <1>7
    <2> QED
      BY <2>1, <1>6, <1>7, SeqEqual
  <1>11. got' = g
    <2> HIDE DEF g
    <2>1. ASSUME NEW i \in 1..n PROVE got'[i] = g[i]
      BY <1>2, <1>3, <1>8, <1>9
    <2> QED
      BY <2>1, <1>8, <1>9, SeqEqual
  <1>12. Queue!Read(n)
    BY <1>1, <1>10, <1>11 DEF Queue!Read
  <1>13. data' \in [0..(actual_length' - 1) -> Bytes \cup {Junk}]
    <2>1. ASSUME NEW i \in 0..(actual_length - 1), i \in 0..(0 + (length - n) - 1)
          PROVE  data[i - 0 + n] \in Bytes \cup {Junk}
      <3>1. i - 0 + n \in 0..(length - 1)
        BY <2>1, <1>2
      <3> QED
        BY <3>1, <1>3
    <2>2. data \in [0..(actual_length - 1) -> Bytes \cup {Junk}]
      BY DEF IInv, TypeOK
    <2> QED
      BY <2>1, <2>2, <1>1, <1>4
  <1>14. length' <= actual_length' /\ length' + Len(got') <= actual_length'
    BY <1>1, <1>2, <1>9 DEF IInv, HoldsBytes
  <1>15. IInv'
    BY <1>1, <1>2, <1>6, <1>9, <1>13, <1>14 DEF IInv, TypeOK, HoldsBytes, RoomToPutBack
  <1> QED
    BY <1>2, <1>3, <1>12, <1>15

\* Every step keeps the invariant and is a step of the queue of bytes.
LEMMA StepImplements ==
  ASSUME IInv, [Next]_vars
  PROVE  IInv' /\ [Queue!Next]_Queue!vars
  <1> USE BufferPipeAssumption
  <1>1. ASSUME NEW n, NoMemory(n)
        PROVE  IInv' /\ Queue!Refuses
    <2>1. Contents' = Contents
      BY <1>1 DEF NoMemory, Contents
    <2>2. got' \in Seq(Bytes) /\ Len(got') = 0
      BY <1>1, EmptySeq DEF NoMemory
    <2>3. length' + 0 <= actual_length'
      BY <1>1 DEF NoMemory, IInv, HoldsBytes, TypeOK
    <2> QED
      BY <1>1, <2>1, <2>2, <2>3
      DEF NoMemory, Queue!Refuses, IInv, TypeOK, HoldsBytes, RoomToPutBack
  <1>2. ASSUME NEW chunk \in Chunks, Write(chunk)
        PROVE  IInv' /\ Queue!Write(chunk)
    <2>1. CASE NoMemory(Len(chunk))
      BY <2>1, <1>1 DEF Queue!Write
    <2>2. CASE Holds(Memmove(Block(Len(chunk)), length, Len(chunk), chunk, 1), Len(chunk))
      <3>1. IInv' /\ Contents' = Contents \o chunk
        BY <2>2, WriteAppends
      <3>2. got' = <<>> /\ ret' = 0
        BY <2>2 DEF Holds
      <3> QED
        BY <3>1, <3>2 DEF Queue!Write, Queue!Holds
    <2> QED
      BY <1>2, <2>1, <2>2 DEF Write
  <1>3. ASSUME NEW chunk \in Chunks, WriteHead(chunk)
        PROVE  IInv' /\ Queue!WriteHead(chunk)
    <2>1. CASE NoMemory(Len(chunk))
      BY <2>1, <1>1 DEF Queue!WriteHead
    <2>2. CASE Holds(Memmove(MovedBack(Len(chunk)), 0, Len(chunk), chunk, 1), Len(chunk))
      <3>1. IInv' /\ Contents' = chunk \o Contents
        BY <2>2, WriteHeadPrepends
      <3>2. got' = <<>> /\ ret' = 0
        BY <2>2 DEF Holds
      <3> QED
        BY <3>1, <3>2 DEF Queue!WriteHead, Queue!Holds
    <2> QED
      BY <1>3, <2>1, <2>2 DEF WriteHead
  <1>4. ASSUME NEW wanted \in Lengths, Read(wanted)
        PROVE  IInv' /\ \E n \in 0..Len(Contents) : Queue!Read(n)
    BY <1>4, ReadTakes
  <1>5. CASE UNCHANGED vars
    BY <1>5 DEF vars, Queue!vars, Contents, IInv, TypeOK, HoldsBytes, RoomToPutBack
  <1>6. CASE Next
    BY <1>2, <1>3, <1>4, <1>6 DEF Next, Queue!Next
  <1> QED
    BY <1>5, <1>6

LEMMA InitImplements ==
  ASSUME Init
  PROVE  IInv /\ Queue!Init
  <1>1. length = 0 /\ actual_length = 0 /\ got = <<>> /\ ret = 0 /\ data = <<>>
    BY DEF Init
  <1>2. Contents = <<>>
    BY <1>1 DEF Contents
  <1>3. got \in Seq(Bytes) /\ Len(got) = 0 /\ Contents \in Seq(Bytes)
    BY <1>1, <1>2, EmptySeq
  <1>4. data \in [0..(actual_length - 1) -> Bytes \cup {Junk}]
    <2>1. 0..(actual_length - 1) = {} /\ DOMAIN data = {}
      BY <1>1
    <2> QED
      BY <2>1, <1>1
  <1> QED
    BY <1>1, <1>2, <1>3, <1>4 DEF IInv, TypeOK, HoldsBytes, RoomToPutBack, Queue!Init

\* The block keeps its size and its bytes, the bytes in use stay inside it, and
\* there is always room to put back what was just read.
THEOREM PipeIsSafe == Spec => [](TypeOK /\ HoldsBytes /\ RoomToPutBack)
  <1>1. Init => IInv
    BY InitImplements
  <1>2. IInv /\ [Next]_vars => IInv'
    BY StepImplements
  <1> QED
    BY <1>1, <1>2, PTL DEF Spec, IInv

\* buffer_pipe_write, _rewrite and _read never leave the block: the bytes in use
\* lie inside it, and each of them was written.
THEOREM BytesStayInside == Spec => []HoldsBytes
  <1>1. TypeOK /\ HoldsBytes /\ RoomToPutBack => HoldsBytes
    OBVIOUS
  <1> QED
    BY PipeIsSafe, <1>1, PTL

\* A pipe is a queue of bytes: what is read is what was written, in order, and
\* what was put back comes first.
THEOREM ByteQueueImplemented == Spec => ImplementsByteQueue
  <1>1. Init => IInv /\ Queue!Init
    BY InitImplements
  <1>2. IInv /\ [Next]_vars => IInv' /\ [Queue!Next]_Queue!vars
    BY StepImplements
  <1> QED
    BY <1>1, <1>2, PTL DEF Spec, ImplementsByteQueue, Queue!Spec
===============================================================================
