---------------------------- MODULE UnPackerProofs ----------------------------
(***************************************************************************)
(* What is proved of UnPacker for every storage size, byte set and set of  *)
(* formats: what is cut is framed, keys of one byte are found where they   *)
(* are, and a peer that waits loses nothing.                               *)
(***************************************************************************)
EXTENDS UnPacker, RingBufferProofs, WellFoundedInduction

-----------------------------------------------------------------------------
(* The least element that FindKey's first match is.                          *)

LEMMA LessIsWellFounded ==
  IsWellFoundedOn({ss \in Nat \X Nat : ss[1] < ss[2]}, Nat)
BY NatLessThanWellFounded DEF OpToRel

LEMMA LeastIs ==
  ASSUME NEW S \in SUBSET Nat, S # {}
  PROVE  LeastOf(S) \in S /\ \A k \in S : LeastOf(S) <= k
<1> DEFINE R == {ss \in Nat \X Nat : ss[1] < ss[2]}
<1>1. IsWellFoundedOn(R, Nat)
  BY LessIsWellFounded
<1>2. PICK x \in S : \A y \in S : ~(<<y, x>> \in R)
  <2> HIDE DEF R
  <2> QED BY <1>1, WFMin
<1>3. ASSUME NEW y \in S PROVE x <= y
  <2>1. x \in Nat /\ y \in Nat
    OBVIOUS
  <2>2. ~(y < x)
    <3> SUFFICES ASSUME y < x PROVE FALSE
      OBVIOUS
    <3>1. <<y, x>> \in R
      BY <2>1, Zenon
    <3> QED BY <1>2, <3>1, Zenon
  <2> QED BY <2>1, <2>2
<1> QED BY <1>3 DEF LeastOf

(* Indices of the scan, up to two laps past the end of the storage.          *)
LEMMA ModTwice ==
  ASSUME NEW n \in Nat \ {0}, NEW a \in 2*n..3*n-1
  PROVE  a % n = a - 2*n
OBVIOUS

LEMMA Regroup ==
  ASSUME NEW a \in Int, NEW b \in Int, NEW c \in Int, NEW d \in Int
  PROVE  a + (b + c + d) = (a + b + c) + d
OBVIOUS

(* An offset from a wrapped index is the offset from the index.              *)
LEMMA ModOffset ==
  ASSUME NEW n \in Nat \ {0}, NEW a \in 0..2*n-1, NEW b \in 0..n-1
  PROVE  ((a % n) + b) % n = (a + b) % n
<1>1. CASE a + b \in 0..2*n-1
  BY <1>1, ModAdvance
<1>2. CASE a + b \notin 0..2*n-1
  <2>1. a \in n..2*n-1 /\ a + b \in 2*n..3*n-1
    BY <1>2
  <2>2. a % n = a - n
    BY <2>1, ModWrap
  <2>3. (a + b) % n = (a + b) - 2*n
    BY <2>1, ModTwice
  <2>4. (a - n) + b \in n..2*n-1
    BY <2>1
  <2>5. ((a - n) + b) % n = ((a - n) + b) - n
    BY <2>4, ModWrap
  <2> QED BY <2>2, <2>3, <2>5
<1> QED BY <1>1, <1>2

-----------------------------------------------------------------------------
(* The names of FindKey's locals.                                            *)

AbsStart(start) == (read_index_ + start) % size
Part1(start) == Lesser(size - AbsStart(start), length_ - start)
Part2(start) == length_ - start - Part1(start)
Found1(key, start) ==
  {i \in 0 .. IF Part1(start) < Len(key) THEN size - 1 ELSE Part1(start) - Len(key) :
     MatchAt(key, AbsStart(start) + i)}
Found2(key, start) == {i \in 0 .. Part2(start) - Len(key) : MatchAt(key, i)}

LEMMA FindKeyCases ==
  ASSUME NEW key, NEW start
  PROVE  FindKey(key, start) =
           IF key = <<>> \/ Len(key) > length_ \/ start >= length_ THEN NotFound
           ELSE IF Found1(key, start) # {} THEN start + LeastOf(Found1(key, start))
           ELSE IF Part1(start) < Len(key) THEN Never
           ELSE IF Found2(key, start) # {}
                THEN start + Part1(start) + LeastOf(Found2(key, start))
           ELSE NotFound
BY DEF FindKey, AbsStart, Part1, Part2, Found1, Found2

(* Where the two parts of the stored bytes are.                              *)
LEMMA Parts ==
  ASSUME TypeOK, NEW start \in Nat, start < length_
  PROVE  /\ AbsStart(start) \in 0..size-1
         /\ Part1(start) \in 1..length_ - start
         /\ Part2(start) \in 0..length_ - 1
         /\ AbsStart(start) + Part1(start) <= size
         /\ Part1(start) + Part2(start) = length_ - start
         /\ Part2(start) > 0 => AbsStart(start) + Part1(start) = size
         /\ Part2(start) > 0 => read_index_ + start + Part1(start) \in {size, 2*size}
<1>1. /\ size \in Nat \ {0} /\ length_ \in 0..size /\ read_index_ \in 0..size-1
  BY DEF TypeOK
<1>2. AbsStart(start) = IF read_index_ + start < size THEN read_index_ + start
                        ELSE read_index_ + start - size
  <2>1. CASE read_index_ + start \in 0..size-1
    BY <1>1, <2>1, ModSmall DEF AbsStart
  <2>2. CASE read_index_ + start \in size..2*size-1
    BY <1>1, <2>2, ModWrap DEF AbsStart
  <2> QED BY <1>1, <2>1, <2>2
<1> QED BY <1>1, <1>2 DEF Part1, Part2, Lesser

(* What FindKey answers, if it does, is an offset at which the key lies.     *)
LEMMA FindKeyOutcome ==
  ASSUME TypeOK, NEW key \in Seq(Byte), NEW start \in Nat,
         FindKey(key, start) \notin {NotFound, Never}
  PROVE  /\ FindKey(key, start) \in Nat
         /\ FindKey(key, start) >= start
         /\ Len(key) \in 1..length_
         /\ MatchAt(key, (read_index_ + FindKey(key, start)) % size)
<1>1. /\ size \in Nat \ {0} /\ length_ \in 0..size /\ read_index_ \in 0..size-1
  BY DEF TypeOK
<1>2. ~(key = <<>> \/ Len(key) > length_ \/ start >= length_)
  BY FindKeyCases
<1>3. Len(key) \in 1..length_ /\ start < length_ /\ start \in 0..size-1
  BY <1>1, <1>2
<1>4. AbsStart(start) \in 0..size-1 /\ Part1(start) \in 1..length_ - start
      /\ Part2(start) \in 0..length_ - 1
  BY <1>3, Parts
<1>5. CASE Found1(key, start) # {}
  <2> DEFINE i == LeastOf(Found1(key, start))
  <2>1. Found1(key, start) \in SUBSET Nat
    BY <1>1, <1>4 DEF Found1
  <2>2. i \in Found1(key, start)
    BY <1>5, <2>1, LeastIs
  <2> HIDE DEF i
  <2>3. i \in 0..size-1 /\ MatchAt(key, AbsStart(start) + i)
    BY <1>1, <1>3, <1>4, <2>2 DEF Found1
  <2>4. FindKey(key, start) = start + i
    BY <1>2, <1>5, FindKeyCases DEF i
  <2>5. ASSUME NEW j \in 1..Len(key)
        PROVE  (((read_index_ + (start + i)) % size) + j - 1) % size
                 = (AbsStart(start) + i + j - 1) % size
    <3>1. (AbsStart(start) + i) % size = (read_index_ + start + i) % size
      <4>1. read_index_ + start \in 0..2*size-1
        BY <1>1, <1>3
      <4> QED BY <1>1, <2>3, <4>1, ModOffset DEF AbsStart
    <3>2. AbsStart(start) + i \in 0..2*size-1 /\ j - 1 \in 0..size-1
      BY <1>1, <1>3, <1>4, <2>3
    <3>3. (((AbsStart(start) + i) % size) + (j - 1)) % size
            = (AbsStart(start) + i + (j - 1)) % size
      BY <1>1, <3>2, ModOffset
    <3>4. /\ read_index_ + (start + i) = read_index_ + start + i
          /\ AbsStart(start) + i + (j - 1) = AbsStart(start) + i + j - 1
      BY <1>1, <1>3, <1>4, <2>3
    <3>6. (read_index_ + start + i) % size \in 0..size-1
      <4>1. read_index_ + start + i \in Nat
        BY <1>1, <2>3
      <4> QED BY <1>1, <4>1, ModRange
    <3>5. ((read_index_ + start + i) % size) + (j - 1)
            = ((read_index_ + start + i) % size) + j - 1
      BY <3>6
    <3> QED BY <3>1, <3>3, <3>4, <3>5
  <2>6. MatchAt(key, (read_index_ + (start + i)) % size)
    BY <2>3, <2>5 DEF MatchAt
  <2>7. start + i \in Nat /\ start + i >= start
    BY <1>1, <2>3
  <2> QED BY <1>3, <2>4, <2>6, <2>7
<1>6. CASE Found1(key, start) = {}
  <2> DEFINE i == LeastOf(Found2(key, start))
  <2>1. ~(Part1(start) < Len(key)) /\ Found2(key, start) # {}
    BY <1>2, <1>6, FindKeyCases
  <2>2. Found2(key, start) \in SUBSET Nat
    BY <1>1, <1>4 DEF Found2
  <2>3. i \in Found2(key, start)
    BY <2>1, <2>2, LeastIs
  <2>4. FindKey(key, start) = start + Part1(start) + i
    BY <1>2, <1>6, <2>1, FindKeyCases
  <2> HIDE DEF i
  <2>5. i \in 0..size-1 /\ MatchAt(key, i) /\ Part2(start) > 0
    BY <1>1, <1>3, <1>4, <2>3 DEF Found2
  <2>6. read_index_ + start + Part1(start) \in {size, 2*size}
    BY <1>3, <2>5, Parts
  <2>7. (read_index_ + (start + Part1(start) + i)) % size = i
    <3>1. CASE read_index_ + start + Part1(start) = size
      <4>1. read_index_ + (start + Part1(start) + i) = size + i
        <5>1. /\ read_index_ \in Int /\ start \in Int
              /\ Part1(start) \in Int /\ i \in Int
          BY <1>1, <1>4, <2>5
        <5> QED BY <3>1, <5>1, Regroup
      <4>2. size + i \in size..2*size-1
        BY <1>1, <2>5
      <4>3. (size + i) % size = (size + i) - size
        BY <1>1, <4>2, ModWrap
      <4> QED BY <1>1, <2>5, <4>1, <4>3
    <3>2. CASE read_index_ + start + Part1(start) = 2*size
      <4>1. read_index_ + (start + Part1(start) + i) = 2*size + i
        <5>1. /\ read_index_ \in Int /\ start \in Int
              /\ Part1(start) \in Int /\ i \in Int
          BY <1>1, <1>4, <2>5
        <5> QED BY <3>2, <5>1, Regroup
      <4>2. 2*size + i \in 2*size..3*size-1
        BY <1>1, <2>5
      <4>3. (2*size + i) % size = (2*size + i) - 2*size
        BY <1>1, <4>2, ModTwice
      <4> QED BY <1>1, <2>5, <4>1, <4>3
    <3> QED BY <2>6, <3>1, <3>2
  <2> QED BY <1>3, <1>4, <2>4, <2>5, <2>7
<1> QED BY <1>5, <1>6
-----------------------------------------------------------------------------
(* What the two copies of a packet hold.                                     *)
LEMMA PacketBytes ==
  ASSUME TypeOK, NEW offset \in Nat, NEW n \in Nat, NEW packet \in PacketsAt(offset, n)
  PROVE  /\ packet \in Seq(Byte)
         /\ Len(packet) = n
         /\ \A j \in 1..n : j <= size =>
              packet[j] = buffer_[(((read_index_ + offset) % size) + j - 1) % size]
<1> DEFINE head == (read_index_ + offset) % size
           part1 == Lesser(n, size - head)
           cut(past) == [j \in 1..n |-> IF j <= part1 THEN buffer_[head + j - 1]
                                        ELSE IF j <= part1 + size THEN buffer_[j - part1 - 1]
                                        ELSE past]
<1>1. /\ size \in Nat \ {0} /\ read_index_ \in 0..size-1
      /\ buffer_ \in [0..size-1 -> Byte] /\ Zero \in Byte
  BY RingBufferAssumption DEF TypeOK
<1>2. head \in 0..size-1
  BY <1>1, ModRange
<1>3. PICK past \in Byte : packet = cut(past)
  BY <1>1 DEF PacketsAt
<1> HIDE DEF head
<1>4. part1 \in 0..n /\ head + part1 <= size /\ (part1 < n => head + part1 = size)
  BY <1>1, <1>2 DEF Lesser
<1> HIDE DEF part1
<1>5. ASSUME NEW j \in 1..n
      PROVE  /\ j <= part1 => head + j - 1 \in 0..size-1
             /\ ~(j <= part1) /\ j <= part1 + size => j - part1 - 1 \in 0..size-1
  BY <1>1, <1>2, <1>4
<1>6. packet \in [1..n -> Byte]
  BY <1>1, <1>3, <1>5
<1>7. packet \in Seq(Byte) /\ Len(packet) = n
  <2>1. packet \in Seq(Byte)
    BY <1>6
  <2>2. DOMAIN packet = 1..n
    BY <1>6
  <2> QED BY <2>1, <2>2
<1>8. ASSUME NEW j \in 1..n, j <= size
      PROVE  packet[j] = buffer_[(head + j - 1) % size]
  <2>1. CASE j <= part1
    <3>1. head + j - 1 \in 0..size-1
      BY <1>5, <2>1
    <3>2. (head + j - 1) % size = head + j - 1
      BY <1>1, <3>1, ModSmall
    <3> QED BY <1>3, <2>1, <3>2
  <2>2. CASE ~(j <= part1)
    <3>1. head + j - 1 \in size..2*size-1 /\ (head + j - 1) - size = j - part1 - 1
      BY <1>1, <1>2, <1>4, <1>8, <2>2
    <3>2. (head + j - 1) % size = j - part1 - 1
      BY <1>1, <3>1, ModWrap
    <3>3. j <= part1 + size
      BY <1>1, <1>4, <1>8
    <3> QED BY <1>3, <2>2, <3>2, <3>3
  <2> QED BY <2>1, <2>2
<1> QED BY <1>7, <1>8 DEF head

(* A packet that is cut where a key lies starts with it.                     *)
LEMMA CutStartsWithKey ==
  ASSUME TypeOK, NEW key \in Seq(Byte), NEW offset \in Nat, NEW n \in Nat,
         Len(key) <= n, Len(key) <= size,
         MatchAt(key, (read_index_ + offset) % size),
         NEW packet \in PacketsAt(offset, n)
  PROVE  StartsWith(packet, key)
<1>1. /\ packet \in Seq(Byte) /\ Len(packet) = n
      /\ \A j \in 1..n : j <= size =>
           packet[j] = buffer_[(((read_index_ + offset) % size) + j - 1) % size]
  BY PacketBytes
<1>2. Len(key) \in Nat /\ size \in Nat
  BY DEF TypeOK
<1>3. ASSUME NEW j \in 1..Len(key) PROVE packet[j] = key[j]
  <2>1. j \in 1..n /\ j <= size
    BY <1>2
  <2>2. packet[j] = buffer_[(((read_index_ + offset) % size) + j - 1) % size]
    BY <1>1, <2>1
  <2>3. key[j] = buffer_[(((read_index_ + offset) % size) + j - 1) % size]
    BY DEF MatchAt
  <2> QED BY <2>2, <2>3, Zenon
<1> DEFINE front == SubSeq(packet, 1, Len(key))
<1>4. front \in Seq(Byte) /\ Len(front) = Len(key) /\ \A j \in 1..Len(key) : front[j] = packet[j]
  <2>1. \A i \in 1..Len(key) : packet[i] \in Byte
    BY <1>3, <1>2, ElementOfSeq
  <2> QED BY <1>1, <1>2, <2>1, SubSeqProperties
<1>5. front = key
  <2> HIDE DEF front
  <2> QED BY <1>3, <1>4, SeqEqual
<1> QED BY <1>1, <1>5 DEF StartsWith

(* And one whose last bytes are where a key lies ends with that.             *)
LEMMA CutEndsWithKey ==
  ASSUME TypeOK, NEW key \in Seq(Byte), NEW offset \in Nat, NEW n \in Nat,
         key # <<>> =>
           /\ n <= size /\ offset <= size /\ Len(key) <= n
           /\ MatchAt(key, (read_index_ + (offset + n - Len(key))) % size),
         NEW packet \in PacketsAt(offset, n)
  PROVE  EndsWith(packet, key)
<1>1. n \in Nat /\ size \in Nat \ {0} /\ read_index_ \in 0..size-1 /\ Len(key) \in Nat
  BY DEF TypeOK
<1>2. /\ packet \in Seq(Byte) /\ Len(packet) = n
      /\ \A j \in 1..n : j <= size =>
           packet[j] = buffer_[(((read_index_ + offset) % size) + j - 1) % size]
  BY <1>1, PacketBytes
<1>3. CASE key = <<>>
  <2>1. Len(key) = 0
    BY <1>3
  <2>2. SubSeq(packet, n - Len(key) + 1, n) = <<>>
    BY <1>1, <1>2, <2>1, SubSeqEmpty
  <2> QED BY <1>2, <1>3, <2>1, <2>2 DEF EndsWith
<1>4. CASE key # <<>>
  <2> DEFINE l == Len(key)
             front == (read_index_ + offset) % size
             tail == (read_index_ + (offset + n - l)) % size
  <2>1. n \in 1..size /\ offset <= size /\ l \in 1..n
    <3>1. l # 0
      BY <1>4, EmptySeq
    <3> QED BY <1>1, <1>4, <3>1
  <2>2. front \in 0..size-1 /\ tail \in 0..size-1
    <3>1. read_index_ + offset \in Nat /\ read_index_ + (offset + n - l) \in Nat
      BY <1>1, <2>1
    <3> QED BY <1>1, <3>1, ModRange
  <2>3. ASSUME NEW j \in 1..l PROVE packet[n - l + j] = key[j]
    <3>1. n - l + j \in 1..n /\ n - l + j <= size /\ j - 1 \in 0..size-1
          /\ n - l + j - 1 \in 0..size-1 /\ n - l \in 0..size-1
          /\ read_index_ + offset \in 0..2*size-1
      BY <1>1, <2>1
    <3>2. packet[n - l + j] = buffer_[(front + (n - l + j) - 1) % size]
      BY <1>2, <3>1
    <3>3. key[j] = buffer_[(tail + j - 1) % size]
      BY <1>4 DEF MatchAt
    <3>4. (front + (n - l + j - 1)) % size = ((read_index_ + offset) + (n - l + j - 1)) % size
      BY <1>1, <3>1, ModOffset
    <3>5. (front + (n - l)) % size = tail
      <4>1. (front + (n - l)) % size = ((read_index_ + offset) + (n - l)) % size
        BY <1>1, <3>1, ModOffset
      <4>2. (read_index_ + offset) + (n - l) = read_index_ + (offset + n - l)
        BY <1>1, <3>1
      <4> QED BY <4>1, <4>2
    <3>6. (tail + (j - 1)) % size = ((front + (n - l)) + (j - 1)) % size
      <4>1. front + (n - l) \in 0..2*size-1
        BY <1>1, <2>2, <3>1
      <4>2. (((front + (n - l)) % size) + (j - 1)) % size = ((front + (n - l)) + (j - 1)) % size
        BY <1>1, <3>1, <4>1, ModOffset
      <4> QED BY <3>5, <4>2
    <3> HIDE DEF front, tail
    <3>7. /\ front + (n - l + j) - 1 = (front + (n - l)) + (j - 1)
          /\ tail + j - 1 = tail + (j - 1)
      BY <1>1, <2>1, <2>2
    <3> QED BY <3>2, <3>3, <3>6, <3>7
  <2> HIDE DEF front, tail
  <2> DEFINE last == SubSeq(packet, n - l + 1, n)
  <2>4. last \in Seq(Byte) /\ Len(last) = l /\ \A j \in 1..l : last[j] = packet[n - l + j]
    <3>1. n - l + 1 \in 1..n /\ n \in 1..n /\ n - (n - l + 1) + 1 = l
      BY <1>1, <2>1
    <3>2. \A i \in n - l + 1..n : packet[i] \in Byte
      BY <1>1, <1>2, <2>1, ElementOfSeq
    <3>3. last \in Seq(Byte) /\ Len(last) = n - (n - l + 1) + 1
          /\ \A i \in 1..n - (n - l + 1) + 1 : last[i] = packet[(n - l + 1) + i - 1]
      BY <1>1, <1>2, <3>1, <3>2, SubSeqProperties
    <3>4. \A i \in 1..l : (n - l + 1) + i - 1 = n - l + i
      BY <1>1, <2>1
    <3> HIDE DEF last
    <3> QED BY <3>1, <3>3, <3>4
  <2> HIDE DEF last
  <2>5. last = key
    BY <1>1, <2>3, <2>4, SeqEqual
  <2>6. Len(packet) >= Len(key)
    BY <1>1, <1>2, <2>1
  <2> QED BY <1>2, <2>5, <2>6, Zenon DEF EndsWith, last
<1> QED BY <1>3, <1>4
-----------------------------------------------------------------------------
(* The byte at an offset from the read index.                                *)
ByteAt(i) == buffer_[(read_index_ + i) % size]

LEMMA StoredByteAt ==
  ASSUME TypeOK
  PROVE  /\ Contents \in Seq(Byte) /\ Len(Contents) = length_
         /\ \A i \in 0..length_-1 : Contents[i + 1] = ByteAt(i) /\ ByteAt(i) \in Byte
<1>1. size \in Nat \ {0} /\ length_ \in 0..size /\ read_index_ \in 0..size-1
  BY DEF TypeOK
<1>2. \A i \in 0..length_-1 : i + 1 \in 1..length_ /\ read_index_ + (i + 1) - 1 = read_index_ + i
  BY <1>1
<1> QED BY <1>1, <1>2, ContentsSlots DEF ByteAt, Slot

LEMMA MatchOneByte ==
  ASSUME NEW b, NEW at \in Nat
  PROVE  MatchAt(<<b>>, at) <=> buffer_[at % size] = b
<1>1. Len(<<b>>) = 1 /\ <<b>>[1] = b /\ at + 1 - 1 = at
  OBVIOUS
<1>2. \A j \in 1..1 : j = 1
  OBVIOUS
<1> QED BY <1>1, <1>2 DEF MatchAt

(* What the two scans find, for a key of one byte.                           *)
LEMMA ScansOneByte ==
  ASSUME TypeOK, NEW b \in Byte, NEW start \in Nat, start < length_
  PROVE  /\ Found1(<<b>>, start) = {i \in 0..Part1(start)-1 : ByteAt(start + i) = b}
         /\ Found2(<<b>>, start) =
              {i \in 0..Part2(start)-1 : ByteAt(start + Part1(start) + i) = b}
<1>1. /\ size \in Nat \ {0} /\ length_ \in 0..size /\ read_index_ \in 0..size-1
      /\ Len(<<b>>) = 1
  BY DEF TypeOK
<1>2. /\ AbsStart(start) \in 0..size-1 /\ Part1(start) \in 1..length_ - start
      /\ Part2(start) \in 0..length_ - 1
      /\ Part2(start) > 0 => read_index_ + start + Part1(start) \in {size, 2*size}
  BY <1>1, Parts
<1>3. ASSUME NEW i \in 0..Part1(start)-1
      PROVE  MatchAt(<<b>>, AbsStart(start) + i) <=> ByteAt(start + i) = b
  <2>1. read_index_ + start \in 0..2*size-1 /\ i \in 0..size-1
    BY <1>1, <1>2
  <2>2. (AbsStart(start) + i) % size = ((read_index_ + start) + i) % size
    BY <1>1, <2>1, ModOffset DEF AbsStart
  <2>3. (read_index_ + start) + i = read_index_ + (start + i) /\ AbsStart(start) + i \in Nat
    BY <1>1, <1>2, <2>1
  <2> QED BY <2>2, <2>3, MatchOneByte DEF ByteAt
<1>4. ASSUME NEW i \in 0..Part2(start)-1
      PROVE  MatchAt(<<b>>, i) <=> ByteAt(start + Part1(start) + i) = b
  <2>1. i \in 0..size-1 /\ i \in Nat /\ Part2(start) > 0
    BY <1>1, <1>2
  <2>2. (read_index_ + (start + Part1(start) + i)) % size = i
    <3>1. CASE read_index_ + start + Part1(start) = size
      <4>1. read_index_ + (start + Part1(start) + i) = size + i
        <5>1. /\ read_index_ \in Int /\ start \in Int
              /\ Part1(start) \in Int /\ i \in Int
          BY <1>1, <1>2, <2>1
        <5> QED BY <3>1, <5>1, Regroup
      <4>2. size + i \in size..2*size-1
        BY <1>1, <2>1
      <4>3. (size + i) % size = (size + i) - size
        BY <1>1, <4>2, ModWrap
      <4> QED BY <1>1, <2>1, <4>1, <4>3
    <3>2. CASE read_index_ + start + Part1(start) = 2*size
      <4>1. read_index_ + (start + Part1(start) + i) = 2*size + i
        <5>1. /\ read_index_ \in Int /\ start \in Int
              /\ Part1(start) \in Int /\ i \in Int
          BY <1>1, <1>2, <2>1
        <5> QED BY <3>2, <5>1, Regroup
      <4>2. 2*size + i \in 2*size..3*size-1
        BY <1>1, <2>1
      <4>3. (2*size + i) % size = (2*size + i) - 2*size
        BY <1>1, <4>2, ModTwice
      <4> QED BY <1>1, <2>1, <4>1, <4>3
    <3> QED BY <1>2, <2>1, <3>1, <3>2
  <2>3. i % size = i
    BY <1>1, <2>1, ModSmall
  <2> QED BY <2>1, <2>2, <2>3, MatchOneByte DEF ByteAt
<1>5. /\ 0..(IF Part1(start) < Len(<<b>>) THEN size - 1 ELSE Part1(start) - Len(<<b>>))
           = 0..Part1(start)-1
      /\ 0..Part2(start) - Len(<<b>>) = 0..Part2(start)-1
  BY <1>1, <1>2
<1>6. Found1(<<b>>, start) = {i \in 0..Part1(start)-1 : MatchAt(<<b>>, AbsStart(start) + i)}
  BY <1>5 DEF Found1
<1>7. Found2(<<b>>, start) = {i \in 0..Part2(start)-1 : MatchAt(<<b>>, i)}
  BY <1>5 DEF Found2
<1> QED BY <1>3, <1>4, <1>6, <1>7

(* A key of one byte: the first offset at which it is stored, or none.       *)
LEMMA FindKeyOneByte ==
  ASSUME TypeOK, NEW b \in Byte, NEW start \in Nat, start <= length_
  PROVE  \/ /\ FindKey(<<b>>, start) = NotFound
            /\ \A i \in start..length_-1 : ByteAt(i) # b
         \/ /\ FindKey(<<b>>, start) \in start..length_-1
            /\ ByteAt(FindKey(<<b>>, start)) = b
            /\ \A i \in start..FindKey(<<b>>, start)-1 : ByteAt(i) # b
<1>1. size \in Nat \ {0} /\ length_ \in 0..size /\ Len(<<b>>) = 1 /\ <<b>> # <<>>
  BY DEF TypeOK
<1>2. CASE start = length_
  <2>1. FindKey(<<b>>, start) = NotFound
    BY <1>1, <1>2, FindKeyCases
  <2> QED BY <1>1, <1>2, <2>1
<1>3. CASE start < length_
  <2>1. /\ Part1(start) \in 1..length_ - start /\ Part2(start) \in 0..length_-1
        /\ Part1(start) + Part2(start) = length_ - start
    BY <1>3, Parts
  <2>2. ~(<<b>> = <<>> \/ Len(<<b>>) > length_ \/ start >= length_)
        /\ ~(Part1(start) < Len(<<b>>))
    BY <1>1, <1>3, <2>1
  <2> DEFINE f1 == {i \in 0..Part1(start)-1 : ByteAt(start + i) = b}
             f2 == {i \in 0..Part2(start)-1 : ByteAt(start + Part1(start) + i) = b}
  <2>3. Found1(<<b>>, start) = f1 /\ Found2(<<b>>, start) = f2
    BY <1>3, ScansOneByte
  <2>4. f1 \in SUBSET Nat /\ f2 \in SUBSET Nat
    OBVIOUS
  <2>5. FindKey(<<b>>, start) =
          IF f1 # {} THEN start + LeastOf(f1)
          ELSE IF f2 # {} THEN start + Part1(start) + LeastOf(f2) ELSE NotFound
    <3> HIDE DEF f1, f2
    <3> QED BY <2>2, <2>3, FindKeyCases
  <2>6. CASE f1 # {}
    <3>1. LeastOf(f1) \in f1 /\ \A k \in f1 : LeastOf(f1) <= k
      BY <2>4, <2>6, LeastIs
    <3> DEFINE r == LeastOf(f1)
    <3>2. FindKey(<<b>>, start) = start + r
      BY <2>5, <2>6
    <3>3. r \in 0..Part1(start)-1 /\ ByteAt(start + r) = b
      BY <3>1
    <3>4. ASSUME NEW i \in start..(start + r)-1 PROVE ByteAt(i) # b
      <4>1. i - start \in 0..Part1(start)-1 /\ i - start < r /\ start + (i - start) = i
        BY <2>1, <3>3
      <4> HIDE DEF r
      <4>2. i - start \notin f1
        BY <3>1, <3>3, <4>1 DEF r
      <4> QED BY <4>1, <4>2
    <3> HIDE DEF r
    <3>5. start + r \in start..length_-1
      BY <1>1, <2>1, <3>3
    <3> QED BY <3>2, <3>3, <3>4, <3>5
  <2>7. CASE f1 = {}
    <3>1. ASSUME NEW i \in start..start+Part1(start)-1 PROVE ByteAt(i) # b
      <4>1. i - start \in 0..Part1(start)-1 /\ start + (i - start) = i
        BY <2>1
      <4> QED BY <2>7, <4>1
    <3>2. CASE f2 = {}
      <4>1. ASSUME NEW i \in start..length_-1 PROVE ByteAt(i) # b
        <5>1. CASE i < start + Part1(start)
          BY <2>1, <3>1, <5>1
        <5>2. CASE ~(i < start + Part1(start))
          <6>1. /\ i - start - Part1(start) \in 0..Part2(start)-1
                /\ start + Part1(start) + (i - start - Part1(start)) = i
            BY <1>1, <2>1, <5>2
          <6> QED BY <3>2, <6>1
        <5> QED BY <5>1, <5>2
      <4> QED BY <2>5, <2>7, <3>2, <4>1
    <3>3. CASE f2 # {}
      <4>1. LeastOf(f2) \in f2 /\ \A k \in f2 : LeastOf(f2) <= k
        BY <2>4, <3>3, LeastIs
      <4> DEFINE r == LeastOf(f2)
      <4>2. FindKey(<<b>>, start) = start + Part1(start) + r
        BY <2>5, <2>7, <3>3
      <4>3. r \in 0..Part2(start)-1 /\ ByteAt(start + Part1(start) + r) = b
        BY <4>1
      <4>4. ASSUME NEW i \in start..(start + Part1(start) + r)-1 PROVE ByteAt(i) # b
        <5>1. CASE i < start + Part1(start)
          BY <2>1, <3>1, <5>1
        <5>2. CASE ~(i < start + Part1(start))
          <6>1. /\ i - start - Part1(start) \in 0..Part2(start)-1
                /\ i - start - Part1(start) < r
                /\ start + Part1(start) + (i - start - Part1(start)) = i
            BY <1>1, <2>1, <4>3, <5>2
          <6>2. i - start - Part1(start) \notin f2
            <7> HIDE DEF r
            <7> QED BY <4>1, <4>3, <6>1 DEF r
          <6> QED BY <6>1, <6>2
        <5> QED BY <5>1, <5>2
      <4> HIDE DEF r
      <4>5. start + Part1(start) + r \in start..length_-1
        BY <1>1, <2>1, <4>3
      <4> QED BY <4>2, <4>3, <4>4, <4>5
    <3> QED BY <3>2, <3>3
  <2> QED BY <2>6, <2>7
<1> QED BY <1>1, <1>2, <1>3

(* The same, against the reference definition.                               *)
LEMMA FindsFirstOccurrence ==
  ASSUME TypeOK
  PROVE  FindKeyFindsOneByte
<1> SUFFICES ASSUME NEW b \in Byte, NEW start \in 0..length_
             PROVE  FindKey(<<b>>, start) = FirstOccurrence(<<b>>, Contents, start)
  BY DEF FindKeyFindsOneByte
<1>1. size \in Nat \ {0} /\ length_ \in 0..size /\ Len(<<b>>) = 1 /\ <<b>>[1] = b
      /\ start \in Nat
  BY DEF TypeOK
<1>2. Len(Contents) = length_ /\ \A i \in 0..length_-1 : Contents[i + 1] = ByteAt(i)
  BY StoredByteAt
<1> DEFINE found == {i \in start..Len(Contents) - Len(<<b>>) :
                       \A j \in 1..Len(<<b>>) : Contents[i + j] = <<b>>[j]}
           f == {i \in start..length_-1 : ByteAt(i) = b}
<1>3. found = f
  <2>1. \A j \in 1..1 : j = 1
    OBVIOUS
  <2>2. start..Len(Contents) - Len(<<b>>) = start..length_-1
    BY <1>1, <1>2
  <2>3. \A i \in start..length_-1 :
          (\A j \in 1..Len(<<b>>) : Contents[i + j] = <<b>>[j]) <=> Contents[i + 1] = b
    BY <1>1, <2>1
  <2>4. start..length_-1 \subseteq 0..length_-1
    BY <1>1
  <2> QED BY <1>2, <2>2, <2>3, <2>4
<1>4. FirstOccurrence(<<b>>, Contents, start) = IF f = {} THEN NotFound ELSE LeastOf(f)
  <2> HIDE DEF f
  <2> QED BY <1>3 DEF FirstOccurrence
<1>5. f \in SUBSET Nat
  BY <1>1
<1>6. CASE f = {}
  <2>1. FindKey(<<b>>, start) = NotFound
    BY <1>1, <1>6, FindKeyOneByte
  <2> QED BY <1>4, <1>6, <2>1
<1>7. CASE f # {}
  <2>1. LeastOf(f) \in f /\ \A k \in f : LeastOf(f) <= k
    BY <1>5, <1>7, LeastIs
  <2> DEFINE r == FindKey(<<b>>, start)
  <2>2. /\ r \in start..length_-1 /\ ByteAt(r) = b
        /\ \A i \in start..r-1 : ByteAt(i) # b
    <3>1. \E i \in start..length_-1 : ByteAt(i) = b
      BY <1>7
    <3> QED BY <1>1, <3>1, FindKeyOneByte
  <2> HIDE DEF r
  <2>3. r \in f
    BY <2>2
  <2>4. LeastOf(f) <= r
    BY <2>1, <2>3
  <2>5. ~(LeastOf(f) < r)
    <3> SUFFICES ASSUME LeastOf(f) < r PROVE FALSE
      OBVIOUS
    <3> DEFINE l == LeastOf(f)
    <3>1. l \in start..length_-1 /\ ByteAt(l) = b
      BY <2>1
    <3>2. l < r
      OBVIOUS
    <3> HIDE DEF l
    <3>3. l \in start..r-1
      BY <1>1, <2>2, <3>1, <3>2
    <3> QED BY <2>2, <3>1, <3>3
  <2>6. LeastOf(f) \in Nat /\ r \in Nat
    BY <1>1, <2>1, <2>2
  <2>7. LeastOf(f) = r
    <3> HIDE DEF f
    <3> QED BY <2>4, <2>5, <2>6
  <2> QED BY <1>4, <1>7, <2>7 DEF r
<1> QED BY <1>6, <1>7
-----------------------------------------------------------------------------
(* The steps of a call.                                                      *)

(* What a format's keys make of the model.                                   *)
LEMMA Keys ==
  ASSUME format \in Formats
  PROVE  /\ head_key_ \in Seq(Byte) /\ tail_key_ \in Seq(Byte)
         /\ Len(head_key_) \in Nat /\ Len(tail_key_) \in Nat
         /\ format.callbacks \in BOOLEAN
         /\ unpacker_model_ = "kHead" => head_key_ # <<>> /\ tail_key_ = <<>>
         /\ unpacker_model_ = "kHeadTail" =>
              head_key_ # <<>> /\ tail_key_ # <<>> /\ ~format.callbacks
         /\ unpacker_model_ = "KHeadTailCb" =>
              head_key_ # <<>> /\ tail_key_ # <<>> /\ format.callbacks
<1>1. format \in [head : Seq(Byte), tail : Seq(Byte), callbacks : BOOLEAN]
  BY UnPackerAssumption
<1>2. head_key_ \in Seq(Byte) /\ tail_key_ \in Seq(Byte) /\ format.callbacks \in BOOLEAN
  BY <1>1 DEF head_key_, tail_key_
<1> QED BY <1>2 DEF unpacker_model_

LEMMA OneByteIsTuple ==
  ASSUME NEW s \in Seq(Byte), Len(s) = 1
  PROVE  s = <<s[1]>> /\ s[1] \in Byte /\ s # <<>>
OBVIOUS

(* A key that is not empty and no longer than a byte is one byte.            *)
LEMMA OneByteKey ==
  ASSUME NEW s \in Seq(Byte), s # <<>>, Len(s) <= 1
  PROVE  Len(s) = 1 /\ s = <<s[1]>> /\ s[1] \in Byte
<1>1. Len(s) \in Nat \ {0}
  BY EmptySeq
<1> DEFINE l == Len(s)
<1>2. l \in Nat \ {0} /\ l <= 1
  BY <1>1
<1> HIDE DEF l
<1>3. l = 1
  BY <1>2
<1>4. Len(s) = 1
  BY <1>3 DEF l
<1> QED BY <1>4, OneByteIsTuple

(* The length a packet states is a byte of the buffer, or any other.         *)
LEMMA StatedLengthIsByte ==
  ASSUME TypeOK, format \in Formats, NEW head_offset \in Nat,
         NEW data_size \in StatedLengths(head_offset)
  PROVE  data_size \in Byte /\ data_size \in Nat
<1>1. /\ size \in Nat \ {0} /\ read_index_ \in 0..size-1
      /\ buffer_ \in [0..size-1 -> Byte] /\ Byte \subseteq Nat
  BY UnPackerAssumption DEF TypeOK
<1> DEFINE slot == (read_index_ + head_offset) % size
           at == slot + Len(head_key_)
<1>2. slot \in 0..size-1
  BY <1>1, ModRange
<1> HIDE DEF slot
<1>3. at \in Nat
  BY <1>2, Keys
<1> HIDE DEF at
<1>4. StatedLengths(head_offset) = IF at < size THEN {buffer_[at]} ELSE Byte
  BY DEF StatedLengths, at, slot
<1>5. at < size => at \in 0..size-1
  BY <1>1, <1>3
<1>6. at < size => buffer_[at] \in Byte
  BY <1>1, <1>5
<1>7. data_size \in Byte
  BY <1>4, <1>6
<1> QED BY <1>1, <1>7

(* What an iteration has established when it cuts n bytes at head_offset.    *)
KeyedCut(head_offset, n) ==
  LET end_offset == EndOffset(head_offset)
  IN  /\ unpacker_model_ \in {"kHead", "kHeadTail"}
      /\ end_offset \notin {NotFound, Never}
      /\ n = IF unpacker_model_ = "kHead" THEN end_offset - head_offset
             ELSE end_offset + Len(tail_key_) - head_offset

StatedCut(head_offset, n) ==
  /\ unpacker_model_ = "KHeadTailCb"
  /\ \E data_size \in StatedLengths(head_offset) :
       LET expected_tail_offset == head_offset + HeadSize + data_size
       IN  /\ n = PacketSize(data_size)
           /\ head_offset + n <= parse.total_size
           /\ FindKey(tail_key_, expected_tail_offset) = expected_tail_offset

Cut(head_offset, n) ==
  /\ Parsing
  /\ head_offset = FindKey(head_key_, parse.current_pos)
  /\ head_offset \notin {NotFound, Never}
  /\ KeyedCut(head_offset, n) \/ StatedCut(head_offset, n)

Skip(head_offset) ==
  /\ Parsing
  /\ head_offset = FindKey(head_key_, parse.current_pos)
  /\ head_offset \notin {NotFound, Never}
  /\ unpacker_model_ = "KHeadTailCb"
  /\ SkipHead(head_offset)

Stop ==
  /\ parse.at = "parsing"
  /\ StopParsing \/ Hang

(* An iteration ends the call, goes on behind a head key, or cuts a packet.  *)
LEMMA IterateCases ==
  ASSUME Iterate
  PROVE  \/ Stop
         \/ \E head_offset : Skip(head_offset)
         \/ \E head_offset, n : Cut(head_offset, n) /\ Extract(head_offset, n)
<1>1. CASE parse.at = "parsing" /\ ~Parsing /\ StopParsing
  BY <1>1 DEF Stop
<1>2. CASE ~(parse.at = "parsing" /\ ~Parsing /\ StopParsing)
  <2>1. /\ Parsing /\ parse.at = "parsing"
        /\ \E head_offset \in {FindKey(head_key_, parse.current_pos)} :
             \/ head_offset = NotFound /\ StopParsing
             \/ head_offset = Never /\ Hang
             \/ /\ head_offset \notin {NotFound, Never}
                /\ ExtractKeyed(head_offset) \/ ExtractStated(head_offset)
    BY <1>2 DEF Iterate, Parsing
  <2>2. PICK head_offset :
             /\ head_offset = FindKey(head_key_, parse.current_pos)
             /\ \/ head_offset = NotFound /\ StopParsing
                \/ head_offset = Never /\ Hang
                \/ /\ head_offset \notin {NotFound, Never}
                   /\ ExtractKeyed(head_offset) \/ ExtractStated(head_offset)
    BY <2>1
  <2>3. CASE ~(head_offset \notin {NotFound, Never})
    BY <2>1, <2>2, <2>3 DEF Stop
  <2>4. CASE head_offset \notin {NotFound, Never} /\ ExtractKeyed(head_offset)
    <3>1. PICK end_offset :
            /\ end_offset = EndOffset(head_offset)
            /\ \/ end_offset = NotFound /\ StopParsing
               \/ end_offset = Never /\ Hang
               \/ /\ end_offset \notin {NotFound, Never}
                  /\ Extract(head_offset,
                             IF unpacker_model_ = "kHead" THEN end_offset - head_offset
                             ELSE end_offset + Len(tail_key_) - head_offset)
      BY <2>4 DEF ExtractKeyed
    <3>2. CASE ~(end_offset \notin {NotFound, Never})
      BY <2>1, <3>1, <3>2 DEF Stop
    <3>3. CASE end_offset \notin {NotFound, Never}
      <4> DEFINE n == IF unpacker_model_ = "kHead" THEN end_offset - head_offset
                      ELSE end_offset + Len(tail_key_) - head_offset
      <4>1. Extract(head_offset, n)
        BY <3>1, <3>3
      <4>2. KeyedCut(head_offset, n)
        BY <2>4, <3>1, <3>3 DEF KeyedCut, ExtractKeyed
      <4>3. Cut(head_offset, n)
        BY <2>1, <2>2, <2>4, <4>2 DEF Cut
      <4> QED BY <4>1, <4>3
    <3> QED BY <3>2, <3>3
  <2>5. CASE head_offset \notin {NotFound, Never} /\ ExtractStated(head_offset)
    <3> DEFINE tail_at(d) == head_offset + HeadSize + d
    <3>1. unpacker_model_ = "KHeadTailCb"
      BY <2>5 DEF ExtractStated
    <3>2. PICK data_size \in StatedLengths(head_offset) :
            \/ SkipHead(head_offset)
            \/ FindKey(tail_key_, tail_at(data_size)) = Never /\ Hang
            \/ /\ head_offset + PacketSize(data_size) <= parse.total_size
               /\ FindKey(tail_key_, tail_at(data_size)) = tail_at(data_size)
               /\ Extract(head_offset, PacketSize(data_size))
      BY <2>5 DEF ExtractStated
    <3>3. CASE SkipHead(head_offset)
      BY <2>1, <2>2, <2>5, <3>1, <3>3 DEF Skip
    <3>4. CASE Hang
      BY <2>1, <3>4 DEF Stop
    <3>5. CASE /\ head_offset + PacketSize(data_size) <= parse.total_size
               /\ FindKey(tail_key_, tail_at(data_size)) = tail_at(data_size)
               /\ Extract(head_offset, PacketSize(data_size))
      <4>1. StatedCut(head_offset, PacketSize(data_size))
        BY <3>1, <3>5 DEF StatedCut
      <4>2. Cut(head_offset, PacketSize(data_size))
        BY <2>1, <2>2, <2>5, <4>1 DEF Cut
      <4> QED BY <3>5, <4>2
    <3> QED BY <3>2, <3>3, <3>4, <3>5
  <2> QED BY <2>2, <2>3, <2>4, <2>5
<1> QED BY <1>1, <1>2

(* Where a cut begins, and how long it is at least.                          *)
LEMMA CutSizes ==
  ASSUME UnPackerTypeOK, NEW head_offset, NEW n, Cut(head_offset, n)
  PROVE  /\ head_offset \in Nat /\ head_offset >= parse.current_pos
         /\ Len(head_key_) \in 1..length_
         /\ MatchAt(head_key_, (read_index_ + head_offset) % size)
         /\ n \in Nat /\ n >= Len(head_key_)
<1>1. /\ TypeOK /\ format \in Formats /\ parse.current_pos \in Nat /\ parse.total_size \in Nat
      /\ size \in Nat
  BY DEF UnPackerTypeOK, TypeOK
<1>2. /\ head_key_ \in Seq(Byte) /\ tail_key_ \in Seq(Byte)
      /\ Len(head_key_) \in Nat /\ Len(tail_key_) \in Nat
  BY <1>1, Keys
<1>3. /\ head_offset \in Nat /\ head_offset >= parse.current_pos
      /\ Len(head_key_) \in 1..length_
      /\ MatchAt(head_key_, (read_index_ + head_offset) % size)
  BY <1>1, <1>2, FindKeyOutcome DEF Cut
<1>4. CASE KeyedCut(head_offset, n)
  <2> DEFINE end == EndOffset(head_offset)
             key == IF unpacker_model_ = "kHead" THEN head_key_ ELSE tail_key_
  <2>1. /\ end = FindKey(key, head_offset + Len(head_key_))
        /\ key \in Seq(Byte) /\ head_offset + Len(head_key_) \in Nat
        /\ end \notin {NotFound, Never}
    BY <1>2, <1>3, <1>4 DEF EndOffset, KeyedCut
  <2> HIDE DEF key
  <2>2. end \in Nat /\ end >= head_offset + Len(head_key_)
    BY <1>1, <2>1, FindKeyOutcome
  <2>3. n = IF unpacker_model_ = "kHead" THEN end - head_offset
            ELSE end + Len(tail_key_) - head_offset
    BY <1>4 DEF KeyedCut
  <2> HIDE DEF end
  <2> QED BY <1>2, <1>3, <2>2, <2>3
<1>5. CASE StatedCut(head_offset, n)
  <2>1. PICK d \in StatedLengths(head_offset) : n = PacketSize(d)
    BY <1>5 DEF StatedCut
  <2>2. d \in Nat
    BY <1>1, <1>3, StatedLengthIsByte
  <2> QED BY <1>2, <1>3, <2>1, <2>2 DEF PacketSize, HeadSize
<1> QED BY <1>3, <1>4, <1>5 DEF Cut

(* What the property asks of one packet.                                     *)
Framed(packet) ==
  /\ StartsWith(packet, head_key_)
  /\ OneByteKeys \/ format.callbacks => EndsWith(packet, tail_key_)

LEMMA CutIsFramed ==
  ASSUME UnPackerTypeOK, NEW head_offset, NEW n, Cut(head_offset, n),
         NEW packet \in PacketsAt(head_offset, n)
  PROVE  packet \in Seq(Byte) /\ Framed(packet)
<1>1. /\ TypeOK /\ format \in Formats /\ parse.current_pos \in Nat
      /\ parse.total_size \in 0..size
      /\ size \in Nat \ {0} /\ length_ \in 0..size
  BY DEF UnPackerTypeOK, TypeOK
<1>2. /\ head_key_ \in Seq(Byte) /\ tail_key_ \in Seq(Byte)
      /\ Len(head_key_) \in Nat /\ Len(tail_key_) \in Nat
  BY <1>1, Keys
<1>3. /\ head_offset \in Nat /\ n \in Nat /\ n >= Len(head_key_)
      /\ Len(head_key_) \in 1..length_
      /\ MatchAt(head_key_, (read_index_ + head_offset) % size)
  BY CutSizes
<1>4. packet \in Seq(Byte)
  BY <1>1, <1>3, PacketBytes
<1>5. StartsWith(packet, head_key_)
  BY <1>1, <1>2, <1>3, CutStartsWithKey
<1>6. ASSUME OneByteKeys \/ format.callbacks PROVE EndsWith(packet, tail_key_)
  <2> DEFINE l == Len(tail_key_)
  <2>1. ASSUME tail_key_ # <<>>
        PROVE  /\ n <= size /\ head_offset <= size /\ l <= n
               /\ MatchAt(tail_key_, (read_index_ + (head_offset + n - l)) % size)
    <3>1. l \in Nat \ {0}
      BY <1>2, <2>1, EmptySeq
    <3>2. CASE KeyedCut(head_offset, n)
      <4> DEFINE end == EndOffset(head_offset)
                 b == tail_key_[1]
      <4>1. unpacker_model_ = "kHeadTail" /\ ~format.callbacks
        BY <1>1, <2>1, <3>2, Keys DEF KeyedCut, unpacker_model_
      <4>2. Len(head_key_) = 1 /\ Len(tail_key_) = 1 /\ Len(tail_key_) <= 1
        BY <1>2, <1>6, <3>1, <4>1 DEF OneByteKeys
      <4>3. tail_key_ = <<b>> /\ b \in Byte
        BY <1>2, <4>2, OneByteIsTuple
      <4>4. end = FindKey(tail_key_, head_offset + 1) /\ end \notin {NotFound, Never}
        BY <3>2, <4>1, <4>2 DEF EndOffset, KeyedCut
      <4>5. n = end + 1 - head_offset
        BY <3>2, <4>1, <4>2 DEF KeyedCut
      <4> HIDE DEF end, b
      <4>6. head_offset + 1 \in Nat
        BY <1>3
      <4>7. end \in Nat /\ end >= head_offset + 1
            /\ MatchAt(tail_key_, (read_index_ + end) % size)
        BY <1>1, <1>2, <4>4, <4>6, FindKeyOutcome
      <4>8. head_offset + 1 < length_
        BY <1>1, <1>3, <2>1, <4>4, FindKeyCases
      <4>9. end \in head_offset+1..length_-1
        BY <1>1, <4>3, <4>4, <4>6, <4>8, FindKeyOneByte
      <4>10. head_offset + n - 1 = end /\ n \in 1..size /\ head_offset <= size
        BY <1>1, <1>3, <4>5, <4>9
      <4> QED BY <1>3, <4>2, <4>7, <4>10
    <3>3. CASE StatedCut(head_offset, n)
      <4>1. PICK d \in StatedLengths(head_offset) :
              /\ n = PacketSize(d)
              /\ head_offset + n <= parse.total_size
              /\ FindKey(tail_key_, head_offset + HeadSize + d) = head_offset + HeadSize + d
        BY <3>3 DEF StatedCut
      <4>2. d \in Nat
        BY <1>1, <1>3, StatedLengthIsByte
      <4> DEFINE at == head_offset + HeadSize + d
      <4>3. n = HeadSize + d + l /\ HeadSize \in Nat
        BY <1>2, <4>1 DEF PacketSize, HeadSize
      <4>4. at = head_offset + n - l /\ n <= size /\ head_offset <= size /\ l <= n
            /\ at \in 0..size-1
        BY <1>1, <1>3, <3>1, <4>1, <4>2, <4>3
      <4> HIDE DEF at
      <4>5. FindKey(tail_key_, at) = at
        BY <4>1 DEF at
      <4>6. at \notin {NotFound, Never} /\ at \in Nat
        BY <1>1, <4>4 DEF NotFound, Never
      <4>7. MatchAt(tail_key_, (read_index_ + at) % size)
        BY <1>1, <1>2, <4>5, <4>6, FindKeyOutcome
      <4> QED BY <4>4, <4>7
    <3> QED BY <3>2, <3>3 DEF Cut
  <2> QED BY <1>1, <1>2, <1>3, <2>1, CutEndsWithKey
<1> QED BY <1>4, <1>5, <1>6 DEF Framed
-----------------------------------------------------------------------------
(***************************************************************************)
(* What every step preserves: the ring's own invariant, the types, and     *)
(* that what the call has cut so far is framed.                            *)
(***************************************************************************)
UInv == IInv /\ UnPackerTypeOK /\ PacketsAreFramed

LEMMA InitUInv == InitUnPacker => UInv
<1> SUFFICES ASSUME InitUnPacker PROVE UInv
  OBVIOUS
<1>1. IInv /\ TypeOK /\ size \in Nat \ {0}
  BY InitIInv DEF InitUnPacker, IInv, TypeOK
<1>2. read_data = <<>> /\ parse = Idle /\ format \in Formats
  BY DEF InitUnPacker
<1>3. UnPackerTypeOK
  BY <1>1, <1>2 DEF UnPackerTypeOK, Idle
<1>4. PacketsAreFramed
  BY <1>2 DEF PacketsAreFramed
<1> QED BY <1>1, <1>3, <1>4 DEF UInv

(* The parsing loop's place, in each of the forms a step leaves it in.       *)
LEMMA ParseTypes ==
  ASSUME UnPackerTypeOK
  PROVE  /\ Idle \in [at : {"idle", "parsing", "hung"}, current_pos : Nat, total_size : 0..size]
         /\ parse.at = "parsing" =>
              /\ \A pos \in Nat :
                   LET p == [parse EXCEPT !.current_pos = pos]
                   IN  /\ p \in [at : {"idle", "parsing", "hung"}, current_pos : Nat,
                                 total_size : 0..size]
                       /\ p.at = "parsing" /\ p # Idle
                       /\ p.current_pos = pos /\ p.total_size = parse.total_size
              /\ LET p == [parse EXCEPT !.at = "hung"]
                 IN  /\ p \in [at : {"idle", "parsing", "hung"}, current_pos : Nat,
                               total_size : 0..size]
                     /\ p.at = "hung" /\ p # Idle
<1>1. size \in Nat /\ parse \in [at : {"idle", "parsing", "hung"}, current_pos : Nat,
                                 total_size : 0..size]
  BY DEF UnPackerTypeOK, TypeOK
<1> QED BY <1>1 DEF Idle

(* A call: its write, and the loop set up over what is then stored.          *)
LEMMA CallUInv ==
  ASSUME UInv, GetPack, IInv', size' = size
  PROVE  UInv'
<1>1. /\ format' = format /\ read_data' = <<>>
      /\ parse' = Idle
         \/ parse' = [at |-> "parsing", current_pos |-> 0, total_size |-> length_']
  BY DEF GetPack
<1>2. TypeOK' /\ size' \in Nat /\ length_' \in 0..size' /\ format \in Formats
  BY DEF IInv, TypeOK, UInv, UnPackerTypeOK
<1>3. UnPackerTypeOK'
  BY <1>1, <1>2 DEF UnPackerTypeOK, Idle
<1>4. PacketsAreFramed'
  BY <1>1 DEF PacketsAreFramed
<1> QED BY <1>3, <1>4 DEF UInv

LEMMA UnchangedUInv ==
  ASSUME UInv, UNCHANGED <<vars, format, read_data>>,
         parse' \in [at : {"idle", "parsing", "hung"}, current_pos : Nat, total_size : 0..size],
         parse'.at = "idle" <=> parse' = Idle
  PROVE  UInv'
<1>1. /\ size' = size /\ buffer_' = buffer_ /\ read_index_' = read_index_
      /\ write_index_' = write_index_ /\ length_' = length_
      /\ format' = format /\ read_data' = read_data
  BY DEF vars, indices
<1>2. IInv'
  BY <1>1 DEF UInv, IInv, TypeOK, IndexCoherence
<1>3. UnPackerTypeOK'
  BY <1>1, <1>2 DEF UInv, UnPackerTypeOK, IInv, Idle
<1>4. PacketsAreFramed'
  BY <1>1 DEF UInv, PacketsAreFramed, head_key_, tail_key_, OneByteKeys
<1> QED BY <1>2, <1>3, <1>4 DEF UInv

(* A cut: the packet joins the framed ones, and what was read is dropped.    *)
LEMMA CutUInv ==
  ASSUME UInv, NEW head_offset, NEW n, Cut(head_offset, n), Extract(head_offset, n)
  PROVE  /\ UInv'
         /\ \E packet \in PacketsAt(head_offset, n) :
              read_data' = Append(read_data, packet) /\ Len(packet) = n
         /\ parse' = [parse EXCEPT !.current_pos = head_offset + n]
         /\ UNCHANGED <<format, paced>>
         /\ n <= length_ => AdvanceRead(n)
<1>1. UnPackerTypeOK /\ IInv /\ TypeOK /\ format \in Formats /\ read_data \in Seq(Seq(Byte))
  BY DEF UInv, UnPackerTypeOK
<1>2. head_offset \in Nat /\ n \in Nat
  BY <1>1, CutSizes
<1>3. PICK packet \in PacketsAt(head_offset, n) : read_data' = Append(read_data, packet)
  BY DEF Extract
<1>4. packet \in Seq(Byte) /\ Framed(packet) /\ Len(packet) = n
  BY <1>1, <1>2, CutIsFramed, PacketBytes
<1>5. /\ parse' = [parse EXCEPT !.current_pos = head_offset + n]
      /\ format' = format /\ paced' = paced /\ CommitReadSize(n)
  BY DEF Extract, Continue
<1>6. n <= length_ => AdvanceRead(n)
  BY <1>1, <1>2, <1>5 DEF CommitReadSize, AvailableToRead, TypeOK
<1>7. IInv' /\ size' = size
  <2>1. CASE Refused("kErrorInvalidSize")
    BY <1>1, <2>1 DEF Refused, indices, IInv, TypeOK, IndexCoherence
  <2>2. CASE n <= AvailableToRead /\ AdvanceRead(n)
    BY <1>1, <1>2, <2>2, AdvanceReadInv DEF AdvanceRead
  <2> QED BY <1>5, <2>1, <2>2 DEF CommitReadSize
<1>8. parse.at = "parsing"
  BY DEF Cut, Parsing
<1>9. UnPackerTypeOK'
  <2>1. head_offset + n \in Nat
    BY <1>2
  <2>2. /\ parse' \in [at : {"idle", "parsing", "hung"}, current_pos : Nat, total_size : 0..size]
        /\ parse'.at = "parsing" /\ parse' # Idle
    BY <1>1, <1>5, <1>8, <2>1, ParseTypes
  <2>3. read_data' \in Seq(Seq(Byte))
    BY <1>1, <1>3, <1>4
  <2>4. TypeOK'
    BY <1>7 DEF IInv
  <2> QED BY <1>1, <1>5, <1>7, <2>2, <2>3, <2>4 DEF UnPackerTypeOK, Idle
<1>10. PacketsAreFramed'
  <2>1. \A i \in 1..Len(read_data) : Framed(read_data[i])
    BY DEF UInv, PacketsAreFramed, Framed
  <2>2. ASSUME NEW i \in 1..Len(read_data') PROVE Framed(read_data'[i])
    <3>1. CASE i = Len(read_data) + 1
      BY <1>1, <1>3, <1>4, <3>1
    <3>2. CASE i # Len(read_data) + 1
      BY <1>1, <1>3, <1>4, <2>1, <3>2
    <3> QED BY <3>1, <3>2
  <2>3. /\ head_key_' = head_key_ /\ tail_key_' = tail_key_ /\ OneByteKeys' = OneByteKeys
        /\ format'.callbacks = format.callbacks
    BY <1>5 DEF head_key_, tail_key_, OneByteKeys
  <2> QED BY <2>2, <2>3 DEF PacketsAreFramed, Framed
<1> QED BY <1>3, <1>4, <1>5, <1>6, <1>7, <1>9, <1>10 DEF UInv

(* Going on behind a head key.                                               *)
LEMMA SkipUInv ==
  ASSUME UInv, NEW head_offset, Skip(head_offset)
  PROVE  /\ UInv' /\ head_offset \in Nat /\ head_offset >= parse.current_pos
         /\ UNCHANGED <<vars, format, read_data, paced>>
         /\ parse' = [parse EXCEPT !.current_pos = head_offset + 1]
<1>1. UnPackerTypeOK /\ TypeOK /\ format \in Formats /\ parse.current_pos \in Nat
  BY DEF UInv, UnPackerTypeOK
<1>2. head_offset \in Nat /\ head_offset >= parse.current_pos
  BY <1>1, Keys, FindKeyOutcome DEF Skip
<1>3. /\ UNCHANGED <<vars, format, read_data, paced>>
      /\ parse' = [parse EXCEPT !.current_pos = head_offset + 1]
      /\ parse.at = "parsing"
  BY DEF Skip, SkipHead, Continue, Parsing
<1>4. head_offset + 1 \in Nat
  BY <1>2
<1>5. /\ parse' \in [at : {"idle", "parsing", "hung"}, current_pos : Nat, total_size : 0..size]
      /\ parse'.at = "parsing" /\ parse' # Idle
  BY <1>1, <1>3, <1>4, ParseTypes
<1>6. UInv'
  BY <1>3, <1>5, UnchangedUInv
<1> QED BY <1>2, <1>3, <1>6

LEMMA StopUInv ==
  ASSUME UInv, Stop
  PROVE  /\ UInv' /\ parse'.at \in {"idle", "hung"}
         /\ UNCHANGED <<vars, format, read_data, paced>>
<1>1. UnPackerTypeOK /\ parse.at = "parsing"
  BY DEF UInv, Stop
<1>2. /\ UNCHANGED <<vars, format, read_data, paced>>
      /\ parse' = Idle \/ parse' = [parse EXCEPT !.at = "hung"]
  BY DEF Stop, StopParsing, Hang
<1>3. /\ parse' \in [at : {"idle", "parsing", "hung"}, current_pos : Nat, total_size : 0..size]
      /\ parse'.at = "idle" <=> parse' = Idle
      /\ parse'.at \in {"idle", "hung"}
  BY <1>1, <1>2, ParseTypes DEF Idle
<1> QED BY <1>2, <1>3, UnchangedUInv

(* A write pushes into the ring as any writer does.                          *)
LEMMA PushUInv ==
  ASSUME UInv, NEW w \in Transfers, PushAndGet(w)
  PROVE  UInv'
<1>1. Write(w) /\ GetPack /\ IInv
  BY DEF PushAndGet, UInv
<1>2. IInv'
  BY <1>1, NextIInv DEF Next, Transfer
<1>3. size' = size
  BY <1>1 DEF Write, Refused, AdvanceWrite
<1> QED BY <1>1, <1>2, <1>3, CallUInv

LEMMA GetUInv == UInv /\ Get => UInv'
<1> SUFFICES ASSUME UInv, Get PROVE UInv'
  OBVIOUS
<1>1. GetPack /\ UNCHANGED vars /\ IInv
  BY DEF Get, UInv
<1>2. IInv' /\ size' = size
  BY <1>1, NextIInv DEF vars
<1> QED BY <1>1, <1>2, CallUInv

LEMMA NextUInv == UInv /\ [NextUnPacker]_unpackerVars => UInv'
<1> SUFFICES ASSUME UInv, [NextUnPacker]_unpackerVars PROVE UInv'
  OBVIOUS
<1>1. CASE \E w \in Transfers : Paced(w) /\ PushAndGet(w)
  BY <1>1, PushUInv
<1>2. CASE Get
  BY <1>2, GetUInv
<1>3. CASE Iterate
  BY <1>3, IterateCases, CutUInv, SkipUInv, StopUInv
<1>4. CASE UNCHANGED unpackerVars
  BY <1>4, UnchangedUInv DEF UInv, UnPackerTypeOK, unpackerVars
<1> QED BY <1>1, <1>2, <1>3, <1>4 DEF NextUnPacker, ScanOn

LEMMA UInvAlways == SpecUnPacker => []UInv
BY InitUInv, NextUInv, PTL DEF SpecUnPacker

(* The loop's offsets, and what the calls hand out, stay in their types for  *)
(* every format: no iteration reads a key or a length outside the storage    *)
(* without the model saying so.                                              *)
THEOREM UnPackerTypeCorrect == SpecUnPacker => []UnPackerTypeOK
<1>1. UInv => UnPackerTypeOK
  BY DEF UInv
<1> QED BY <1>1, UInvAlways, PTL

(* GetPack never hands out a packet that does not start with the head key,   *)
(* nor, with keys of one byte or a stated length, one that does not end with *)
(* the tail key.                                                             *)
THEOREM EveryPacketIsFramed == SpecUnPacker => []PacketsAreFramed
<1>1. UInv => PacketsAreFramed
  BY DEF UInv
<1> QED BY <1>1, UInvAlways, PTL

(* FindKey finds a key of one byte where it first is, whatever the storage's *)
(* size, and wherever the stored bytes wrap around.                          *)
THEOREM OneByteKeysAreFound == SpecUnPacker => []FindKeyFindsOneByte
<1>1. UInv => FindKeyFindsOneByte
  BY FindsFirstOccurrence DEF UInv, IInv
<1> QED BY <1>1, UInvAlways, PTL
-----------------------------------------------------------------------------
(***************************************************************************)
(* A peer that waits.  While its bytes come in, the ring holds one packet  *)
(* at most and the start of the next, so the head key is in two places at  *)
(* most.  After a cut only the start is left, and the loop, whose place is *)
(* not adjusted to what was committed, finds no head key behind it.        *)
(***************************************************************************)
HeadOnlyFirst(s) == \A i \in 2..Len(s) : s[i] # head_key_[1]

Settled == PacedStream(Contents) \/ HeadOnlyFirst(Contents)

AtStart == parse.total_size = length_ /\ parse.current_pos = 0 /\ Settled

PastHead ==
  /\ parse.total_size = length_ /\ parse.current_pos >= 1
  /\ unpacker_model_ = "KHeadTailCb" /\ PacedStream(Contents)

PastCut == parse.current_pos >= 1 /\ HeadOnlyFirst(Contents)

PInv ==
  paced =>
    /\ OneByteKeys
    /\ parse.at = "idle" => Settled
    /\ parse.at = "parsing" => AtStart \/ PastHead \/ PastCut

(* The start of a packet has the head key nowhere but at its front.          *)
LEMMA PartShape ==
  ASSUME NEW s \in Seq(Byte), IsPart(s), OneByteKeys, format \in Formats
  PROVE  /\ HeadOnlyFirst(s)
         /\ unpacker_model_ = "KHeadTailCb" => \A i \in 3..Len(s) : s[i] # tail_key_[1]
<1>0. format.callbacks \in BOOLEAN
  BY Keys
<1>1. CASE s = <<>>
  <2>1. Len(s) = 0
    BY <1>1
  <2> QED BY <2>1 DEF HeadOnlyFirst
<1>2. CASE s # <<>>
  <2>1. /\ IsStart(s) /\ Len(s) \in Nat
        /\ IF format.callbacks
           THEN Len(s) >= 2 => Len(s) < s[2] + 3 /\ Body(s, 3, Len(s))
           ELSE Body(s, 2, Len(s))
    BY <1>2 DEF IsPart
  <2>2. CASE format.callbacks
    <3>0. unpacker_model_ = "KHeadTailCb" =>
            tail_key_ = <<tail_key_[1]>> /\ tail_key_ # <<>>
      BY Keys, OneByteKey DEF OneByteKeys
    <3>1. Len(s) >= 2 => s[2] # head_key_[1]
      BY <2>1, <2>2 DEF IsStart
    <3>2. ASSUME NEW i \in 2..Len(s) PROVE s[i] # head_key_[1]
      <4>1. CASE i = 2
        BY <2>1, <3>1, <4>1
      <4>2. CASE i # 2
        <5>1. i \in 3..Len(s) /\ Len(s) >= 2
          BY <2>1, <4>2
        <5> QED BY <2>1, <2>2, <5>1 DEF Body
      <4> QED BY <4>1, <4>2
    <3>3. ASSUME unpacker_model_ = "KHeadTailCb", NEW i \in 3..Len(s)
          PROVE  s[i] # tail_key_[1]
      <4>1. Len(s) >= 2
        BY <2>1
      <4>2. tail_key_ # <<s[i]>> /\ tail_key_ = <<tail_key_[1]>>
        BY <2>1, <2>2, <3>0, <3>3, <4>1 DEF Body
      <4> QED BY <4>2
    <3> QED BY <3>2, <3>3 DEF HeadOnlyFirst
  <2>3. CASE ~format.callbacks
    <3>1. unpacker_model_ # "KHeadTailCb"
      BY <2>3, Keys
    <3> QED BY <2>1, <2>3, <3>1 DEF Body, HeadOnlyFirst
  <2> QED BY <1>0, <2>2, <2>3
<1> QED BY <1>1, <1>2

(* A packet has the head key at its front, and at its end if that is also    *)
(* the tail key; the tail key is at its end, but for a length byte.          *)
LEMMA PacketShape ==
  ASSUME NEW s \in Seq(Byte), IsPacket(s), OneByteKeys, format \in Formats
  PROVE  /\ Len(s) >= 1 /\ s[1] = head_key_[1]
         /\ \A i \in 2..Len(s)-1 : s[i] # head_key_[1]
         /\ unpacker_model_ = "kHead" => \A i \in 2..Len(s) : s[i] # head_key_[1]
         /\ unpacker_model_ = "kHeadTail" => \A i \in 2..Len(s)-1 : s[i] # tail_key_[1]
         /\ unpacker_model_ = "KHeadTailCb" =>
              /\ Len(s) >= 3 /\ s[Len(s)] = tail_key_[1]
              /\ \A i \in 3..Len(s)-1 : s[i] # tail_key_[1]
<1>1. Len(s) \in Nat /\ IsStart(s) /\ s # <<>> /\ s[1] = head_key_[1] /\ Len(s) >= 1
  BY DEF IsPacket, IsStart
<1>2. format.callbacks =>
        /\ Len(s) >= 3 /\ Body(s, 3, Len(s) - 1)
        /\ Len(s) >= 2 => s[2] # head_key_[1]
  BY DEF IsPacket, IsStart
<1>3. ~format.callbacks => Body(s, 2, Len(s) - 1)
  BY DEF IsPacket, IsStart
<1>4. IF tail_key_ = <<>> THEN Body(s, 2, Len(s)) ELSE s[Len(s)] = tail_key_[1]
  BY DEF IsPacket
<1>5. /\ tail_key_ \in Seq(Byte) /\ Len(tail_key_) <= 1
      /\ tail_key_ # <<>> => tail_key_ = <<tail_key_[1]>>
  <2>1. tail_key_ \in Seq(Byte) /\ Len(tail_key_) <= 1 /\ Len(tail_key_) \in Nat
    BY Keys DEF OneByteKeys
  <2> QED BY <2>1, OneByteKey
<1>6. ASSUME NEW i \in 2..Len(s)-1 PROVE s[i] # head_key_[1]
  <2>1. CASE ~format.callbacks
    BY <1>3, <1>6, <2>1 DEF Body
  <2>2. CASE format.callbacks
    <3>1. CASE i = 2
      BY <1>1, <1>2, <1>6, <2>2, <3>1
    <3>2. CASE i # 2
      <4>1. i \in 3..Len(s)-1
        BY <1>1, <1>6, <3>2
      <4> QED BY <1>2, <2>2, <4>1 DEF Body
    <3> QED BY <3>1, <3>2
  <2> QED BY <2>1, <2>2
<1>7. unpacker_model_ = "kHead" => \A i \in 2..Len(s) : s[i] # head_key_[1]
  BY <1>4, Keys DEF Body
<1>8. unpacker_model_ = "kHeadTail" => \A i \in 2..Len(s)-1 : s[i] # tail_key_[1]
  BY <1>3, <1>5, Keys DEF Body
<1>9. unpacker_model_ = "KHeadTailCb" =>
        /\ Len(s) >= 3 /\ s[Len(s)] = tail_key_[1]
        /\ \A i \in 3..Len(s)-1 : s[i] # tail_key_[1]
  BY <1>2, <1>4, <1>5, Keys DEF Body
<1> QED BY <1>1, <1>6, <1>7, <1>8, <1>9

(* What is stored while a peer waits: the packet is its first k bytes.       *)
OnePacket(s, k) ==
  /\ s[1] = head_key_[1]
  /\ \A i \in 2..Len(s) : s[i] = head_key_[1] => i \in {k, k + 1}
  /\ unpacker_model_ = "kHead" => \A i \in 2..k : s[i] # head_key_[1]
  /\ unpacker_model_ = "kHeadTail" => \A i \in 2..k-1 : s[i] # tail_key_[1]
  /\ unpacker_model_ = "KHeadTailCb" =>
       /\ k >= 3 /\ s[k] = tail_key_[1]
       /\ \A i \in 3..k-1 : s[i] # tail_key_[1]
       /\ \A i \in k+3..Len(s) : s[i] # tail_key_[1]

LEMMA StreamShape ==
  ASSUME NEW s \in Seq(Byte), PacedStream(s), OneByteKeys, format \in Formats
  PROVE  HeadOnlyFirst(s) \/ \E k \in 1..Len(s) : OnePacket(s, k)
<1>1. PICK k \in 0..Len(s) :
        /\ k = 0 \/ IsPacket(SubSeq(s, 1, k))
        /\ IsPart(SubSeq(s, k + 1, Len(s)))
  BY DEF PacedStream
<1>2. Len(s) \in Nat /\ k \in Nat /\ \A i \in 1..Len(s) : s[i] \in Byte
  BY ElementOfSeq
<1> DEFINE packet == SubSeq(s, 1, k)
           part == SubSeq(s, k + 1, Len(s))
<1>3. /\ packet \in Seq(Byte) /\ Len(packet) = k
      /\ \A i \in 1..k : packet[i] = s[i]
  BY <1>2
<1>4. /\ part \in Seq(Byte) /\ Len(part) = Len(s) - k
      /\ \A i \in 1..Len(s) - k : part[i] = s[k + i]
  BY <1>2
<1>5. /\ HeadOnlyFirst(part)
      /\ unpacker_model_ = "KHeadTailCb" =>
           \A i \in 3..Len(part) : part[i] # tail_key_[1]
  BY <1>1, <1>4, PartShape
<1> HIDE DEF part, packet
<1>6. \A i \in k+2..Len(s) : s[i] # head_key_[1]
  <2> SUFFICES ASSUME NEW i \in k+2..Len(s) PROVE s[i] # head_key_[1]
    OBVIOUS
  <2> DEFINE j == i - k
  <2>1. j \in 2..Len(s) - k /\ j \in 1..Len(s) - k /\ k + j = i
    BY <1>2
  <2> HIDE DEF j
  <2>2. j \in 2..Len(part)
    BY <1>4, <2>1
  <2> QED BY <1>4, <1>5, <2>1, <2>2 DEF HeadOnlyFirst
<1>7. CASE k = 0
  BY <1>2, <1>6, <1>7 DEF HeadOnlyFirst
<1>8. CASE k # 0
  <2>1. IsPacket(packet) /\ k >= 1
    BY <1>1, <1>2, <1>8 DEF packet
  <2>2. /\ packet[1] = head_key_[1]
        /\ \A i \in 2..k-1 : packet[i] # head_key_[1]
        /\ unpacker_model_ = "kHead" => \A i \in 2..k : packet[i] # head_key_[1]
        /\ unpacker_model_ = "kHeadTail" => \A i \in 2..k-1 : packet[i] # tail_key_[1]
        /\ unpacker_model_ = "KHeadTailCb" =>
             /\ k >= 3 /\ packet[k] = tail_key_[1]
             /\ \A i \in 3..k-1 : packet[i] # tail_key_[1]
    BY <1>3, <2>1, PacketShape
  <2>3. ASSUME unpacker_model_ = "KHeadTailCb", NEW i \in k+3..Len(s)
        PROVE  s[i] # tail_key_[1]
    <3> DEFINE j == i - k
    <3>1. j \in 3..Len(s) - k /\ j \in 1..Len(s) - k /\ k + j = i
      BY <1>2
    <3> HIDE DEF j
    <3>2. j \in 3..Len(part)
      BY <1>4, <3>1
    <3> QED BY <1>4, <1>5, <2>3, <3>1, <3>2
  <2>4. ASSUME NEW i \in 2..Len(s), s[i] = head_key_[1] PROVE i \in {k, k + 1}
    <3>1. ~(i \in 2..k-1)
      BY <1>2, <1>3, <2>2, <2>4
    <3>2. ~(i \in k+2..Len(s))
      BY <1>6, <2>4
    <3> QED BY <1>2, <2>4, <3>1, <3>2
  <2>5. OnePacket(s, k)
    BY <1>2, <1>3, <2>1, <2>2, <2>4, <2>3 DEF OnePacket
  <2> QED BY <1>2, <2>1, <2>5
<1> QED BY <1>7, <1>8

(* Where the end lies of a packet that is cut, with keys of one byte.        *)
LEMMA KeyedCutEnds ==
  ASSUME UnPackerTypeOK, OneByteKeys, NEW head_offset, NEW n,
         Cut(head_offset, n), KeyedCut(head_offset, n)
  PROVE  \E end \in head_offset+1..length_-1 :
           \/ /\ unpacker_model_ = "kHead" /\ n = end - head_offset
              /\ ByteAt(end) = head_key_[1]
           \/ /\ unpacker_model_ = "kHeadTail" /\ n = end + 1 - head_offset
              /\ ByteAt(end) = tail_key_[1]
<1>1. /\ TypeOK /\ format \in Formats /\ size \in Nat \ {0} /\ length_ \in 0..size
  BY DEF UnPackerTypeOK, TypeOK
<1>2. head_offset \in Nat /\ Len(head_key_) = 1
  BY CutSizes DEF OneByteKeys
<1> DEFINE key == IF unpacker_model_ = "kHead" THEN head_key_ ELSE tail_key_
           end == EndOffset(head_offset)
<1>3. /\ unpacker_model_ \in {"kHead", "kHeadTail"} /\ end \notin {NotFound, Never}
      /\ n = IF unpacker_model_ = "kHead" THEN end - head_offset
             ELSE end + Len(tail_key_) - head_offset
      /\ end = FindKey(key, head_offset + 1)
  BY <1>2 DEF KeyedCut, EndOffset
<1>4. /\ key \in Seq(Byte) /\ Len(key) = 1
      /\ unpacker_model_ = "kHeadTail" => Len(tail_key_) = 1
  <2>1. /\ head_key_ \in Seq(Byte) /\ tail_key_ \in Seq(Byte)
        /\ unpacker_model_ = "kHeadTail" => tail_key_ # <<>>
        /\ Len(tail_key_) <= 1 /\ Len(tail_key_) \in Nat
    BY <1>1, Keys DEF OneByteKeys
  <2>2. tail_key_ # <<>> => Len(tail_key_) = 1
    BY <2>1, OneByteKey
  <2>3. CASE unpacker_model_ = "kHead"
    BY <1>2, <2>1, <2>3
  <2>4. CASE unpacker_model_ = "kHeadTail"
    BY <2>1, <2>2, <2>4
  <2> QED BY <1>3, <2>3, <2>4
<1> DEFINE b == key[1]
<1>5. key = <<b>> /\ b \in Byte /\ key # <<>>
  <2> HIDE DEF key
  <2> QED BY <1>4, OneByteIsTuple
<1>6. /\ unpacker_model_ = "kHead" => b = head_key_[1]
      /\ unpacker_model_ = "kHeadTail" => b = tail_key_[1]
  BY <1>3
<1> HIDE DEF b, key, end
<1>7. head_offset + 1 \in Nat
  BY <1>2
<1>8. head_offset + 1 < length_
  BY <1>1, <1>3, <1>5, <1>7, FindKeyCases
<1>9. end = FindKey(<<b>>, head_offset + 1)
  BY <1>3, <1>5
<1>10. end \in head_offset+1..length_-1 /\ ByteAt(end) = b
  <2> DEFINE from == head_offset + 1
  <2>1. from \in Nat /\ from <= length_ /\ FindKey(<<b>>, from) = end
    BY <1>1, <1>7, <1>8, <1>9
  <2> HIDE DEF from
  <2>2. end \in from..length_-1 /\ ByteAt(end) = b
    BY <1>1, <1>3, <1>5, <2>1, FindKeyOneByte
  <2> QED BY <2>2 DEF from
<1> QED BY <1>3, <1>4, <1>6, <1>10

LEMMA StatedCutEnds ==
  ASSUME UnPackerTypeOK, OneByteKeys, NEW head_offset, NEW n,
         Cut(head_offset, n), StatedCut(head_offset, n), parse.total_size = length_
  PROVE  /\ unpacker_model_ = "KHeadTailCb" /\ n \in Nat /\ n >= 3
         /\ head_offset + n <= length_
         /\ ByteAt(head_offset + n - 1) = tail_key_[1]
<1>1. /\ TypeOK /\ format \in Formats /\ size \in Nat \ {0} /\ length_ \in 0..size
  BY DEF UnPackerTypeOK, TypeOK
<1>2. head_offset \in Nat /\ Len(head_key_) = 1
  BY CutSizes DEF OneByteKeys
<1>3. unpacker_model_ = "KHeadTailCb"
  BY DEF StatedCut
<1> DEFINE b == tail_key_[1]
<1>4. tail_key_ = <<b>> /\ b \in Byte /\ Len(tail_key_) = 1
  <2>1. /\ tail_key_ \in Seq(Byte) /\ tail_key_ # <<>>
        /\ Len(tail_key_) <= 1 /\ Len(tail_key_) \in Nat
    BY <1>1, <1>3, Keys DEF OneByteKeys
  <2> QED BY <2>1, OneByteKey
<1> HIDE DEF b
<1>5. PICK d \in StatedLengths(head_offset) :
        /\ n = PacketSize(d)
        /\ head_offset + n <= parse.total_size
        /\ FindKey(tail_key_, head_offset + HeadSize + d) = head_offset + HeadSize + d
  BY DEF StatedCut
<1>6. d \in Nat
  BY <1>1, <1>2, StatedLengthIsByte
<1>7. n = d + 3 /\ HeadSize = 2
  BY <1>2, <1>4, <1>5, <1>6 DEF PacketSize, HeadSize
<1>8. /\ head_offset + HeadSize + d = head_offset + n - 1
      /\ n \in Nat /\ n >= 3 /\ head_offset + n <= length_
      /\ head_offset + n - 1 \in 0..length_-1
  BY <1>1, <1>2, <1>5, <1>6, <1>7
<1>9. FindKey(<<b>>, head_offset + n - 1) = head_offset + n - 1
  BY <1>4, <1>5, <1>8
<1> DEFINE at == head_offset + n - 1
<1>10. at \in Nat /\ at <= length_ /\ at # NotFound
  BY <1>1, <1>8 DEF NotFound
<1>11. FindKey(<<b>>, at) = at
  BY <1>9
<1> HIDE DEF at
<1>12. ByteAt(at) = b
  BY <1>1, <1>4, <1>10, <1>11, FindKeyOneByte
<1> QED BY <1>3, <1>8, <1>12 DEF at, b
(* While a peer waits, a packet is cut from the front of the ring, lies in   *)
(* what is stored, and leaves no head key but one at the front.              *)
LEMMA PacedCutIsFront ==
  ASSUME UInv, PInv, paced, NEW head_offset, NEW n, Cut(head_offset, n)
  PROVE  /\ head_offset = 0 /\ n \in 1..length_
         /\ \A i \in n+2..length_ : Contents[i] # head_key_[1]
<1> DEFINE s == Contents
           h == head_key_[1]
           pos == parse.current_pos
<1>1. /\ UnPackerTypeOK /\ TypeOK /\ format \in Formats /\ pos \in Nat
      /\ size \in Nat \ {0} /\ length_ \in 0..size
  BY DEF UInv, UnPackerTypeOK, TypeOK
<1>2. /\ OneByteKeys /\ parse.at = "parsing"
      /\ AtStart \/ PastHead \/ PastCut
  BY DEF PInv, Cut, Parsing
<1>3. head_key_ = <<h>> /\ h \in Byte
  <2>1. head_key_ \in Seq(Byte) /\ Len(head_key_) = 1
    BY <1>1, <1>2, Keys DEF OneByteKeys
  <2> QED BY <2>1, OneByteIsTuple
<1>4. /\ s \in Seq(Byte) /\ Len(s) = length_
      /\ \A i \in 0..length_-1 : s[i + 1] = ByteAt(i)
  BY <1>1, StoredByteAt
<1> HIDE DEF s, h, pos
<1>5. head_offset = FindKey(<<h>>, pos) /\ head_offset \notin {NotFound, Never}
  BY <1>3 DEF Cut, pos
<1>6. pos <= length_
  BY <1>1, <1>5, FindKeyCases
<1>7. /\ head_offset \in pos..length_-1 /\ ByteAt(head_offset) = h
      /\ \A i \in pos..head_offset-1 : ByteAt(i) # h
  BY <1>1, <1>3, <1>5, <1>6, FindKeyOneByte
<1>8. head_offset + 1 \in 1..Len(s) /\ s[head_offset + 1] = h /\ head_offset \in Nat
  BY <1>1, <1>4, <1>7
<1>9. HeadOnlyFirst(s) => head_offset = 0
  BY <1>1, <1>4, <1>7, <1>8 DEF HeadOnlyFirst, h
<1>10. ~PastCut
  BY <1>1, <1>7, <1>9 DEF PastCut, s, pos
<1>11. parse.total_size = length_
  BY <1>2, <1>10 DEF AtStart, PastHead
<1>12. ASSUME KeyedCut(head_offset, n)
       PROVE  /\ n \in Nat /\ n >= 1 /\ head_offset + n <= length_
              /\ \/ /\ unpacker_model_ = "kHead" /\ s[head_offset + n + 1] = h
                    /\ head_offset + n + 1 <= Len(s)
                 \/ unpacker_model_ = "kHeadTail" /\ n >= 2
                    /\ s[head_offset + n] = tail_key_[1]
  <2>1. PICK end \in head_offset+1..length_-1 :
           \/ /\ unpacker_model_ = "kHead" /\ n = end - head_offset
              /\ ByteAt(end) = head_key_[1]
           \/ /\ unpacker_model_ = "kHeadTail" /\ n = end + 1 - head_offset
              /\ ByteAt(end) = tail_key_[1]
    BY <1>1, <1>2, <1>12, KeyedCutEnds
  <2>2. end \in 0..length_-1 /\ s[end + 1] = ByteAt(end)
    BY <1>1, <1>4, <1>8, <2>1
  <2>3. CASE unpacker_model_ = "kHead" /\ n = end - head_offset /\ ByteAt(end) = head_key_[1]
    <3>1. head_offset + n + 1 = end + 1 /\ end + 1 <= Len(s)
          /\ n \in Nat /\ n >= 1 /\ head_offset + n <= length_
      BY <1>1, <1>4, <1>8, <2>1, <2>3
    <3> QED BY <2>2, <2>3, <3>1 DEF h
  <2>4. CASE unpacker_model_ = "kHeadTail" /\ n = end + 1 - head_offset
             /\ ByteAt(end) = tail_key_[1]
    <3>1. head_offset + n = end + 1 /\ n \in Nat /\ n >= 2 /\ head_offset + n <= length_
      BY <1>1, <1>8, <2>1, <2>4
    <3> QED BY <2>2, <2>4, <3>1
  <2> QED BY <2>1, <2>3, <2>4
<1>13. ASSUME StatedCut(head_offset, n)
       PROVE  /\ unpacker_model_ = "KHeadTailCb" /\ n \in Nat /\ n >= 3
              /\ head_offset + n <= length_
              /\ s[head_offset + n] = tail_key_[1]
  <2>1. /\ unpacker_model_ = "KHeadTailCb" /\ n \in Nat /\ n >= 3
        /\ head_offset + n <= length_
        /\ ByteAt(head_offset + n - 1) = tail_key_[1]
    BY <1>1, <1>2, <1>11, <1>13, StatedCutEnds
  <2> DEFINE at == head_offset + n - 1
  <2>2. at \in 0..length_-1 /\ at + 1 = head_offset + n
    BY <1>1, <1>8, <2>1
  <2>3. ByteAt(at) = tail_key_[1]
    BY <2>1
  <2> HIDE DEF at
  <2>4. s[at + 1] = tail_key_[1]
    BY <1>4, <2>2, <2>3
  <2> QED BY <2>1, <2>2, <2>4
<1>14. CASE HeadOnlyFirst(s)
  <2>1. head_offset = 0
    BY <1>9, <1>14
  <2>2. n \in 1..length_
    BY <1>1, <1>12, <1>13, <2>1 DEF Cut
  <2>3. \A i \in n+2..length_ : s[i] # head_key_[1]
    BY <1>1, <1>4, <1>14, <2>2 DEF HeadOnlyFirst
  <2> QED BY <2>1, <2>2, <2>3 DEF s
<1>15. CASE ~HeadOnlyFirst(s)
  <2>1. PacedStream(s)
    BY <1>2, <1>10, <1>15 DEF AtStart, PastHead, Settled, s
  <2>2. PICK k \in 1..Len(s) : OnePacket(s, k)
    BY <1>1, <1>2, <1>4, <1>15, <2>1, StreamShape
  <2>3. /\ s[1] = h /\ k \in Nat
        /\ \A i \in 2..Len(s) : s[i] = h => i \in {k, k + 1}
        /\ unpacker_model_ = "kHead" => \A i \in 2..k : s[i] # h
        /\ unpacker_model_ = "kHeadTail" => \A i \in 2..k-1 : s[i] # tail_key_[1]
        /\ unpacker_model_ = "KHeadTailCb" =>
             /\ k >= 3 /\ s[k] = tail_key_[1]
             /\ \A i \in 3..k-1 : s[i] # tail_key_[1]
             /\ \A i \in k+3..Len(s) : s[i] # tail_key_[1]
    BY <1>4, <2>2 DEF OnePacket, h
  <2>4. ASSUME pos = 0 PROVE head_offset = 0
    <3>1. ByteAt(0) = h
      BY <1>1, <1>4, <1>7, <2>3
    <3> QED BY <1>1, <1>7, <2>4, <3>1
  <2>5. CASE PastHead
    <3>1. StatedCut(head_offset, n) /\ head_offset >= 1
      <4>1. unpacker_model_ = "KHeadTailCb" /\ pos >= 1
        BY <2>5 DEF PastHead, pos
      <4> QED BY <1>1, <1>7, <4>1 DEF Cut, KeyedCut
    <3>2. /\ n \in Nat /\ n >= 3 /\ head_offset + n <= length_
          /\ s[head_offset + n] = tail_key_[1] /\ unpacker_model_ = "KHeadTailCb"
      BY <1>13, <3>1
    <3>3. head_offset + 1 \in {k, k + 1}
      BY <1>4, <1>8, <2>3, <3>1
    <3> DEFINE m == head_offset + n
    <3>4. m \in 2..Len(s) /\ m \in Nat /\ m > head_offset + 2
      BY <1>1, <1>4, <1>8, <3>2
    <3>5. s[m] = tail_key_[1]
      BY <3>2
    <3> HIDE DEF m
    <3>6. CASE head_offset + 1 = k
      <4>1. h = tail_key_[1]
        BY <1>8, <2>3, <3>2, <3>6
      <4>2. m \in {k, k + 1}
        BY <2>3, <3>4, <3>5, <4>1
      <4> QED BY <1>8, <2>3, <3>4, <3>6, <4>2
    <3>7. CASE head_offset + 1 = k + 1
      <4>1. m \in k+3..Len(s)
        BY <1>8, <2>3, <3>2, <3>4, <3>7 DEF m
      <4> QED BY <2>3, <3>2, <3>5, <4>1
    <3> QED BY <3>3, <3>6, <3>7
  <2>6. CASE AtStart
    <3>1. head_offset = 0
      BY <2>4, <2>6 DEF AtStart, pos
    <3>2. n \in 1..length_
      BY <1>1, <1>12, <1>13, <3>1 DEF Cut
    <3>3. n >= k
      <4>1. CASE StatedCut(head_offset, n)
        <5>1. n >= 3 /\ s[n] = tail_key_[1] /\ unpacker_model_ = "KHeadTailCb"
          BY <1>13, <3>1, <3>2, <4>1
        <5>2. ~(n \in 3..k-1)
          BY <2>3, <5>1
        <5> QED BY <1>1, <2>3, <3>2, <5>1, <5>2
      <4>2. CASE KeyedCut(head_offset, n) /\ unpacker_model_ = "kHead"
        <5>1. s[n + 1] = h
          BY <1>12, <3>1, <3>2, <4>2
        <5>2. ~(n + 1 \in 2..k)
          BY <2>3, <4>2, <5>1
        <5> QED BY <1>1, <2>3, <3>2, <5>2
      <4>3. CASE KeyedCut(head_offset, n) /\ unpacker_model_ = "kHeadTail"
        <5>1. n >= 2 /\ s[n] = tail_key_[1]
          BY <1>12, <3>1, <3>2, <4>3
        <5>2. ~(n \in 2..k-1)
          BY <2>3, <4>3, <5>1
        <5> QED BY <1>1, <2>3, <3>2, <5>1, <5>2
      <4> QED BY <4>1, <4>2, <4>3 DEF Cut, KeyedCut
    <3>4. ASSUME NEW i \in n+2..length_ PROVE s[i] # head_key_[1]
      <4>1. i \in 2..Len(s) /\ ~(i \in {k, k + 1})
        BY <1>1, <1>4, <2>3, <3>2, <3>3
      <4> QED BY <2>3, <4>1 DEF h
    <3> QED BY <3>1, <3>2, <3>4 DEF s
  <2> QED BY <1>2, <1>10, <2>5, <2>6
<1> QED BY <1>14, <1>15
(* What is cut is the front of the ring, and what is committed is what was   *)
(* cut.                                                                      *)
LEMMA FrontIsCommitted ==
  ASSUME UInv, UInv', NEW n \in 1..length_, NEW packet \in PacketsAt(0, n), AdvanceRead(n)
  PROVE  /\ Contents = packet \o Contents'
         /\ length_' = length_ - n /\ Len(Contents') = length_'
         /\ \A i \in 1..length_ - n : Contents'[i] = Contents[n + i]
<1>1. /\ TypeOK /\ TypeOK' /\ size \in Nat \ {0} /\ length_ \in 0..size
      /\ read_index_ \in 0..size-1
  BY DEF UInv, IInv, TypeOK
<1>2. /\ Contents \in Seq(Byte) /\ Len(Contents) = length_
      /\ \A i \in 0..length_-1 : Contents[i + 1] = ByteAt(i)
  BY <1>1, StoredByteAt
<1>3. /\ packet \in Seq(Byte) /\ Len(packet) = n
      /\ \A j \in 1..n : j <= size =>
           packet[j] = buffer_[(((read_index_ + 0) % size) + j - 1) % size]
  BY <1>1, PacketBytes
<1>4. ASSUME NEW j \in 1..n PROVE packet[j] = Contents[j]
  <2>1. (read_index_ + 0) % size = read_index_
    <3>1. read_index_ + 0 = read_index_
      BY <1>1
    <3> QED BY <1>1, <3>1, ModSmall
  <2>2. packet[j] = buffer_[(read_index_ + j - 1) % size]
    <3>1. j <= size
      BY <1>1
    <3>2. packet[j] = buffer_[(((read_index_ + 0) % size) + j - 1) % size]
      BY <1>3, <3>1
    <3> QED BY <2>1, <3>2, Zenon
  <2> DEFINE i == j - 1
  <2>3. i \in 0..length_-1 /\ i + 1 = j /\ read_index_ + j - 1 = read_index_ + i
    BY <1>1
  <2> HIDE DEF i
  <2>4. Contents[i + 1] = ByteAt(i)
    BY <1>2, <2>3
  <2> QED BY <2>2, <2>3, <2>4 DEF ByteAt
<1> DEFINE s == Contents
           rest == SubSeq(s, n + 1, length_)
<1>5. Contents' = rest
  BY <1>1, <1>2, ReadDrops
<1>6. /\ rest \in Seq(Byte) /\ Len(rest) = length_ - n
      /\ \A i \in 1..length_ - n : rest[i] = s[n + i]
  BY <1>1, <1>2
<1>7. length_' = length_ - n
  BY DEF AdvanceRead
<1> HIDE DEF rest, s
<1>8. s = packet \o rest
  <2>1. s \in Seq(Byte) /\ packet \o rest \in Seq(Byte)
    BY <1>2, <1>3, <1>6 DEF s
  <2>2. Len(packet \o rest) = Len(s)
    <3>1. Len(packet \o rest) = Len(packet) + Len(rest)
      BY <1>3, <1>6, ConcatProperties
    <3>2. n + (length_ - n) = length_
      BY <1>1
    <3>3. Len(s) = length_
      BY <1>2 DEF s
    <3> QED BY <1>3, <1>6, <3>1, <3>2, <3>3, Zenon
  <2>3. ASSUME NEW i \in 1..length_ PROVE (packet \o rest)[i] = s[i]
    <3>1. CASE i <= n
      BY <1>1, <1>3, <1>4, <1>6, <3>1 DEF s
    <3>2. CASE ~(i <= n)
      <4>1. i - n \in 1..length_ - n /\ n + (i - n) = i
        BY <1>1, <3>2
      <4>2. (packet \o rest)[i] = rest[i - n]
        BY <1>1, <1>3, <1>6, <3>2
      <4> QED BY <1>6, <4>1, <4>2
    <3> QED BY <3>1, <3>2
  <2>4. Len(s) = length_
    BY <1>2 DEF s
  <2> QED BY <2>1, <2>2, <2>3, <2>4, SeqEqual
<1> QED BY <1>5, <1>6, <1>7, <1>8 DEF s

(* The step that cuts a packet from a peer that waits.                       *)
LEMMA PacedCutStep ==
  ASSUME UInv, PInv, paced, NEW head_offset, NEW n,
         Cut(head_offset, n), Extract(head_offset, n)
  PROVE  CutIsCommitted /\ PInv'
<1>1. /\ UInv' /\ parse' = [parse EXCEPT !.current_pos = head_offset + n]
      /\ format' = format /\ paced' = paced
      /\ n <= length_ => AdvanceRead(n)
  BY CutUInv
<1>2. PICK packet \in PacketsAt(head_offset, n) : read_data' = Append(read_data, packet)
  BY CutUInv
<1>3. /\ head_offset = 0 /\ n \in 1..length_
      /\ \A i \in n+2..length_ : Contents[i] # head_key_[1]
  BY PacedCutIsFront
<1>4. length_ \in Nat /\ n \in Nat /\ n >= 1 /\ n <= length_
  BY <1>3 DEF UInv, IInv, TypeOK
<1>5. /\ Contents = packet \o Contents'
      /\ length_' = length_ - n /\ Len(Contents') = length_'
      /\ \A i \in 1..length_ - n : Contents'[i] = Contents[n + i]
  BY <1>1, <1>2, <1>3, <1>4, FrontIsCommitted
<1>6. CutIsCommitted
  <2>1. read_data \in Seq(Seq(Byte)) /\ packet \in Seq(Byte)
    <3>1. UnPackerTypeOK
      BY DEF UInv
    <3> QED BY <3>1, CutIsFramed DEF UnPackerTypeOK
  <2>2. read_data'[Len(read_data')] = packet
    BY <1>2, <2>1
  <2> QED BY <1>5, <2>2 DEF CutIsCommitted
<1>7. HeadOnlyFirst(Contents)'
  <2>1. head_key_' = head_key_
    BY <1>1 DEF head_key_
  <2>2. ASSUME NEW i \in 2..length_ - n PROVE Contents'[i] # head_key_[1]
    <3>1. n + i \in n+2..length_ /\ i \in 1..length_ - n
      BY <1>4
    <3> QED BY <1>3, <1>5, <3>1
  <2> QED BY <1>5, <2>1, <2>2 DEF HeadOnlyFirst
<1>8. parse.at = "parsing" /\ UnPackerTypeOK
  BY DEF Cut, Parsing, UInv
<1>9. parse'.at = "parsing" /\ parse'.current_pos >= 1
  <2>1. head_offset + n \in Nat /\ head_offset + n >= 1
    BY <1>3, <1>4
  <2> QED BY <1>1, <1>8, <2>1, ParseTypes
<1>10. OneByteKeys'
  BY <1>1 DEF PInv, OneByteKeys, head_key_, tail_key_
<1> QED BY <1>6, <1>7, <1>9, <1>10 DEF PInv, PastCut

(* What the peer has sent stays what it is where nothing is stored or read.  *)
LEMMA SameContents ==
  ASSUME format' = format, Contents' = Contents
  PROVE  /\ PacedStream(Contents)' <=> PacedStream(Contents)
         /\ HeadOnlyFirst(Contents)' <=> HeadOnlyFirst(Contents)
         /\ OneByteKeys' <=> OneByteKeys
         /\ unpacker_model_' = unpacker_model_
<1>1. head_key_' = head_key_ /\ tail_key_' = tail_key_
  BY DEF head_key_, tail_key_
<1>2. HeadOnlyFirst(Contents)' <=> HeadOnlyFirst(Contents)
  BY <1>1 DEF HeadOnlyFirst
<1>3. PacedStream(Contents)' <=> PacedStream(Contents)
  <2>1. ASSUME NEW k
        PROVE  IsPacket(SubSeq(Contents, 1, k))' <=> IsPacket(SubSeq(Contents, 1, k))
    BY <1>1 DEF IsPacket, IsStart, Body
  <2>2. ASSUME NEW k
        PROVE  IsPart(SubSeq(Contents, k + 1, Len(Contents)))'
                 <=> IsPart(SubSeq(Contents, k + 1, Len(Contents)))
    BY <1>1 DEF IsPart, IsStart, Body
  <2> QED BY <2>1, <2>2 DEF PacedStream
<1> QED BY <1>1, <1>2, <1>3 DEF OneByteKeys, unpacker_model_

LEMMA SkipPInv ==
  ASSUME UInv, PInv, NEW head_offset, Skip(head_offset)
  PROVE  PInv'
<1>1. /\ head_offset \in Nat /\ UNCHANGED <<vars, format, read_data, paced>>
      /\ parse' = [parse EXCEPT !.current_pos = head_offset + 1]
  BY SkipUInv
<1>2. parse.at = "parsing" /\ UnPackerTypeOK /\ unpacker_model_ = "KHeadTailCb"
  BY DEF Skip, Parsing, UInv
<1>3. parse'.at = "parsing" /\ parse'.current_pos >= 1 /\ parse'.total_size = parse.total_size
  <2>1. head_offset + 1 \in Nat /\ head_offset + 1 >= 1
    BY <1>1
  <2> QED BY <1>1, <1>2, <2>1, ParseTypes
<1>4. Contents' = Contents /\ length_' = length_
  BY <1>1, SameRingSameContents DEF vars, indices
<1> QED
  BY <1>1, <1>2, <1>3, <1>4, SameContents DEF PInv, AtStart, PastHead, PastCut, Settled

LEMMA StopPInv ==
  ASSUME UInv, PInv, Stop
  PROVE  PInv'
<1>1. /\ UNCHANGED <<vars, format, read_data, paced>> /\ parse'.at \in {"idle", "hung"}
      /\ parse.at = "parsing"
  BY StopUInv DEF Stop
<1>2. Contents' = Contents
  BY <1>1, SameRingSameContents DEF vars, indices
<1> QED
  BY <1>1, <1>2, SameContents DEF PInv, AtStart, PastHead, PastCut, Settled

(* A call, before which the ring was settled and after which it is.          *)
LEMMA CallPInv ==
  ASSUME UInv, UInv', PInv, GetPack, paced => Settled'
  PROVE  PInv'
<1>1. /\ format' = format /\ paced' = paced
      /\ parse' = Idle
         \/ parse' = [at |-> "parsing", current_pos |-> 0, total_size |-> length_']
  BY DEF GetPack
<1>2. OneByteKeys' <=> OneByteKeys
  BY <1>1 DEF OneByteKeys, head_key_, tail_key_
<1> QED BY <1>1, <1>2 DEF PInv, AtStart, Idle

LEMMA PushPInv ==
  ASSUME UInv, UInv', PInv, NEW w \in Transfers, Paced(w), PushAndGet(w)
  PROVE  PInv'
<1>1. Write(w) /\ GetPack /\ parse = Idle /\ format' = format
  BY DEF PushAndGet, GetPack
<1>2. BQ!Write(w)
  BY <1>1, WriteImplements DEF UInv
<1>3. CASE Contents' = Contents
  <2>1. paced => Settled
    BY <1>1 DEF PInv, Idle
  <2> QED BY <1>1, <1>3, <2>1, SameContents, CallPInv DEF Settled
<1>4. CASE Contents' = Contents \o w
  <2>1. ASSUME paced PROVE PacedStream(Contents)'
    <3>1. PacedStream(Contents \o w)
      BY <2>1 DEF Paced
    <3>2. head_key_' = head_key_ /\ tail_key_' = tail_key_
      BY <1>1 DEF head_key_, tail_key_
    <3>3. ASSUME NEW k
          PROVE  IsPacket(SubSeq(Contents, 1, k))' <=> IsPacket(SubSeq(Contents \o w, 1, k))
      BY <1>1, <1>4, <3>2 DEF IsPacket, IsStart, Body
    <3>4. ASSUME NEW k
          PROVE  IsPart(SubSeq(Contents, k + 1, Len(Contents)))'
                   <=> IsPart(SubSeq(Contents \o w, k + 1, Len(Contents \o w)))
      BY <1>1, <1>4, <3>2 DEF IsPart, IsStart, Body
    <3> QED BY <1>4, <3>1, <3>3, <3>4 DEF PacedStream
  <2> QED BY <1>1, <2>1, CallPInv DEF Settled
<1> QED BY <1>2, <1>3, <1>4 DEF BQ!Write, BQ!Refused, BQ!Append_

LEMMA GetPInv ==
  ASSUME UInv, UInv', PInv, Get
  PROVE  PInv'
<1>1. GetPack /\ UNCHANGED vars /\ parse = Idle /\ format' = format
  BY DEF Get, GetPack
<1>2. Contents' = Contents
  BY <1>1, SameRingSameContents DEF vars, indices
<1>3. paced => Settled
  BY <1>1 DEF PInv, Idle
<1> QED BY <1>1, <1>2, <1>3, SameContents, CallPInv DEF Settled

LEMMA InitPInv == InitUnPacker => PInv
<1> SUFFICES ASSUME InitUnPacker PROVE PInv
  OBVIOUS
<1>1. TypeOK /\ length_ = 0 /\ parse = Idle /\ paced \in {FALSE, OneByteKeys}
  BY InitIInv DEF InitUnPacker, IInv, Init
<1>2. Len(Contents) = 0
  BY <1>1, ContentsSlots
<1>3. HeadOnlyFirst(Contents)
  BY <1>2 DEF HeadOnlyFirst
<1> QED BY <1>1, <1>3 DEF PInv, Settled, Idle

(* A step keeps the invariant of the peer that waits, and commits what it    *)
(* cuts.                                                                     *)
LEMMA NextPInv ==
  ASSUME UInv, UInv', PInv, [NextUnPacker]_unpackerVars
  PROVE  PInv' /\ (paced => CutIsCommitted)
<1> DEFINE NoCut == read_data' = read_data \/ read_data' = <<>>
<1>1. ASSUME NoCut PROVE CutIsCommitted
  <2>1. read_data \in Seq(Seq(Byte))
    BY DEF UInv, UnPackerTypeOK
  <2>2. ~Cuts
    <3>1. Len(read_data) \in Nat
      BY <2>1
    <3>2. CASE read_data' = read_data
      BY <3>1, <3>2 DEF Cuts
    <3>3. CASE read_data' = <<>>
      BY <3>1, <3>3 DEF Cuts
    <3> QED BY <1>1, <3>2, <3>3
  <2> QED BY <2>2 DEF CutIsCommitted
<1>2. ASSUME NEW w \in Transfers, Paced(w), PushAndGet(w)
      PROVE  PInv' /\ NoCut
  BY <1>2, PushPInv DEF PushAndGet, GetPack
<1>3. CASE Get
  BY <1>1, <1>3, GetPInv DEF Get, GetPack
<1>4. ASSUME NEW head_offset, NEW n, Cut(head_offset, n), Extract(head_offset, n)
      PROVE  PInv' /\ (paced => CutIsCommitted)
  <2>1. CASE paced
    BY <1>4, <2>1, PacedCutStep
  <2>2. CASE ~paced
    <3>1. paced' = paced
      BY <1>4, CutUInv
    <3> QED BY <2>2, <3>1 DEF PInv
  <2> QED BY <2>1, <2>2
<1>5. ASSUME NEW head_offset, Skip(head_offset) PROVE PInv' /\ NoCut
  BY <1>5, SkipPInv, SkipUInv
<1>6. CASE Stop
  BY <1>1, <1>6, StopPInv, StopUInv
<1>7. CASE Iterate
  BY <1>1, <1>4, <1>5, <1>6, <1>7, IterateCases
<1>8. CASE UNCHANGED unpackerVars
  <2>1. Contents' = Contents /\ length_' = length_
    BY <1>8, SameRingSameContents DEF unpackerVars, vars, indices
  <2>2. PInv'
    BY <1>8, <2>1, SameContents
       DEF PInv, AtStart, PastHead, PastCut, Settled, unpackerVars
  <2> QED BY <1>1, <1>8, <2>2 DEF unpackerVars
<1> QED BY <1>1, <1>2, <1>3, <1>7, <1>8 DEF NextUnPacker, ScanOn

(* GetPack commits by position what FindKey located by position, and the     *)
(* position is not adjusted after a commit.  For a peer that waits the two   *)
(* agree, in every model and for every storage size: each packet that is     *)
(* handed out is, byte for byte, what leaves the ring.                       *)
THEOREM WaitingPeerLosesNothing == SpecUnPacker => PacedCutsAreCommitted
<1>1. UInv /\ UInv' /\ PInv /\ [NextUnPacker]_unpackerVars
        => PInv' /\ [paced => CutIsCommitted]_unpackerVars
  BY NextPInv
<1> QED
  BY <1>1, InitPInv, UInvAlways, PTL DEF SpecUnPacker, PacedCutsAreCommitted
=============================================================================
