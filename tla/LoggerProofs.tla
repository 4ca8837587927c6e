---------------------------- MODULE LoggerProofs -----------------------------
(***************************************************************************)
(* What is proved of Logger for every set of callers and lines, every ring *)
(* and batch size and every configuration: what is in the files, in the    *)
(* writer's hands and in the ring is what was stored, in the order of the  *)
(* console.                                                                *)
(***************************************************************************)
EXTENDS Logger, SequenceTheorems, WellFoundedInduction, TLAPS

-----------------------------------------------------------------------------
(***************************************************************************)
(* Induction over the naturals, stated for a set: a set that has 0 and the *)
(* successor of each of its members leaves no least natural out.           *)
(***************************************************************************)
LEMMA LessIsWellFounded ==
  IsWellFoundedOn({ss \in Nat \X Nat : ss[1] < ss[2]}, Nat)
BY NatLessThanWellFounded DEF OpToRel

LEMMA InductionOnSet ==
  ASSUME NEW S \in SUBSET Nat, 0 \in S, \A n \in S : n + 1 \in S
  PROVE  S = Nat
<1> DEFINE R == {ss \in Nat \X Nat : ss[1] < ss[2]}
           T == Nat \ S
<1>1. SUFFICES ASSUME T # {} PROVE FALSE
  OBVIOUS
<1>2. PICK x \in T : \A y \in T : ~(<<y, x>> \in R)
  <2>1. IsWellFoundedOn(R, Nat)
    BY LessIsWellFounded
  <2>2. T \subseteq Nat
    OBVIOUS
  <2> HIDE DEF R, T
  <2> QED BY <1>1, <2>1, <2>2, WFMin
<1>3. x \in Nat /\ x # 0 /\ x \notin S
  OBVIOUS
<1>4. x - 1 \in Nat /\ (x - 1) + 1 = x /\ x - 1 < x
  BY <1>3
<1>5. x - 1 \in S
  <2>1. ~(<<x - 1, x>> \in R) => x - 1 \in S
    BY <1>2, <1>4
  <2>2. <<x - 1, x>> \in R
    BY <1>3, <1>4
  <2>3. x - 1 \notin T => x - 1 \in S
    BY <1>4
  <2> QED BY <1>2, <2>2, <2>3
<1> QED BY <1>3, <1>4, <1>5

-----------------------------------------------------------------------------
(* The function that FlattenSeq is computed by, up to n of the sequences.    *)
Flattens(f, s, n) ==
  f = [i \in 1..n |-> IF i = 1 THEN s[i] ELSE f[i - 1] \o s[i]]

LEMMA FlattensExists ==
  ASSUME NEW T, NEW s \in Seq(Seq(T)), NEW n \in 1..Len(s)
  PROVE  \E f \in [1..n -> Seq(T)] : Flattens(f, s, n)
<1> DEFINE Ok(m) == m \in 1..Len(s) => \E f \in [1..m -> Seq(T)] : Flattens(f, s, m)
           S == {m \in Nat : Ok(m)}
<1>1. 0 \in S
  OBVIOUS
<1>2. ASSUME NEW m \in S PROVE m + 1 \in S
  <2>1. m \in Nat /\ Ok(m)
    OBVIOUS
  <2> SUFFICES ASSUME m + 1 \in 1..Len(s)
               PROVE  \E g \in [1..m+1 -> Seq(T)] : Flattens(g, s, m + 1)
    BY <2>1
  <2>2. s[m + 1] \in Seq(T) /\ Len(s) \in Nat
    BY <2>1
  <2>3. CASE m = 0
    <3> DEFINE g == [i \in 1..m+1 |-> s[i]]
    <3>1. \A i \in 1..m+1 : i = 1 /\ i = m + 1
      BY <2>3
    <3>2. g \in [1..m+1 -> Seq(T)]
      BY <2>2, <3>1
    <3>3. g = [i \in 1..m+1 |-> IF i = 1 THEN s[i] ELSE g[i - 1] \o s[i]]
      BY <3>1
    <3> HIDE DEF g
    <3> QED BY <3>2, <3>3 DEF Flattens
  <2>4. CASE m # 0
    <3>1. m \in 1..Len(s)
      BY <2>1, <2>2, <2>4
    <3>2. PICK f \in [1..m -> Seq(T)] : Flattens(f, s, m)
      BY <2>1, <3>1
    <3> DEFINE last == f[m] \o s[m + 1]
               g == [i \in 1..m+1 |-> IF i = m + 1 THEN last ELSE f[i]]
    <3>3. last \in Seq(T)
      <4>1. f[m] \in Seq(T)
        BY <3>1, <3>2
      <4> QED BY <2>2, <4>1
    <3> HIDE DEF last
    <3>4. \A i \in 1..m+1 : i # m + 1 => i \in 1..m
      BY <2>1
    <3>5. g \in [1..m+1 -> Seq(T)]
      BY <3>3, <3>4
    <3>6. ASSUME NEW i \in 1..m+1
          PROVE  g[i] = IF i = 1 THEN s[i] ELSE g[i - 1] \o s[i]
      <4>1. CASE i = m + 1
        <5>1. i # 1 /\ i - 1 = m /\ m \in 1..m+1 /\ m # m + 1
          BY <2>1, <2>4, <4>1
        <5>2. g[i] = last /\ g[i - 1] = f[m]
          BY <4>1, <5>1
        <5> QED BY <4>1, <5>1, <5>2 DEF last
      <4>2. CASE i # m + 1
        <5>1. i \in 1..m /\ (i # 1 => i - 1 \in 1..m /\ i - 1 \in 1..m+1 /\ i - 1 # m + 1)
          BY <2>1, <4>2
        <5>2. f[i] = IF i = 1 THEN s[i] ELSE f[i - 1] \o s[i]
          BY <3>2, <5>1 DEF Flattens
        <5>3. g[i] = f[i] /\ (i # 1 => g[i - 1] = f[i - 1])
          BY <4>2, <5>1
        <5> QED BY <5>2, <5>3
      <4> QED BY <4>1, <4>2
    <3>7. g = [i \in 1..m+1 |-> IF i = 1 THEN s[i] ELSE g[i - 1] \o s[i]]
      <4>1. g = [i \in 1..m+1 |-> g[i]]
        BY <3>5
      <4> HIDE DEF g
      <4> QED BY <3>6, <4>1
    <3> HIDE DEF g
    <3> QED BY <3>5, <3>7 DEF Flattens
  <2> QED BY <2>3, <2>4
<1>3. S = Nat
  <2> HIDE DEF S
  <2>1. S \in SUBSET Nat
    BY DEF S
  <2> QED BY <1>1, <1>2, <2>1, InductionOnSet
<1>4. n \in S
  <2> HIDE DEF S
  <2> QED BY <1>3
<1> QED BY <1>4

AgreeUpTo(f, g, n) == \A i \in 1..n : f[i] = g[i]

(* It depends on no more of the sequences than it has gone through.          *)
LEMMA FlattensAgree ==
  ASSUME NEW s, NEW t, NEW m \in Nat, NEW n \in Nat, m <= n,
         NEW f, NEW g, Flattens(f, s, m), Flattens(g, t, n),
         AgreeUpTo(s, t, m)
  PROVE  AgreeUpTo(f, g, m)
<1> DEFINE S == {j \in Nat : j \in 1..m => f[j] = g[j]}
<1>1. 0 \in S
  OBVIOUS
<1>2. ASSUME NEW j \in S PROVE j + 1 \in S
  <2>1. j \in Nat /\ (j \in 1..m => f[j] = g[j])
    OBVIOUS
  <2> SUFFICES ASSUME j + 1 \in 1..m PROVE f[j + 1] = g[j + 1]
    BY <2>1
  <2>2. j + 1 \in 1..m /\ j + 1 \in 1..n /\ (j + 1) - 1 = j
        /\ (j + 1 = 1 \/ j \in 1..m)
    BY <2>1
  <2>3. /\ f[j + 1] = IF j + 1 = 1 THEN s[j + 1] ELSE f[(j + 1) - 1] \o s[j + 1]
        /\ g[j + 1] = IF j + 1 = 1 THEN t[j + 1] ELSE g[(j + 1) - 1] \o t[j + 1]
    BY <2>2 DEF Flattens
  <2> QED BY <2>1, <2>2, <2>3 DEF AgreeUpTo
<1>3. S = Nat
  <2> HIDE DEF S
  <2>1. S \in SUBSET Nat
    BY DEF S
  <2> QED BY <1>1, <1>2, <2>1, InductionOnSet
<1>4. \A i \in 1..m : i \in S
  <2> HIDE DEF S
  <2> QED BY <1>3
<1> QED BY <1>4 DEF AgreeUpTo

(* What FlattenSeq is for a sequence that is not empty.                      *)
LEMMA FlattenSeqIs ==
  ASSUME NEW T, NEW s \in Seq(Seq(T)), Len(s) # 0
  PROVE  \E f \in [1..Len(s) -> Seq(T)] : Flattens(f, s, Len(s)) /\ FlattenSeq(s) = f[Len(s)]
<1>1. Len(s) \in Nat /\ Len(s) \in 1..Len(s)
  OBVIOUS
<1> DEFINE flatten == CHOOSE f : f = [i \in 1..Len(s) |->
                                        IF i = 1 THEN s[i] ELSE f[i - 1] \o s[i]]
<1>2. FlattenSeq(s) = flatten[Len(s)]
  BY DEF FlattenSeq
<1>3. PICK f \in [1..Len(s) -> Seq(T)] : Flattens(f, s, Len(s))
  BY <1>1, FlattensExists
<1>4. Flattens(flatten, s, Len(s))
  BY <1>3 DEF Flattens
<1> HIDE DEF flatten
<1>5. \A i \in 1..Len(s) : f[i] = flatten[i]
  <2> DEFINE len == Len(s)
  <2>1. len \in Nat /\ len <= len
    BY <1>1
  <2>2. Flattens(f, s, len) /\ Flattens(flatten, s, len)
    BY <1>3, <1>4
  <2>3. AgreeUpTo(s, s, len)
    BY DEF AgreeUpTo
  <2> HIDE DEF len
  <2>4. AgreeUpTo(f, flatten, len)
    BY ONLY <2>1, <2>2, <2>3, FlattensAgree
  <2> QED BY <2>4 DEF len, AgreeUpTo
<1> QED BY <1>1, <1>2, <1>3, <1>5

LEMMA FlattenEmpty == FlattenSeq(<<>>) = <<>>
BY DEF FlattenSeq

(* One sequence more.                                                        *)
LEMMA FlattenAppend ==
  ASSUME NEW T, NEW s \in Seq(Seq(T)), NEW x \in Seq(T)
  PROVE  /\ FlattenSeq(s) \in Seq(T)
         /\ FlattenSeq(Append(s, x)) = FlattenSeq(s) \o x
<1> DEFINE ext == Append(s, x)
           len == Len(s)
<1>1. /\ ext \in Seq(Seq(T)) /\ len \in Nat /\ Len(ext) = len + 1 /\ len + 1 # 0
      /\ ext[len + 1] = x /\ \A i \in 1..len : ext[i] = s[i]
  OBVIOUS
<1> HIDE DEF ext, len
<1>2. PICK g \in [1..len+1 -> Seq(T)] : Flattens(g, ext, len + 1) /\ FlattenSeq(ext) = g[len + 1]
  <2>1. Len(ext) # 0
    BY <1>1
  <2>2. PICK g \in [1..Len(ext) -> Seq(T)] :
          Flattens(g, ext, Len(ext)) /\ FlattenSeq(ext) = g[Len(ext)]
    BY <1>1, <2>1, FlattenSeqIs
  <2>3. Len(ext) = len + 1
    BY <1>1
  <2> QED BY <2>2, <2>3
<1>3. g[len + 1] = IF len + 1 = 1 THEN ext[len + 1] ELSE g[(len + 1) - 1] \o ext[len + 1]
  <2>1. len + 1 \in 1..len+1
    BY <1>1
  <2> QED BY <1>2, <2>1 DEF Flattens
<1>4. CASE len = 0
  <2>1. s = <<>> /\ FlattenSeq(s) = <<>>
    BY <1>4, FlattenEmpty DEF len
  <2>2. FlattenSeq(ext) = x
    BY <1>1, <1>2, <1>3, <1>4
  <2>3. <<>> \o x = x
    BY ConcatEmptySeq
  <2>4. FlattenSeq(s) \in Seq(T)
    BY <2>1, EmptySeq
  <2> QED BY <2>1, <2>2, <2>3, <2>4, Zenon DEF ext
<1>5. CASE len # 0
  <2>1. PICK f \in [1..len -> Seq(T)] : Flattens(f, s, len) /\ FlattenSeq(s) = f[len]
    <3>1. Len(s) # 0
      BY <1>5 DEF len
    <3> QED BY <3>1, FlattenSeqIs DEF len
  <2>2. len \in 0..len /\ len <= len + 1 /\ len \in 1..len /\ (len + 1) - 1 = len /\ len + 1 # 1
    BY <1>1, <1>5
  <2>3. \A i \in 1..len : f[i] = g[i]
    <3> DEFINE longer == len + 1
    <3>1. len \in Nat /\ longer \in Nat /\ len <= longer
      BY <1>1
    <3>2. Flattens(f, s, len) /\ Flattens(g, ext, longer)
      BY <1>2, <2>1
    <3>3. AgreeUpTo(s, ext, len)
      BY <1>1 DEF AgreeUpTo
    <3> HIDE DEF longer
    <3>4. AgreeUpTo(f, g, len)
      BY ONLY <3>1, <3>2, <3>3, FlattensAgree
    <3> QED BY <3>4 DEF AgreeUpTo
  <2> QED BY <1>1, <1>2, <1>3, <2>1, <2>2, <2>3 DEF ext
<1> QED BY <1>4, <1>5

(* A sequence is its front and its last element. *)
LEMMA AppendLast ==
  ASSUME NEW A, NEW q \in Seq(A), NEW front \in Seq(A), NEW last \in A,
         Len(q) = Len(front) + 1, q[Len(q)] = last,
         \A i \in 1..Len(front) : q[i] = front[i]
  PROVE  Append(front, last) = q
<1> DEFINE r == Append(front, last)
           n == Len(front)
<1>1. /\ n \in Nat /\ r \in Seq(A) /\ Len(r) = n + 1 /\ r[n + 1] = last
      /\ \A i \in 1..n : r[i] = front[i]
  OBVIOUS
<1>2. Len(q) = n + 1 /\ q[n + 1] = last /\ \A i \in 1..n : q[i] = front[i]
  OBVIOUS
<1> HIDE DEF r, n
<1>3. ASSUME NEW i \in 1..n+1 PROVE r[i] = q[i]
  <2>1. i = n + 1 \/ i \in 1..n
    BY <1>1
  <2> QED BY <1>1, <1>2, <2>1
<1>4. Len(r) = Len(q) /\ \A i \in 1..Len(r) : r[i] = q[i]
  BY <1>1, <1>2, <1>3
<1>5. r = q
  BY <1>1, <1>4, SeqEqual
<1> QED BY <1>5 DEF r

(* A longer last sequence.                                                   *)
LEMMA FlattenExtendLast ==
  ASSUME NEW T, NEW s \in Seq(Seq(T)), s # <<>>, NEW x \in Seq(T)
  PROVE  FlattenSeq([s EXCEPT ![Len(s)] = @ \o x]) = FlattenSeq(s) \o x
<1> DEFINE len == Len(s)
           front == SubSeq(s, 1, len - 1)
           last == s[len]
           ext == [s EXCEPT ![len] = @ \o x]
<1>1. len \in Nat /\ len >= 1 /\ last \in Seq(T) /\ last \o x \in Seq(T)
  OBVIOUS
<1>2. front \in Seq(Seq(T)) /\ Len(front) = len - 1 /\ \A i \in 1..len-1 : front[i] = s[i]
  <2> HIDE DEF len
  <2>1. \A i \in 1..len-1 : s[i] \in Seq(T)
    BY <1>1, ElementOfSeq DEF len
  <2>2. /\ SubSeq(s, 1, len - 1) \in Seq(Seq(T))
        /\ Len(SubSeq(s, 1, len - 1)) = IF 1 <= len - 1 THEN (len - 1) - 1 + 1 ELSE 0
        /\ \A i \in 1..(len - 1) - 1 + 1 : SubSeq(s, 1, len - 1)[i] = s[1 + i - 1]
    BY <1>1, <2>1, SubSeqProperties
  <2> QED BY <1>1, <2>2
<1>3. ext \in Seq(Seq(T)) /\ Len(ext) = len /\ ext[len] = last \o x /\ \A i \in 1..len-1 : ext[i] = s[i]
  BY <1>1
<1> HIDE DEF front, last, ext, len
<1>4. Append(front, last) = s
  <2>1. s \in Seq(Seq(T)) /\ Len(s) = Len(front) + 1 /\ s[Len(s)] = last
        /\ \A i \in 1..Len(front) : s[i] = front[i]
    BY <1>1, <1>2 DEF len, last
  <2> QED BY <1>1, <1>2, <2>1, AppendLast
<1>5. Append(front, last \o x) = ext
  <2>1. Len(ext) = Len(front) + 1 /\ ext[Len(ext)] = last \o x
        /\ \A i \in 1..Len(front) : ext[i] = front[i]
    BY <1>1, <1>2, <1>3
  <2> QED BY <1>1, <1>2, <1>3, <2>1, AppendLast
<1>6. FlattenSeq(front) \in Seq(T)
  BY <1>1, <1>2, FlattenAppend
<1>7. FlattenSeq(s) = FlattenSeq(front) \o last
  BY <1>1, <1>2, <1>4, FlattenAppend
<1>8. FlattenSeq(ext) = FlattenSeq(front) \o (last \o x)
  BY <1>1, <1>2, <1>5, FlattenAppend
<1>9. FlattenSeq(front) \o (last \o x) = (FlattenSeq(front) \o last) \o x
  <2> DEFINE before == FlattenSeq(front)
  <2>1. before \in Seq(T) /\ last \in Seq(T) /\ x \in Seq(T)
    BY <1>1, <1>6
  <2> HIDE DEF before
  <2>2. before \o (last \o x) = (before \o last) \o x
    BY ONLY <2>1, ConcatAssociative, SMTT(20)
  <2> QED BY <2>2 DEF before
<1> QED BY <1>7, <1>8, <1>9 DEF ext, len

-----------------------------------------------------------------------------
(* What the variables hold: bytes as the ring has them, and files.           *)
LineBytes == Lines \X Nat
FileByte  == (Lines \cup {NoLine}) \X Nat
File      == [date : 0..MaxDay, index : Nat, bytes : Seq(FileByte)]
Places    == [at : {"idle", "locking", "storing"}, line : Lines \cup {NoLine}]

(* The bytes of a line. *)
LEMMA BytesType ==
  ASSUME NEW l \in Lines
  PROVE  /\ Bytes(l) \in Seq(LineBytes) /\ Len(Bytes(l)) = LengthOf[l]
         /\ LengthOf[l] \in Nat \ {0}
<1>1. LengthOf[l] \in Nat \ {0}
  BY LoggerAssumption
<1>2. \A i \in 1..LengthOf[l] : <<l, i>> \in Lines \X Nat
  BY <1>1
<1> HIDE DEF LineBytes
<1>3. Bytes(l) \in [1..LengthOf[l] -> LineBytes]
  BY <1>2 DEF Bytes, LineBytes
<1>4. Bytes(l) \in Seq(LineBytes) /\ Len(Bytes(l)) = LengthOf[l]
  BY <1>1, <1>3
<1> QED BY <1>1, <1>4

(* A sequence over a set is one over any larger set. *)
LEMMA WiderSeq ==
  ASSUME NEW A, NEW B, A \subseteq B, NEW q \in Seq(A)
  PROVE  q \in Seq(B)
<1>1. q \in [1..Len(q) -> A] /\ Len(q) \in Nat
  OBVIOUS
<1>2. q \in [1..Len(q) -> B]
  BY <1>1
<1> QED BY <1>1, <1>2

(* What is in a sequence that became longer. *)
LEMMA RangeOfAppend ==
  ASSUME NEW A, NEW q \in Seq(A), NEW x \in A
  PROVE  /\ Range(Append(q, x)) = Range(q) \cup {x}
         /\ Range(q) = {q[i] : i \in 1..Len(q)}
<1> DEFINE r == Append(q, x)
           n == Len(q)
<1>1. /\ n \in Nat /\ DOMAIN q = 1..n /\ DOMAIN r = 1..n+1
      /\ r[n + 1] = x /\ \A i \in 1..n : r[i] = q[i]
  OBVIOUS
<1> HIDE DEF r, n
<1>2. 1..n+1 = 1..n \cup {n + 1}
  BY <1>1
<1>3. Range(q) = {q[i] : i \in 1..n} /\ Range(r) = {r[i] : i \in 1..n+1}
  BY <1>1 DEF Range
<1> QED BY <1>1, <1>2, <1>3 DEF r, n

(* A byte count that a configuration gives, in size_t. *)
LEMMA ScaledSize ==
  ASSUME NEW k \in Nat
  PROVE  (k * Kilo) % SizeLimit \in 0..SizeLimit-1
<1> DEFINE bytes == k * Kilo
<1>1. bytes \in Nat /\ SizeLimit \in Nat \ {0}
  BY LoggerAssumption
<1> HIDE DEF bytes
<1>2. bytes % SizeLimit \in 0..SizeLimit-1
  BY <1>1
<1> QED BY <1>2 DEF bytes

-----------------------------------------------------------------------------
(* Every initial state is well-typed. *)
LEMMA InitTypeOK == Init => TypeOK
<1> SUFFICES ASSUME Init PROVE TypeOK
  OBVIOUS
<1> USE DEF Init, Idle
<1>1. /\ caller \in [Callers -> Places]
      /\ \A p \in Callers :
           caller[p].line \in IF caller[p].at = "idle" THEN {NoLine} ELSE called
  BY DEF Places
<1>2. max_file_size \in 0..SizeLimit-1
  <2>1. Configured(config_file.max_file_size, DefaultFileSize) \in Nat
    BY LoggerAssumption DEF Configured
  <2> QED BY <2>1, ScaledSize
<1>3. batch_size \in Nat \ {0} /\ read_buffer \in Nat \ {0}
  BY LoggerAssumption DEF Configured
<1>4. <<>> \in Seq(called) /\ <<>> \in Seq(Range(printed)) /\ <<>> \in Seq(Lines \X Nat)
      /\ <<>> \in Seq((Lines \cup {NoLine}) \X Nat)
      /\ <<>> \in Seq([date : 0..MaxDay, index : Nat,
                       bytes : Seq((Lines \cup {NoLine}) \X Nat)])
  BY EmptySeq
<1>5. /\ Len(ring_buffer_) <= RingSize /\ today \in 0..MaxDay
      /\ Len(batch) <= RingSize /\ Len(batch) <= read_buffer
      /\ unflushed \in 0..StreamBuffer
  BY <1>3, LoggerAssumption
<1>6. max_flush_size \in Nat
  BY LoggerAssumption DEF Configured
<1>7. {batch_size, read_buffer} \subseteq Nat \ {0}
  BY <1>3
<1> QED BY <1>1, <1>2, <1>4, <1>5, <1>6, <1>7, Zenon DEF TypeOK, Places

(* TypeOK in three parts: the callers' variables, those of the ring and the  *)
(* writer, and the configuration.  A caller stores a line it has printed.    *)
LinesTyped ==
  /\ caller \in [Callers -> Places]
  /\ \A p \in Callers :
       caller[p].line \in IF caller[p].at = "idle" THEN {NoLine} ELSE called
  /\ \A p \in Callers :
       caller[p].at = "storing" => caller[p].line \in Range(printed)
  /\ called \subseteq Lines
  /\ printed \in Seq(called) /\ stored \in Seq(Range(printed))

(* No more was in the ring, and what was read from it fits read_buffer.      *)
BatchFits ==
  /\ Len(batch) <= RingSize
  /\ Len(batch) <= read_buffer \/ \A i \in 1..Len(batch) : batch[i][1] = NoLine

WriterTyped ==
  /\ ring_buffer_ \in Seq(LineBytes) /\ Len(ring_buffer_) <= RingSize
  /\ writer \in {"checking", "locking", "waiting", "writing", "exited", "aborted"}
  /\ batch \in Seq(FileByte)
  /\ batch # <<>> <=> writer \in {"writing", "aborted"}
  /\ BatchFits
  /\ files \in Seq(File) /\ unflushed \in 0..StreamBuffer

SettingsTyped ==
  /\ max_file_size \in 0..SizeLimit-1 /\ max_flush_size \in Nat
  /\ batch_size \in Nat \ {0} /\ read_buffer \in Nat \ {0}
  /\ config_file \in Configs /\ today \in 0..MaxDay
  /\ monitor \in {"sleeping", "locking", "scaling", "exited"}
  /\ owner \in {"using", "joining", "gone"}

Typed == LinesTyped /\ WriterTyped /\ SettingsTyped

LEMMA TypedIsTypeOK == Typed => TypeOK
BY DEF Typed, TypeOK, LinesTyped, WriterTyped, SettingsTyped, Places, LineBytes, FileByte,
       File, BatchFits

(* A line that is printed is one that was called, and adds itself to what    *)
(* may be stored.                                                            *)
LEMMA PrintedGrows ==
  ASSUME LinesTyped, NEW p \in Callers, caller[p].at # "idle"
  PROVE  /\ caller[p].line \in called /\ caller[p].line \in Lines
         /\ Append(printed, caller[p].line) \in Seq(called)
         /\ stored \in Seq(Range(Append(printed, caller[p].line)))
<1>1. caller[p].line \in called /\ caller[p].line \in Lines
  BY DEF LinesTyped
<1>2. Append(printed, caller[p].line) \in Seq(called)
  BY <1>1 DEF LinesTyped
<1>3. Range(printed) \subseteq Range(Append(printed, caller[p].line))
  BY <1>1, RangeOfAppend DEF LinesTyped
<1>4. stored \in Seq(Range(Append(printed, caller[p].line)))
  BY <1>3, WiderSeq DEF LinesTyped
<1> QED BY <1>1, <1>2, <1>4

(* A step of the callers keeps their types. *)
LEMMA NextLinesTyped == Typed /\ [Next]_vars => LinesTyped'
<1> SUFFICES ASSUME Typed, [Next]_vars PROVE LinesTyped'
  OBVIOUS
<1>0. LinesTyped
  BY DEF Typed
<1>1. CASE UNCHANGED lineVars
  BY <1>0, <1>1 DEF LinesTyped, lineVars
<1>2. ASSUME NEW p \in Callers, NEW l \in Lines, Log(p, l) PROVE LinesTyped'
  <2>1. /\ called' = called \cup {l} /\ printed' = printed /\ stored' = stored
        /\ caller' \in {caller, [caller EXCEPT ![p] = [at |-> "locking", line |-> l]]}
    BY <1>2 DEF Log
  <2>2. printed' \in Seq(called') /\ called' \subseteq Lines
    BY <1>0, <2>1, WiderSeq DEF LinesTyped
  <2>3. stored' \in Seq(Range(printed)')
    BY <1>0, <2>1 DEF LinesTyped
  <2>4. caller' \in [Callers -> Places]
    BY <1>0, <2>1 DEF LinesTyped, Places
  <2>5. ASSUME NEW q \in Callers
        PROVE  /\ caller'[q].line \in IF caller'[q].at = "idle" THEN {NoLine} ELSE called'
               /\ caller'[q].at = "storing" => caller'[q].line \in Range(printed)'
    BY <1>0, <2>1 DEF LinesTyped, Places
  <2> QED BY <2>2, <2>3, <2>4, <2>5 DEF LinesTyped
<1>3. ASSUME NEW p \in Callers, PrintLine(p) PROVE LinesTyped'
  <2>1. /\ called' = called /\ stored' = stored
        /\ printed' = Append(printed, caller[p].line)
        /\ caller[p].at # "idle"
    BY <1>3 DEF PrintLine
  <2>2. printed' \in Seq(called') /\ stored' \in Seq(Range(printed)')
    BY <1>0, <2>1, PrintedGrows
  <2>3. Range(printed)' = Range(printed) \cup {caller[p].line} /\ caller[p].line \in called
    BY <1>0, <2>1, PrintedGrows, RangeOfAppend DEF LinesTyped
  <2>4. caller' \in {[caller EXCEPT ![p] = Idle],
                     [caller EXCEPT ![p] = [at |-> "storing", line |-> caller[p].line]]}
    <3> DEFINE place == caller[p]
    <3>1. place \in Places
      BY <1>0 DEF LinesTyped
    <3> HIDE DEF place
    <3>2. [place EXCEPT !.at = "storing"] = [at |-> "storing", line |-> place.line]
      BY <3>1 DEF Places
    <3>3. [caller EXCEPT ![p].at = "storing"]
            = [caller EXCEPT ![p] = [place EXCEPT !.at = "storing"]]
      BY DEF place
    <3> QED BY <1>3, <3>2, <3>3 DEF PrintLine, place
  <2>5. caller' \in [Callers -> Places]
    BY <1>0, <2>3, <2>4 DEF LinesTyped, Places, Idle
  <2>6. ASSUME NEW q \in Callers
        PROVE  /\ caller'[q].line \in IF caller'[q].at = "idle" THEN {NoLine} ELSE called'
               /\ caller'[q].at = "storing" => caller'[q].line \in Range(printed)'
    <3>1. CASE q = p
      BY <1>0, <2>1, <2>3, <2>4, <3>1 DEF LinesTyped, Idle
    <3>2. CASE q # p
      <4>1. caller'[q] = caller[q]
        BY <1>0, <2>4, <3>2 DEF LinesTyped
      <4> QED BY <1>0, <2>1, <2>3, <4>1 DEF LinesTyped
    <3> QED BY <3>1, <3>2
  <2> QED BY <1>0, <2>1, <2>2, <2>5, <2>6 DEF LinesTyped
<1>4. ASSUME NEW p \in Callers, StoreLine(p) PROVE LinesTyped'
  <2>1. /\ called' = called /\ printed' = printed
        /\ stored' \in {stored, Append(stored, caller[p].line)}
        /\ caller' = [caller EXCEPT ![p] = Idle]
        /\ caller[p].at = "storing"
    BY <1>4 DEF StoreLine
  <2>2. stored' \in Seq(Range(printed)')
    <3> DEFINE R == Range(printed)
    <3>1. stored \in Seq(R) /\ caller[p].line \in R
      BY <1>0, <2>1 DEF LinesTyped
    <3> HIDE DEF R
    <3>2. Append(stored, caller[p].line) \in Seq(R)
      BY <3>1
    <3>3. stored' \in Seq(R)
      BY <2>1, <3>1, <3>2
    <3> QED BY <2>1, <3>3 DEF R
  <2>3. caller' \in [Callers -> Places]
    BY <1>0, <2>1 DEF LinesTyped, Places, Idle
  <2>4. ASSUME NEW q \in Callers
        PROVE  /\ caller'[q].line \in IF caller'[q].at = "idle" THEN {NoLine} ELSE called'
               /\ caller'[q].at = "storing" => caller'[q].line \in Range(printed)'
    BY <1>0, <2>1 DEF LinesTyped, Places, Idle
  <2> QED BY <1>0, <2>1, <2>2, <2>3, <2>4 DEF LinesTyped
<1>5. CASE CustThreadProc \/ TimeOut \/ OpenFails
  BY <1>1, <1>5 DEF CustThreadProc, Check, Wait, TakeBatch, WriteBatch, TimeOut, OpenFails
<1>6. CASE MonitorConfigChanges
  BY <1>1, <1>6
     DEF MonitorConfigChanges, Stat, LoadFileSize, UpdateConfig, StopMonitor
<1>7. ASSUME NEW c \in Configs, Edit(c) PROVE LinesTyped'
  BY <1>1, <1>7 DEF Edit
<1>8. CASE Midnight \/ Destroy \/ Join \/ Terminated \/ UNCHANGED vars
  BY <1>1, <1>8 DEF Midnight, Destroy, Join, Terminated, vars
<1> QED
  BY <1>2, <1>3, <1>4, <1>5, <1>6, <1>7, <1>8 DEF Next

(* The two halves of a sequence, cut after n. *)
LEMMA CutInTwo ==
  ASSUME NEW A, NEW q \in Seq(A), NEW n \in 0..Len(q)
  PROVE  /\ SubSeq(q, 1, n) \in Seq(A) /\ Len(SubSeq(q, 1, n)) = n
         /\ SubSeq(q, n + 1, Len(q)) \in Seq(A)
         /\ Len(SubSeq(q, n + 1, Len(q))) = Len(q) - n
         /\ SubSeq(q, 1, n) \o SubSeq(q, n + 1, Len(q)) = q
<1> DEFINE len == Len(q)
           a == SubSeq(q, 1, n)
           b == SubSeq(q, n + 1, len)
<1>1. len \in Nat /\ n \in Nat /\ n <= len
  OBVIOUS
<1>2. \A i \in 1..len : q[i] \in A
  OBVIOUS
<1> HIDE DEF len
<1>3. a \in Seq(A) /\ Len(a) = n /\ \A i \in 1..n : a[i] = q[i]
  <2>1. \A i \in 1..n : q[i] \in A
    BY <1>1, <1>2
  <2> QED BY <1>1, <2>1, SubSeqProperties
<1>4. b \in Seq(A) /\ Len(b) = len - n /\ \A i \in 1..len-n : b[i] = q[n + i]
  <2>1. \A i \in n+1..len : q[i] \in A
    BY <1>1, <1>2
  <2> QED BY <1>1, <2>1, SubSeqProperties
<1> HIDE DEF a, b
<1>5. a \o b = q
  <2>1. a \o b \in Seq(A) /\ Len(a \o b) = len
    <3>0. a \in Seq(A) /\ b \in Seq(A)
      BY <1>3, <1>4
    <3>1. a \o b \in Seq(A) /\ Len(a \o b) = Len(a) + Len(b)
      BY ONLY <3>0, ConcatProperties
    <3>2. n + (len - n) = len
      BY <1>1
    <3> QED BY <1>3, <1>4, <3>1, <3>2
  <2>2. ASSUME NEW i \in 1..len PROVE (a \o b)[i] = q[i]
    <3>1. (a \o b)[i] = IF i <= n THEN a[i] ELSE b[i - n]
      BY <1>1, <1>3, <1>4
    <3>2. CASE i <= n
      BY <1>1, <1>3, <3>1, <3>2
    <3>3. CASE ~(i <= n)
      <4>1. i - n \in 1..len-n /\ n + (i - n) = i
        BY <1>1, <3>3
      <4> QED BY <1>4, <3>1, <3>3, <4>1
    <3> QED BY <3>2, <3>3
  <2> QED BY <2>1, <2>2, SeqEqual DEF len
<1> QED BY <1>3, <1>4, <1>5 DEF a, b, len

(* The files after bytes are added to the last one, or to one opened for     *)
(* them.                                                                     *)
LEMMA WrittenFiles ==
  ASSUME WriterTyped, SettingsTyped
  PROVE  /\ files # <<>> \/ Rotates
         /\ AppendTo(IF Rotates THEN Append(files, NextFile) ELSE files, batch) \in Seq(File)
         /\ Rotates => NextFile \in File
<1>1. batch \in Seq(FileByte) /\ files \in Seq(File) /\ today \in 0..MaxDay
  BY DEF WriterTyped, SettingsTyped
<1>2. files # <<>> \/ Rotates
  BY DEF Rotates, NewDay
<1>3. NextFile \in File
  <2>1. (IF NewDay THEN 0 ELSE Current.index + 1) \in Nat
    <3>1. CASE NewDay
      BY <3>1
    <3>2. CASE ~NewDay
      <4>1. files # <<>>
        BY <3>2 DEF NewDay
      <4>2. files[Len(files)] \in File
        BY <1>1, <4>1
      <4>3. files[Len(files)].index \in Nat
        BY <4>2 DEF File
      <4>4. Current.index \in Nat
        BY <4>3 DEF Current, Last
      <4> QED BY <3>2, <4>4
    <3> QED BY <3>1, <3>2
  <2>2. <<>> \in Seq(FileByte)
    BY EmptySeq
  <2> QED BY <1>1, <2>1, <2>2 DEF NextFile, File
<1>4. PICK fs : fs = (IF Rotates THEN Append(files, NextFile) ELSE files)
  OBVIOUS
<1>5. fs \in Seq(File) /\ fs # <<>>
  BY <1>1, <1>2, <1>3, <1>4
<1>6. AppendTo(fs, batch) \in Seq(File)
  <2>1. Len(fs) \in 1..Len(fs) /\ fs[Len(fs)] \in File
    BY <1>5
  <2> DEFINE last == fs[Len(fs)]
             longer == [last EXCEPT !.bytes = last.bytes \o batch]
  <2>2. last \in File /\ last.bytes \o batch \in Seq(FileByte)
    <3>1. last.bytes \in Seq(FileByte)
      BY <2>1 DEF File
    <3> QED BY <1>1, <2>1, <3>1
  <2> HIDE DEF last
  <2>3. longer \in File
    BY <2>2 DEF File
  <2> HIDE DEF longer
  <2>4. [fs EXCEPT ![Len(fs)] = longer] \in Seq(File)
    BY <1>5, <2>1, <2>3
  <2>5. AppendTo(fs, batch) = [fs EXCEPT ![Len(fs)] = longer]
    BY DEF AppendTo, longer, last
  <2> QED BY <2>4, <2>5
<1> QED BY <1>2, <1>3, <1>4, <1>6

(* What TakeBatch takes is never nothing. *)
LEMMA BatchSize ==
  ASSUME WriterTyped, SettingsTyped, ring_buffer_ # <<>>
  PROVE  /\ Lesser(Len(ring_buffer_), batch_size) \in 1..Len(ring_buffer_)
         /\ Lesser(Len(ring_buffer_), batch_size) <= batch_size
<1>1. Len(ring_buffer_) \in Nat \ {0} /\ batch_size \in Nat \ {0}
  BY DEF WriterTyped, SettingsTyped
<1> QED BY <1>1 DEF Lesser

(* A step of the callers or the writer keeps the ring's and the writer's     *)
(* types.                                                                    *)
LEMMA NextWriterTyped == Typed /\ [Next]_vars => WriterTyped'
<1> SUFFICES ASSUME Typed, [Next]_vars PROVE WriterTyped'
  OBVIOUS
<1>0. LinesTyped /\ WriterTyped /\ SettingsTyped
  BY DEF Typed
<1>1. CASE UNCHANGED <<ring_buffer_, writer, read_buffer, batch, files, unflushed>>
  BY <1>0, <1>1 DEF WriterTyped, BatchFits
<1>2. ASSUME NEW p \in Callers, StoreLine(p) PROVE WriterTyped'
  <2>1. /\ batch' = batch /\ files' = files /\ unflushed' = unflushed
        /\ read_buffer' = read_buffer
        /\ writer' = IF writer = "waiting" THEN "locking" ELSE writer
    BY <1>2 DEF StoreLine, WakeWriter, fileState
  <2>2. /\ writer' \in {"checking", "locking", "waiting", "writing", "exited", "aborted"}
        /\ batch' # <<>> <=> writer' \in {"writing", "aborted"}
    BY <1>0, <2>1 DEF WriterTyped
  <2>3. ring_buffer_' \in Seq(LineBytes) /\ Len(ring_buffer_') <= RingSize
    <3> DEFINE ring == ring_buffer_
               new == Bytes(caller[p].line)
               len == LengthOf[caller[p].line]
    <3>1. caller[p].line \in Lines
      BY <1>0, <1>2, PrintedGrows DEF StoreLine
    <3>2. new \in Seq(LineBytes) /\ Len(new) = len /\ len \in Nat
      BY <3>1, BytesType
    <3>3. ring \in Seq(LineBytes) /\ Len(ring) <= RingSize /\ RingSize \in Nat
      BY <1>0, LoggerAssumption DEF WriterTyped
    <3>4. (ring_buffer_' = ring \o new /\ len <= RingSize - Len(ring)) \/ ring_buffer_' = ring
      BY <1>2 DEF StoreLine
    <3> HIDE DEF ring, new, len, LineBytes
    <3>5. ring \o new \in Seq(LineBytes) /\ Len(ring \o new) = Len(ring) + Len(new)
      BY <3>2, <3>3
    <3>6. CASE ring_buffer_' = ring \o new /\ len <= RingSize - Len(ring)
      <4>1. Len(ring) + len <= RingSize
        <5>1. Len(ring) \in Nat
          BY <3>3
        <5> QED BY <3>2, <3>3, <3>6, <5>1
      <4> QED BY <3>2, <3>5, <3>6, <4>1
    <3>7. CASE ring_buffer_' = ring
      BY <3>3, <3>7
    <3> QED BY <3>4, <3>6, <3>7
  <2> QED BY <1>0, <2>1, <2>2, <2>3 DEF WriterTyped, BatchFits
<1>3. CASE Check \/ Wait \/ TimeOut \/ OpenFails
  <2>1. /\ UNCHANGED <<ring_buffer_, read_buffer, batch, files>>
        /\ unflushed' \in {unflushed, 0}
        /\ writer' \in {"checking", "locking", "waiting", "exited", "aborted"}
        /\ writer' = "aborted" <=> writer = "writing"
        /\ writer \in {"checking", "locking", "waiting", "writing"}
    BY <1>3 DEF Check, Wait, TimeOut, OpenFails, fileState
  <2>2. unflushed' \in 0..StreamBuffer
    BY <1>0, <2>1, LoggerAssumption DEF WriterTyped
  <2> QED BY <1>0, <2>1, <2>2 DEF WriterTyped, BatchFits
<1>4. CASE TakeBatch
  <2>1. /\ ring_buffer_ # <<>> /\ files' = files /\ writer' = "writing"
        /\ unflushed' = unflushed /\ read_buffer' = read_buffer
    BY <1>4 DEF TakeBatch, fileState
  <2> DEFINE n == Lesser(Len(ring_buffer_), batch_size)
             len == Len(ring_buffer_)
  <2>2. n \in 1..len /\ n \in 0..len /\ n \in Nat \ {0} /\ len \in Nat
    BY <1>0, <2>1, BatchSize DEF WriterTyped
  <2>3. \/ /\ n <= read_buffer
           /\ batch' = SubSeq(ring_buffer_, 1, n)
           /\ ring_buffer_' = SubSeq(ring_buffer_, n + 1, len)
        \/ /\ batch' = [i \in 1..n |-> <<NoLine, i>>]
           /\ ring_buffer_' = ring_buffer_
    BY <1>4 DEF TakeBatch
  <2>a. n <= RingSize
    BY <1>0, <2>2, LoggerAssumption DEF WriterTyped
  <2> HIDE DEF n, LineBytes, FileByte
  <2>4. CASE /\ n <= read_buffer
             /\ batch' = SubSeq(ring_buffer_, 1, n)
             /\ ring_buffer_' = SubSeq(ring_buffer_, n + 1, len)
    <3>1. /\ batch' \in Seq(LineBytes) /\ Len(batch') = n
          /\ ring_buffer_' \in Seq(LineBytes) /\ Len(ring_buffer_') = len - n
      <4>1. ring_buffer_ \in Seq(LineBytes) /\ n \in 0..Len(ring_buffer_)
        BY <1>0, <2>2 DEF WriterTyped
      <4> QED BY <2>4, <4>1, CutInTwo
    <3>2. batch' \in Seq(FileByte)
      <4>1. LineBytes \subseteq FileByte
        BY DEF LineBytes, FileByte
      <4> QED BY <3>1, <4>1, WiderSeq
    <3>3. batch' # <<>>
      BY <2>2, <3>1
    <3>4. Len(ring_buffer_') <= RingSize
      <4>1. len <= RingSize /\ RingSize \in Nat
        BY <1>0, LoggerAssumption DEF WriterTyped
      <4>2. Len(ring_buffer_') = len - n
        BY <3>1
      <4> HIDE DEF len
      <4> QED BY <2>2, <4>1, <4>2
    <3>5. BatchFits'
      BY <2>1, <2>4, <2>a, <3>1 DEF BatchFits
    <3> QED BY <1>0, <2>1, <3>1, <3>2, <3>3, <3>4, <3>5 DEF WriterTyped
  <2>5. CASE /\ batch' = [i \in 1..n |-> <<NoLine, i>>]
             /\ ring_buffer_' = ring_buffer_
    <3>1. batch' \in [1..n -> FileByte]
      BY <2>2, <2>5 DEF FileByte
    <3>2. batch' \in Seq(FileByte) /\ batch' # <<>> /\ Len(batch') = n
      BY <2>2, <3>1
    <3>3. \A i \in 1..n : batch'[i][1] = NoLine
      BY <2>5
    <3>4. BatchFits'
      BY <2>a, <3>2, <3>3 DEF BatchFits
    <3> QED BY <1>0, <2>1, <2>5, <3>2, <3>4 DEF WriterTyped
  <2> QED BY <2>3, <2>4, <2>5
<1>5. CASE WriteBatch
  <2>1. /\ batch' = <<>> /\ writer' = "checking" /\ ring_buffer_' = ring_buffer_
        /\ files' = AppendTo(IF Rotates THEN Append(files, NextFile) ELSE files, batch)
    BY <1>5 DEF WriteBatch
  <2>2. files' \in Seq(File) /\ batch' \in Seq(FileByte)
    BY <1>0, <2>1, WrittenFiles, EmptySeq
  <2>3. unflushed' \in 0..StreamBuffer
    <3> DEFINE held == Len(batch) + IF Rotates THEN 0 ELSE unflushed
    <3>1. held \in Nat
      BY <1>0, LoggerAssumption DEF WriterTyped
    <3>2. unflushed' \in IF Len(batch) >= max_flush_size THEN {0} ELSE HeldBack(held)
      BY <1>5 DEF WriteBatch
    <3> HIDE DEF held
    <3> QED BY <3>1, <3>2, LoggerAssumption DEF HeldBack, Lesser
  <2>4. BatchFits'
    BY <1>0, <1>5, <2>1, LoggerAssumption DEF WriteBatch, BatchFits, SettingsTyped
  <2> QED BY <1>0, <2>1, <2>2, <2>3, <2>4 DEF WriterTyped
<1>6. ASSUME NEW p \in Callers, NEW l \in Lines, Log(p, l) PROVE WriterTyped'
  BY <1>1, <1>6 DEF Log, writerVars
<1>7. CASE MonitorConfigChanges
  BY <1>1, <1>7
     DEF MonitorConfigChanges, Stat, LoadFileSize, UpdateConfig, StopMonitor, writerVars
<1>8. ASSUME NEW c \in Configs, Edit(c) PROVE WriterTyped'
  BY <1>1, <1>8 DEF Edit, writerVars
<1>9. CASE Midnight \/ Destroy \/ Join \/ Terminated \/ UNCHANGED vars
  BY <1>1, <1>9 DEF Midnight, Destroy, Join, Terminated, vars, writerVars
<1>10. ASSUME NEW p \in Callers, PrintLine(p) PROVE WriterTyped'
  BY <1>1, <1>10 DEF PrintLine, writerVars
<1> QED
  BY <1>2, <1>3, <1>4, <1>5, <1>6, <1>7, <1>8, <1>9, <1>10 DEF Next, CustThreadProc

(* The configuration keeps its types: sizes are scaled in size_t. *)
LEMMA NextSettingsTyped == Typed /\ [Next]_vars => SettingsTyped'
<1> SUFFICES ASSUME Typed, [Next]_vars PROVE SettingsTyped'
  OBVIOUS
<1>0. SettingsTyped
  BY DEF Typed
<1>1. CASE UNCHANGED <<settings, read_buffer, config_file, monitor, today, owner>>
  BY <1>0, <1>1 DEF SettingsTyped, settings
<1>2. CASE LoadFileSize
  <2>1. max_file_size' \in 0..SizeLimit-1
    BY <1>0, <1>2, LoggerAssumption DEF LoadFileSize, SettingsTyped, Configured
  <2> QED BY <1>0, <1>2, <2>1
          DEF LoadFileSize, SettingsTyped, fileVars, writerVars
<1>3. CASE UpdateConfig
  <2>1. max_file_size' \in 0..SizeLimit-1
    <3>1. max_file_size \in Nat
      BY <1>0, LoggerAssumption DEF SettingsTyped
    <3> QED BY <1>3, <3>1, ScaledSize DEF UpdateConfig
  <2>2. batch_size' \in Nat \ {0} /\ max_flush_size' \in Nat
    BY <1>0, <1>3, LoggerAssumption DEF UpdateConfig, SettingsTyped, Configured
  <2> QED BY <1>0, <1>3, <2>1, <2>2
          DEF UpdateConfig, SettingsTyped, fileVars, writerVars
<1>4. ASSUME NEW c \in Configs, Edit(c) PROVE SettingsTyped'
  BY <1>0, <1>4 DEF Edit, SettingsTyped, settings, writerVars
<1>5. CASE Midnight
  BY <1>0, <1>5, LoggerAssumption DEF Midnight, SettingsTyped, settings, fileVars, writerVars
<1>6. CASE Stat \/ StopMonitor \/ Destroy \/ Join
  BY <1>0, <1>6
     DEF Stat, StopMonitor, Destroy, Join, SettingsTyped, settings, fileVars, writerVars
<1>7. CASE CustThreadProc \/ TimeOut \/ OpenFails
  BY <1>1, <1>7
     DEF CustThreadProc, Check, Wait, TakeBatch, WriteBatch, TimeOut, OpenFails, fileVars
<1>8. ASSUME NEW p \in Callers, NEW l \in Lines, Log(p, l) PROVE SettingsTyped'
  BY <1>1, <1>8 DEF Log, fileVars, writerVars
<1>9. ASSUME NEW p \in Callers, PrintLine(p) \/ StoreLine(p) PROVE SettingsTyped'
  BY <1>1, <1>9 DEF PrintLine, StoreLine, fileVars, writerVars
<1>10. CASE Terminated \/ UNCHANGED vars
  BY <1>1, <1>10 DEF Terminated, vars, fileVars, writerVars
<1> QED
  BY <1>2, <1>3, <1>4, <1>5, <1>6, <1>7, <1>8, <1>9, <1>10
     DEF Next, MonitorConfigChanges

(* The three parts are inductive together. *)
LEMMA InitTyped == Init => Typed
<1> SUFFICES ASSUME Init PROVE Typed
  OBVIOUS
<1>1. TypeOK
  BY InitTypeOK
<1>2. \A p \in Callers : caller[p].at # "storing"
  BY DEF Init, Idle
<1> QED BY <1>1, <1>2
        DEF TypeOK, Typed, LinesTyped, WriterTyped, SettingsTyped, Places, LineBytes,
            FileByte, File, BatchFits

LEMMA NextTyped == Typed /\ [Next]_vars => Typed'
BY NextLinesTyped, NextWriterTyped, NextSettingsTyped DEF Typed

(* For any callers, lines and configurations: the ring never holds more than *)
(* it has room for, only what was printed is stored, the writer has a batch  *)
(* in its hands exactly while it writes; a batch is no larger than the ring, *)
(* and one that was read from it, whatever is reloaded, no larger than       *)
(* read_buffer.                                                              *)
THEOREM LoggerTypeCorrect == Spec => []TypeOK
BY InitTyped, NextTyped, TypedIsTypeOK, PTL DEF Spec

-----------------------------------------------------------------------------
(***************************************************************************)
(* The files' order is the console's.  mutex_ is held from the print to    *)
(* the store, so the line that is about to be stored is the one printed    *)
(* last; and no two callers have the same line.                            *)
(***************************************************************************)
LinesInHand ==
  \A p \in Callers :
    /\ caller[p].at = "locking" => caller[p].line \notin Range(printed)
    /\ caller[p].at = "storing" =>
         /\ printed # <<>> /\ caller[p].line = printed[Len(printed)]
         /\ caller[p].line \notin Range(stored)
    /\ \A q \in Callers :
         p # q /\ caller[p].at # "idle" => caller[q].line # caller[p].line

OrderInv == Typed /\ LinesInHand /\ ConsoleOrder

(* What stands in a sequence that became longer, and in which order. *)
LEMMA OrderOfAppend ==
  ASSUME NEW A, NEW q \in Seq(A), NEW x \in A, NEW k, NEW l
  PROVE  /\ InOrder(q, k, l) => InOrder(Append(q, x), k, l)
         /\ InOrder(Append(q, x), k, l) => InOrder(q, k, l) \/ (k \in Range(q) /\ l = x)
         /\ k \in Range(q) => InOrder(Append(q, x), k, x)
<1> DEFINE r == Append(q, x)
           n == Len(q)
<1>1. /\ n \in Nat /\ Len(r) = n + 1 /\ r[n + 1] = x /\ \A i \in 1..n : r[i] = q[i]
  OBVIOUS
<1>2. Range(q) = {q[i] : i \in 1..n}
  BY RangeOfAppend
<1> HIDE DEF r, n
<1>3. ASSUME InOrder(q, k, l) PROVE InOrder(r, k, l)
  <2>1. PICK i, j \in 1..n : i < j /\ q[i] = k /\ q[j] = l
    BY <1>3 DEF InOrder, n
  <2>2. i \in 1..Len(r) /\ j \in 1..Len(r) /\ r[i] = k /\ r[j] = l
    BY <1>1, <2>1
  <2> QED BY <2>1, <2>2 DEF InOrder
<1>4. ASSUME InOrder(r, k, l) PROVE InOrder(q, k, l) \/ (k \in Range(q) /\ l = x)
  <2>1. PICK i, j \in 1..Len(r) : i < j /\ r[i] = k /\ r[j] = l
    BY <1>4 DEF InOrder
  <2>2. i \in 1..n /\ k = q[i]
    BY <1>1, <2>1
  <2>3. CASE j \in 1..n
    <3>1. l = q[j]
      BY <1>1, <2>1, <2>3
    <3> QED BY <2>1, <2>2, <2>3, <3>1 DEF InOrder, n
  <2>4. CASE j \notin 1..n
    <3>1. j = n + 1
      BY <1>1, <2>1, <2>4
    <3> QED BY <1>1, <1>2, <2>1, <2>2, <3>1
  <2> QED BY <2>3, <2>4
<1>5. ASSUME k \in Range(q) PROVE InOrder(r, k, x)
  <2>1. PICK i \in 1..n : q[i] = k
    BY <1>2, <1>5
  <2>2. i \in 1..Len(r) /\ n + 1 \in 1..Len(r) /\ i < n + 1 /\ r[i] = k /\ r[n + 1] = x
    BY <1>1, <2>1
  <2> QED BY <2>2 DEF InOrder
<1> QED BY <1>3, <1>4, <1>5 DEF r

(* A line that was printed, before another that was printed last. *)
LEMMA BeforeTheLast ==
  ASSUME NEW A, NEW q \in Seq(A), q # <<>>, NEW k \in Range(q), k # q[Len(q)]
  PROVE  InOrder(q, k, q[Len(q)])
<1>1. Len(q) \in Nat \ {0} /\ Range(q) = {q[i] : i \in 1..Len(q)}
  BY DEF Range
<1>2. PICK i \in 1..Len(q) : q[i] = k
  BY <1>1
<1>3. i < Len(q) /\ Len(q) \in 1..Len(q)
  BY <1>1, <1>2
<1> QED BY <1>2, <1>3 DEF InOrder

LEMMA InitOrderInv == Init => OrderInv
<1> SUFFICES ASSUME Init PROVE OrderInv
  OBVIOUS
<1>1. Typed
  BY InitTyped
<1>2. LinesInHand
  BY DEF Init, Idle, LinesInHand
<1>3. ConsoleOrder
  BY DEF Init, ConsoleOrder, InOrder
<1> QED BY <1>1, <1>2, <1>3 DEF OrderInv

(* A step of the callers keeps the lines in their hands apart. *)
LEMMA NextLinesInHand == OrderInv /\ [Next]_vars => LinesInHand'
<1> SUFFICES ASSUME OrderInv, [Next]_vars PROVE LinesInHand'
  OBVIOUS
<1>0. LinesTyped /\ LinesInHand
  BY DEF OrderInv, Typed
<1>1. CASE UNCHANGED lineVars
  BY <1>0, <1>1 DEF LinesInHand, lineVars
<1>2. ASSUME NEW p \in Callers, NEW l \in Lines, Log(p, l) PROVE LinesInHand'
  <2>1. /\ printed' = printed /\ stored' = stored
        /\ caller' \in {caller, [caller EXCEPT ![p] = [at |-> "locking", line |-> l]]}
        /\ l \notin called
    BY <1>2 DEF Log
  <2>2. CASE caller' = caller
    BY <1>0, <2>1, <2>2 DEF LinesInHand
  <2>3. CASE caller' = [caller EXCEPT ![p] = [at |-> "locking", line |-> l]]
    <3>1. l \notin Range(printed) /\ l # NoLine
      <4>1. printed \in Seq(called)
        BY <1>0 DEF LinesTyped
      <4>2. Range(printed) \subseteq called
        BY <4>1 DEF Range
      <4> QED BY <2>1, <4>2, LoggerAssumption
    <3>2. \A q \in Callers : caller[q].line # l
      BY <1>0, <2>1, <3>1 DEF LinesTyped
    <3>3. \A q \in Callers :
            caller'[q] = IF q = p THEN [at |-> "locking", line |-> l] ELSE caller[q]
      BY <1>0, <2>3 DEF LinesTyped
    <3> QED BY <1>0, <2>1, <3>1, <3>2, <3>3 DEF LinesInHand
  <2> QED BY <2>1, <2>2, <2>3
<1>3. ASSUME NEW p \in Callers, PrintLine(p) PROVE LinesInHand'
  <2> DEFINE line == caller[p].line
  <2>1. /\ stored' = stored /\ printed' = Append(printed, line)
        /\ caller[p].at = "locking"
        /\ \A q \in Callers : caller[q].at # "storing"
    BY <1>3 DEF PrintLine, MutexFree
  <2>2. line \in called /\ printed \in Seq(called) /\ line \in Lines
    BY <1>0, <2>1, PrintedGrows DEF LinesTyped
  <2>3. /\ Range(printed)' = Range(printed) \cup {line}
        /\ printed' # <<>> /\ printed'[Len(printed')] = line
    BY <2>1, <2>2, RangeOfAppend
  <2>4. line \notin Range(printed) /\ line \notin Range(stored)
    <3>1. Range(stored) \subseteq Range(printed)
      BY <1>0 DEF LinesTyped, Range
    <3> QED BY <1>0, <2>1, <3>1 DEF LinesInHand
  <2>5. \A q \in Callers :
          /\ q # p => caller'[q] = caller[q]
          /\ q = p => caller'[q] = Idle
                      \/ (caller'[q].at = "storing" /\ caller'[q].line = line)
    BY <1>0, <1>3 DEF LinesTyped, PrintLine, Places
  <2>6. \A q \in Callers : caller[q].line # NoLine => caller[q].at # "idle"
    BY <1>0 DEF LinesTyped
  <2>7. line # NoLine
    BY <2>2, LoggerAssumption
  <2>8. ASSUME NEW q \in Callers
        PROVE  /\ caller'[q].at = "locking" => caller'[q].line \notin Range(printed)'
               /\ caller'[q].at = "storing" =>
                    /\ printed' # <<>> /\ caller'[q].line = printed'[Len(printed')]
                    /\ caller'[q].line \notin Range(stored)'
    <3>1. CASE q = p
      BY <2>1, <2>3, <2>4, <2>5, <3>1 DEF Idle
    <3>2. CASE q # p
      <4>1. caller'[q] = caller[q] /\ caller[q].line # line
        BY <1>0, <2>1, <2>5, <3>2 DEF LinesInHand
      <4> QED BY <1>0, <2>1, <2>3, <4>1 DEF LinesInHand
    <3> QED BY <3>1, <3>2
  <2>9. ASSUME NEW q \in Callers, NEW o \in Callers, q # o, caller'[q].at # "idle"
        PROVE  caller'[o].line # caller'[q].line
    <3>1. CASE q = p
      <4>1. caller'[q].line = line /\ caller'[o] = caller[o]
        BY <2>5, <2>9, <3>1 DEF Idle
      <4> QED BY <1>0, <2>1, <2>9, <3>1, <4>1 DEF LinesInHand
    <3>2. CASE q # p
      <4>1. caller'[q] = caller[q] /\ caller[q].at # "idle" /\ caller[q].line # NoLine
        BY <1>0, <2>5, <2>9, <3>2, LoggerAssumption DEF LinesTyped
      <4>2. caller[o].line # caller[q].line
        BY <1>0, <2>9, <4>1 DEF LinesInHand
      <4>3. caller'[o].line \in {caller[o].line, NoLine}
        BY <2>5 DEF Idle
      <4> QED BY <4>1, <4>2, <4>3
    <3> QED BY <3>1, <3>2
  <2> QED BY <2>8, <2>9 DEF LinesInHand
<1>4. ASSUME NEW p \in Callers, StoreLine(p) PROVE LinesInHand'
  <2> DEFINE line == caller[p].line
  <2>1. /\ printed' = printed /\ caller[p].at = "storing"
        /\ stored' \in {stored, Append(stored, line)}
        /\ \A q \in Callers : caller'[q] = IF q = p THEN Idle ELSE caller[q]
    BY <1>0, <1>4 DEF StoreLine, LinesTyped
  <2>2. Range(stored)' \subseteq Range(stored) \cup {line}
    <3>1. stored \in Seq(Range(printed)) /\ line \in Range(printed)
      BY <1>0, <2>1 DEF LinesTyped
    <3>2. Range(Append(stored, line)) = Range(stored) \cup {line}
      BY <3>1, RangeOfAppend
    <3> QED BY <2>1, <3>2
  <2>3. \A q \in Callers : q # p => caller[q].line # line
    BY <1>0, <2>1 DEF LinesInHand
  <2>4. ASSUME NEW q \in Callers
        PROVE  /\ caller'[q].at = "locking" => caller'[q].line \notin Range(printed)'
               /\ caller'[q].at = "storing" =>
                    /\ printed' # <<>> /\ caller'[q].line = printed'[Len(printed')]
                    /\ caller'[q].line \notin Range(stored)'
    BY <1>0, <2>1, <2>2, <2>3 DEF LinesInHand, Idle
  <2>5. ASSUME NEW q \in Callers, NEW o \in Callers, q # o, caller'[q].at # "idle"
        PROVE  caller'[o].line # caller'[q].line
    <3>1. /\ caller'[q] = caller[q] /\ caller[q].at # "idle" /\ caller[q].line # NoLine
      BY <1>0, <2>1, <2>5, LoggerAssumption DEF LinesTyped, Idle
    <3>2. caller'[o].line \in {caller[o].line, NoLine}
      BY <2>1 DEF Idle
    <3> QED BY <1>0, <2>5, <3>1, <3>2 DEF LinesInHand
  <2> QED BY <2>4, <2>5 DEF LinesInHand
<1>5. CASE CustThreadProc \/ TimeOut \/ OpenFails
  BY <1>1, <1>5 DEF CustThreadProc, Check, Wait, TakeBatch, WriteBatch, TimeOut, OpenFails
<1>6. CASE MonitorConfigChanges
  BY <1>1, <1>6
     DEF MonitorConfigChanges, Stat, LoadFileSize, UpdateConfig, StopMonitor
<1>7. ASSUME NEW c \in Configs, Edit(c) PROVE LinesInHand'
  BY <1>1, <1>7 DEF Edit
<1>8. CASE Midnight \/ Destroy \/ Join \/ Terminated \/ UNCHANGED vars
  BY <1>1, <1>8 DEF Midnight, Destroy, Join, Terminated, vars
<1> QED
  BY <1>2, <1>3, <1>4, <1>5, <1>6, <1>7, <1>8 DEF Next

(* A step of the callers keeps the order. *)
LEMMA NextConsoleOrder == OrderInv /\ [Next]_vars => ConsoleOrder'
<1> SUFFICES ASSUME OrderInv, [Next]_vars PROVE ConsoleOrder'
  OBVIOUS
<1>0. LinesTyped /\ LinesInHand /\ ConsoleOrder
  BY DEF OrderInv, Typed
<1>1. CASE printed' = printed /\ stored' = stored
  BY <1>0, <1>1 DEF ConsoleOrder, InOrder
<1>2. ASSUME NEW p \in Callers, PrintLine(p) PROVE ConsoleOrder'
  <2> DEFINE line == caller[p].line
  <2>1. /\ stored' = stored /\ printed' = Append(printed, line)
        /\ caller[p].at = "locking"
    BY <1>2 DEF PrintLine
  <2>2. line \in called /\ printed \in Seq(called) /\ line \notin Range(printed)
    BY <1>0, <2>1, PrintedGrows DEF LinesTyped, LinesInHand
  <2> HIDE DEF line
  <2>3. ASSUME NEW k \in Lines, NEW l \in Lines, InOrder(stored, k, l)
        PROVE  InOrder(Append(printed, line), k, l)
    <3>1. InOrder(printed, k, l)
      BY <1>0, <2>3 DEF ConsoleOrder
    <3> QED BY <2>2, <3>1, OrderOfAppend
  <2>4. ASSUME NEW l \in Lines PROVE ~InOrder(Append(printed, line), l, l)
    <3>1. ~InOrder(printed, l, l)
      BY <1>0 DEF ConsoleOrder
    <3>2. InOrder(Append(printed, line), l, l)
            => InOrder(printed, l, l) \/ (l \in Range(printed) /\ l = line)
      BY <2>2, OrderOfAppend
    <3> QED BY <2>2, <3>1, <3>2
  <2>5. \A k, l : InOrder(stored', k, l) <=> InOrder(stored, k, l)
    BY <2>1 DEF InOrder
  <2>6. \A k, l : InOrder(printed', k, l) <=> InOrder(Append(printed, line), k, l)
    BY <2>1 DEF InOrder
  <2>7. \A k, l \in Lines : InOrder(stored', k, l) => InOrder(printed', k, l)
    BY <2>3, <2>5, <2>6
  <2>8. \A l \in Lines : ~InOrder(printed', l, l)
    BY <2>4, <2>6
  <2> QED BY <2>7, <2>8 DEF ConsoleOrder
<1>3. ASSUME NEW p \in Callers, StoreLine(p) PROVE ConsoleOrder'
  <2> DEFINE line == caller[p].line
  <2>1. /\ printed' = printed /\ caller[p].at = "storing"
        /\ stored' \in {stored, Append(stored, line)}
    BY <1>3 DEF StoreLine
  <2>2. /\ printed # <<>> /\ line = printed[Len(printed)] /\ line \notin Range(stored)
        /\ line \in Range(printed) /\ printed \in Seq(called)
        /\ stored \in Seq(Range(printed))
    BY <1>0, <2>1 DEF LinesTyped, LinesInHand
  <2> HIDE DEF line
  <2>3. CASE stored' = stored
    BY <1>1, <2>1, <2>3
  <2>4. CASE stored' = Append(stored, line)
    <3>1. ASSUME NEW k \in Lines, NEW l \in Lines, InOrder(Append(stored, line), k, l)
          PROVE  InOrder(printed, k, l)
      <4>1. InOrder(stored, k, l) \/ (k \in Range(stored) /\ l = line)
        BY <2>2, <3>1, OrderOfAppend
      <4>2. CASE InOrder(stored, k, l)
        BY <1>0, <4>2 DEF ConsoleOrder
      <4>3. CASE k \in Range(stored) /\ l = line
        <5>1. k \in Range(printed)
          BY <2>2, <4>3 DEF Range
        <5>2. k # printed[Len(printed)]
          BY <2>2, <4>3
        <5>3. InOrder(printed, k, printed[Len(printed)])
          BY <2>2, <5>1, <5>2, BeforeTheLast
        <5> QED BY <2>2, <4>3, <5>3
      <4> QED BY <4>1, <4>2, <4>3
    <3>2. \A k, l : InOrder(stored', k, l) <=> InOrder(Append(stored, line), k, l)
      BY <2>4 DEF InOrder
    <3>3. \A k, l : InOrder(printed', k, l) <=> InOrder(printed, k, l)
      BY <2>1 DEF InOrder
    <3>4. \A k, l \in Lines : InOrder(stored', k, l) => InOrder(printed', k, l)
      BY <3>1, <3>2, <3>3
    <3>5. \A l \in Lines : ~InOrder(printed', l, l)
      BY <1>0, <3>3 DEF ConsoleOrder
    <3> QED BY <3>4, <3>5 DEF ConsoleOrder
  <2> QED BY <2>1, <2>3, <2>4
<1>4. ASSUME NEW p \in Callers, NEW l \in Lines, Log(p, l) PROVE ConsoleOrder'
  BY <1>1, <1>4 DEF Log
<1>5. CASE CustThreadProc \/ TimeOut \/ OpenFails
  BY <1>1, <1>5
     DEF CustThreadProc, Check, Wait, TakeBatch, WriteBatch, TimeOut, OpenFails, lineVars
<1>6. CASE MonitorConfigChanges
  BY <1>1, <1>6
     DEF MonitorConfigChanges, Stat, LoadFileSize, UpdateConfig, StopMonitor, lineVars
<1>7. ASSUME NEW c \in Configs, Edit(c) PROVE ConsoleOrder'
  BY <1>1, <1>7 DEF Edit, lineVars
<1>8. CASE Midnight \/ Destroy \/ Join \/ Terminated \/ UNCHANGED vars
  BY <1>1, <1>8 DEF Midnight, Destroy, Join, Terminated, vars, lineVars
<1> QED
  BY <1>2, <1>3, <1>4, <1>5, <1>6, <1>7, <1>8 DEF Next

LEMMA NextOrderInv == OrderInv /\ [Next]_vars => OrderInv'
BY NextTyped, NextLinesInHand, NextConsoleOrder DEF OrderInv

(* For any callers and lines: what is stored for the files is in the order   *)
(* in which it was printed, and no line is printed twice.                    *)
THEOREM FilesFollowTheConsole == Spec => []ConsoleOrder
<1>1. OrderInv => ConsoleOrder
  BY DEF OrderInv
<1> QED BY <1>1, InitOrderInv, NextOrderInv, PTL DEF Spec

-----------------------------------------------------------------------------
(***************************************************************************)
(* Nothing is lost or reordered between a caller and the files.  The       *)
(* writer's buffer has the size that batches had when its thread started;  *)
(* a batch that a reload made larger than that is not read, and what is    *)
(* written then was never logged.  So the theorem is for batches that fit. *)
(***************************************************************************)
BatchesFit == batch_size <= read_buffer

(* The bytes of the stored lines, and those of the files, as sequences that  *)
(* are flattened.                                                            *)
StoredBytes == [i \in 1..Len(stored) |-> Bytes(stored[i])]

BytesOf(fs) == [i \in 1..Len(fs) |-> fs[i].bytes]

LEMMA StoredBytesType ==
  ASSUME LinesTyped
  PROVE  StoredBytes \in Seq(Seq(FileByte)) /\ stored \in Seq(Lines)
<1>1. Range(printed) \subseteq Lines
  BY DEF LinesTyped, Range
<1>2. stored \in Seq(Lines)
  BY <1>1, WiderSeq DEF LinesTyped
<1>3. LineBytes \subseteq FileByte
  BY DEF LineBytes, FileByte
<1>4. \A l \in Lines : Bytes(l) \in Seq(FileByte)
  BY <1>3, BytesType, WiderSeq
<1> DEFINE n == Len(stored)
<1>5. n \in Nat /\ \A i \in 1..n : stored[i] \in Lines
  BY <1>2
<1> HIDE DEF FileByte
<1>6. StoredBytes \in [1..n -> Seq(FileByte)]
  BY <1>4, <1>5 DEF StoredBytes
<1> HIDE DEF n
<1>7. StoredBytes \in Seq(Seq(FileByte))
  BY <1>5, <1>6
<1> QED BY <1>2, <1>7

LEMMA BytesOfType ==
  ASSUME NEW fs \in Seq(File)
  PROVE  BytesOf(fs) \in Seq(Seq(FileByte)) /\ Len(BytesOf(fs)) = Len(fs)
<1> DEFINE n == Len(fs)
<1>1. n \in Nat /\ \A i \in 1..n : fs[i].bytes \in Seq(FileByte)
  <2>1. n \in Nat /\ \A i \in 1..n : fs[i] \in File
    OBVIOUS
  <2> HIDE DEF n
  <2> QED BY <2>1 DEF File
<1> HIDE DEF FileByte
<1>2. BytesOf(fs) \in [1..n -> Seq(FileByte)]
  BY <1>1 DEF BytesOf
<1>3. Len(BytesOf(fs)) = n
  BY <1>1 DEF BytesOf
<1> HIDE DEF n
<1>4. BytesOf(fs) \in Seq(Seq(FileByte))
  BY <1>1, <1>2
<1> QED BY <1>3, <1>4 DEF n

(* Opening a file and writing to the last one, in terms of the bytes. *)
LEMMA BytesOfOpened ==
  ASSUME NEW fs \in Seq(File), NEW f \in File
  PROVE  BytesOf(Append(fs, f)) = Append(BytesOf(fs), f.bytes)
<1> DEFINE a == BytesOf(Append(fs, f))
           b == Append(BytesOf(fs), f.bytes)
           n == Len(fs)
<1>1. /\ n \in Nat /\ Append(fs, f) \in Seq(File) /\ Len(Append(fs, f)) = n + 1
      /\ Append(fs, f)[n + 1] = f /\ \A i \in 1..n : Append(fs, f)[i] = fs[i]
  OBVIOUS
<1>2. /\ BytesOf(fs) \in Seq(Seq(FileByte)) /\ Len(BytesOf(fs)) = n
      /\ a \in Seq(Seq(FileByte)) /\ Len(a) = n + 1
  BY <1>1, BytesOfType
<1>3. f.bytes \in Seq(FileByte)
  BY DEF File
<1> HIDE DEF n
<1>4. b \in Seq(Seq(FileByte)) /\ Len(b) = n + 1
  BY <1>1, <1>2, <1>3
<1>5. ASSUME NEW i \in 1..n+1 PROVE a[i] = b[i]
  <2>1. a[i] = Append(fs, f)[i].bytes
    BY <1>1 DEF BytesOf
  <2>2. CASE i = n + 1
    BY <1>1, <1>2, <2>1, <2>2
  <2>3. CASE i # n + 1
    <3>1. i \in 1..n
      BY <1>1, <2>3
    <3>2. BytesOf(fs)[i] = fs[i].bytes
      BY <3>1 DEF BytesOf, n
    <3> QED BY <1>1, <1>2, <2>1, <3>1, <3>2
  <2> QED BY <2>2, <2>3
<1> HIDE DEF a, b
<1>6. a = b
  BY <1>2, <1>4, <1>5, SeqEqual
<1> QED BY <1>6 DEF a, b

LEMMA BytesOfWritten ==
  ASSUME NEW fs \in Seq(File), fs # <<>>, NEW bytes \in Seq(FileByte)
  PROVE  FlattenSeq(BytesOf(AppendTo(fs, bytes))) = FlattenSeq(BytesOf(fs)) \o bytes
<1> DEFINE bs == BytesOf(fs)
<1>1. bs \in Seq(Seq(FileByte)) /\ Len(bs) = Len(fs) /\ bs # <<>>
  BY BytesOfType
<1>2. BytesOf(AppendTo(fs, bytes)) = [bs EXCEPT ![Len(bs)] = @ \o bytes]
  <2>1. Len(fs) \in 1..Len(fs) /\ DOMAIN fs = 1..Len(fs)
    OBVIOUS
  <2>2. Len(AppendTo(fs, bytes)) = Len(fs)
    BY DEF AppendTo
  <2>3. ASSUME NEW i \in 1..Len(fs)
        PROVE  AppendTo(fs, bytes)[i].bytes
                 = IF i = Len(fs) THEN fs[i].bytes \o bytes ELSE fs[i].bytes
    <3>1. fs[i] \in File
      OBVIOUS
    <3> QED BY <2>1, <3>1 DEF AppendTo, File
  <2> QED BY <1>1, <2>1, <2>2, <2>3 DEF BytesOf
<1> HIDE DEF bs
<1>3. FlattenSeq([bs EXCEPT ![Len(bs)] = @ \o bytes]) = FlattenSeq(bs) \o bytes
  BY <1>1, FlattenExtendLast
<1> QED BY <1>2, <1>3 DEF bs

(* What is in the files, in the writer's hands and in the ring, as bytes. *)
LEMMA ContentTypes ==
  ASSUME WriterTyped
  PROVE  /\ FileBytes \in Seq(FileByte) /\ batch \in Seq(FileByte)
         /\ ring_buffer_ \in Seq(FileByte)
<1>1. FileBytes \in Seq(FileByte)
  <2>1. FileBytes = FlattenSeq(BytesOf(files)) /\ files \in Seq(File)
    BY DEF FileBytes, BytesOf, WriterTyped
  <2>2. BytesOf(files) \in Seq(Seq(FileByte)) /\ <<>> \in Seq(FileByte)
    BY <2>1, BytesOfType, EmptySeq
  <2> HIDE DEF FileByte
  <2> QED BY <2>1, <2>2, FlattenAppend
<1>2. ring_buffer_ \in Seq(FileByte)
  <2>1. LineBytes \subseteq FileByte
    BY DEF LineBytes, FileByte
  <2> QED BY <2>1, WiderSeq DEF WriterTyped
<1> QED BY <1>1, <1>2 DEF WriterTyped

LEMMA InitContents == Init => FilesContinueInRing
<1> SUFFICES ASSUME Init PROVE FilesContinueInRing
  OBVIOUS
<1>1. stored = <<>> /\ files = <<>> /\ batch = <<>> /\ ring_buffer_ = <<>>
  BY DEF Init
<1>2. [i \in 1..Len(stored) |-> Bytes(stored[i])] = <<>>
      /\ [i \in 1..Len(files) |-> files[i].bytes] = <<>>
  BY <1>1
<1>3. LoggedBytes = <<>> /\ FileBytes = <<>>
  BY <1>2, FlattenEmpty DEF LoggedBytes, FileBytes
<1> QED BY <1>1, <1>3 DEF FilesContinueInRing

(* A stored line continues the ring. *)
LEMMA StoreContents ==
  ASSUME Typed, FilesContinueInRing, NEW p \in Callers, StoreLine(p)
  PROVE  FilesContinueInRing'
<1>0. LinesTyped /\ WriterTyped
  BY DEF Typed
<1> DEFINE line == caller[p].line
<1>1. batch' = batch /\ files' = files /\ line \in Lines
  BY <1>0, PrintedGrows DEF StoreLine, fileState
<1>2. CASE stored' = stored /\ ring_buffer_' = ring_buffer_
  BY <1>1, <1>2 DEF FilesContinueInRing, LoggedBytes, FileBytes
<1>3. CASE /\ stored' = Append(stored, line)
           /\ ring_buffer_' = ring_buffer_ \o Bytes(line)
  <2> DEFINE new == Bytes(line)
             logged == LoggedBytes
             written == FileBytes
  <2>1. new \in Seq(FileByte)
    <3>1. LineBytes \subseteq FileByte
      BY DEF LineBytes, FileByte
    <3> QED BY <1>1, <3>1, BytesType, WiderSeq
  <2>2. StoredBytes \in Seq(Seq(FileByte)) /\ stored \in Seq(Lines)
    BY <1>0, StoredBytesType
  <2>3. StoredBytes' = Append(StoredBytes, new)
    <3>1. /\ Len(stored) \in Nat /\ Len(stored') = Len(stored) + 1
          /\ stored'[Len(stored) + 1] = line
          /\ \A i \in 1..Len(stored) : stored'[i] = stored[i]
      BY <1>1, <1>3, <2>2
    <3> QED BY <3>1 DEF StoredBytes
  <2>4. logged' = logged \o new
    <3>1. logged = FlattenSeq(StoredBytes) /\ logged' = FlattenSeq(StoredBytes')
      BY DEF LoggedBytes, StoredBytes
    <3>2. FlattenSeq(Append(StoredBytes, new)) = FlattenSeq(StoredBytes) \o new
      BY <2>1, <2>2, FlattenAppend
    <3> QED BY <2>3, <3>1, <3>2
  <2>5. written' = written
    BY <1>1 DEF FileBytes
  <2>6. /\ written \in Seq(FileByte) /\ batch \in Seq(FileByte)
        /\ ring_buffer_ \in Seq(FileByte)
    BY <1>0, ContentTypes
  <2>7. logged = written \o batch \o ring_buffer_
    BY DEF FilesContinueInRing
  <2> HIDE DEF new, logged, written, FileByte
  <2>8. (written \o batch \o ring_buffer_) \o new = written \o batch \o (ring_buffer_ \o new)
    <3> DEFINE head == written \o batch
    <3>1. head \in Seq(FileByte) /\ ring_buffer_ \in Seq(FileByte) /\ new \in Seq(FileByte)
      BY <2>1, <2>6
    <3> HIDE DEF head
    <3>2. (head \o ring_buffer_) \o new = head \o (ring_buffer_ \o new)
      BY ONLY <3>1, ConcatAssociative, SMTT(20)
    <3> QED BY <3>2 DEF head
  <2>9. logged' = written' \o batch' \o ring_buffer_'
    BY <1>1, <1>3, <2>4, <2>5, <2>7, <2>8 DEF new
  <2> QED BY <2>9 DEF FilesContinueInRing, logged, written
<1>4. \/ stored' = stored /\ ring_buffer_' = ring_buffer_
      \/ /\ stored' = Append(stored, line)
         /\ ring_buffer_' = ring_buffer_ \o Bytes(line)
  BY DEF StoreLine
<1> QED BY <1>2, <1>3, <1>4

(* The writer takes the ring's front into its hands. *)
LEMMA TakeContents ==
  ASSUME Typed, FilesContinueInRing, BatchesFit, TakeBatch
  PROVE  FilesContinueInRing'
<1>0. WriterTyped /\ SettingsTyped
  BY DEF Typed
<1> DEFINE n == Lesser(Len(ring_buffer_), batch_size)
           len == Len(ring_buffer_)
           written == FileBytes
<1>1. /\ ring_buffer_ # <<>> /\ writer = "locking" /\ files' = files /\ stored' = stored
  BY DEF TakeBatch, lineVars, fileState
<1>2. n \in 0..len /\ n <= read_buffer
  <2>1. n \in 1..len /\ n <= batch_size /\ len \in Nat
    BY <1>0, <1>1, BatchSize DEF WriterTyped
  <2>2. n <= read_buffer
    <3>1. batch_size <= read_buffer /\ batch_size \in Nat /\ read_buffer \in Nat
      BY <1>0 DEF BatchesFit, SettingsTyped
    <3> HIDE DEF n
    <3> QED BY <2>1, <3>1
  <2> HIDE DEF n
  <2> QED BY <2>1, <2>2
<1>3. /\ batch' = SubSeq(ring_buffer_, 1, n)
      /\ ring_buffer_' = SubSeq(ring_buffer_, n + 1, len)
  BY <1>2 DEF TakeBatch
<1>4. batch = <<>>
  BY <1>0, <1>1 DEF WriterTyped
<1>5. written \in Seq(FileByte) /\ ring_buffer_ \in Seq(FileByte)
  BY <1>0, ContentTypes
<1>6. LoggedBytes' = LoggedBytes /\ written' = written
  BY <1>1 DEF LoggedBytes, FileBytes
<1>7. LoggedBytes = written \o batch \o ring_buffer_
  BY DEF FilesContinueInRing
<1> HIDE DEF n, len, written, FileByte
<1>8. /\ batch' \in Seq(FileByte) /\ ring_buffer_' \in Seq(FileByte)
      /\ batch' \o ring_buffer_' = ring_buffer_
  BY <1>2, <1>3, <1>5, CutInTwo DEF len
<1>9. written \o batch = written
  BY <1>4, <1>5, ConcatEmptySeq
<1>10. written \o batch' \o ring_buffer_' = written \o ring_buffer_
  <2> DEFINE taken == batch'
             left == ring_buffer_'
  <2>1. written \in Seq(FileByte) /\ taken \in Seq(FileByte) /\ left \in Seq(FileByte)
    BY <1>5, <1>8
  <2> HIDE DEF taken, left
  <2>2. (written \o taken) \o left = written \o (taken \o left)
    BY ONLY <2>1, ConcatAssociative, SMTT(20)
  <2> QED BY <1>8, <2>2 DEF taken, left
<1>11. LoggedBytes' = written' \o batch' \o ring_buffer_'
  BY <1>6, <1>7, <1>9, <1>10
<1> QED BY <1>11 DEF FilesContinueInRing, written

(* It puts them at the end of the last file, or in a new one. *)
LEMMA WriteContents ==
  ASSUME Typed, FilesContinueInRing, WriteBatch
  PROVE  FilesContinueInRing'
<1>0. WriterTyped /\ SettingsTyped
  BY DEF Typed
<1> DEFINE fs == IF Rotates THEN Append(files, NextFile) ELSE files
           written == FileBytes
<1>1. /\ files' = AppendTo(fs, batch) /\ batch' = <<>> /\ ring_buffer_' = ring_buffer_
      /\ stored' = stored
  BY DEF WriteBatch, lineVars
<1>2. /\ fs \in Seq(File) /\ fs # <<>>
      /\ FlattenSeq(BytesOf(fs)) = FlattenSeq(BytesOf(files))
  <2>1. files \in Seq(File) /\ (files # <<>> \/ Rotates) /\ (Rotates => NextFile \in File)
    BY <1>0, WrittenFiles DEF WriterTyped
  <2>2. CASE Rotates
    <3>1. fs = Append(files, NextFile) /\ NextFile \in File /\ NextFile.bytes = <<>>
      BY <2>1, <2>2 DEF NextFile
    <3>2. BytesOf(fs) = Append(BytesOf(files), NextFile.bytes)
      BY <2>1, <3>1, BytesOfOpened
    <3>3. BytesOf(files) \in Seq(Seq(FileByte)) /\ <<>> \in Seq(FileByte)
      BY <2>1, BytesOfType, EmptySeq
    <3>4. /\ FlattenSeq(BytesOf(files)) \in Seq(FileByte)
          /\ FlattenSeq(Append(BytesOf(files), <<>>)) = FlattenSeq(BytesOf(files)) \o <<>>
      BY <3>3, FlattenAppend
    <3>5. FlattenSeq(BytesOf(files)) \o <<>> = FlattenSeq(BytesOf(files))
      BY <3>4, ConcatEmptySeq
    <3>6. FlattenSeq(BytesOf(fs)) = FlattenSeq(BytesOf(files))
      BY <3>1, <3>2, <3>4, <3>5, Zenon
    <3>7. fs \in Seq(File) /\ fs # <<>>
      BY <2>1, <3>1
    <3> QED BY <3>6, <3>7
  <2>3. CASE ~Rotates
    BY <2>1, <2>3
  <2> QED BY <2>2, <2>3
<1>3. /\ written = FlattenSeq(BytesOf(files)) /\ written' = FlattenSeq(BytesOf(files'))
      /\ LoggedBytes' = LoggedBytes
  BY <1>1 DEF FileBytes, BytesOf, LoggedBytes
<1>4. written \in Seq(FileByte) /\ batch \in Seq(FileByte)
  BY <1>0, ContentTypes
<1> HIDE DEF fs
<1>5. written' = written \o batch
  <2>1. FlattenSeq(BytesOf(AppendTo(fs, batch))) = FlattenSeq(BytesOf(fs)) \o batch
    BY <1>2, <1>4, BytesOfWritten
  <2> QED BY <1>1, <1>2, <1>3, <2>1
<1>6. LoggedBytes = written \o batch \o ring_buffer_
  BY DEF FilesContinueInRing
<1> HIDE DEF written, FileByte
<1>7. written' \o batch' = written'
  <2>1. written' \in Seq(FileByte)
    BY <1>4, <1>5
  <2> QED BY <1>1, <2>1, ConcatEmptySeq
<1>8. LoggedBytes' = written' \o batch' \o ring_buffer_'
  BY <1>1, <1>3, <1>5, <1>6, <1>7
<1> QED BY <1>8 DEF FilesContinueInRing, written

LEMMA NextContents ==
  Typed /\ FilesContinueInRing /\ BatchesFit /\ [Next]_vars => FilesContinueInRing'
<1> SUFFICES ASSUME Typed, FilesContinueInRing, BatchesFit, [Next]_vars
             PROVE  FilesContinueInRing'
  OBVIOUS
<1>1. CASE UNCHANGED <<stored, ring_buffer_, batch, files>>
  BY <1>1 DEF FilesContinueInRing, LoggedBytes, FileBytes
<1>2. ASSUME NEW p \in Callers, StoreLine(p) PROVE FilesContinueInRing'
  BY <1>2, StoreContents
<1>3. CASE TakeBatch
  BY <1>3, TakeContents
<1>4. CASE WriteBatch
  BY <1>4, WriteContents
<1>5. CASE Check \/ Wait \/ TimeOut \/ OpenFails
  BY <1>1, <1>5 DEF Check, Wait, TimeOut, OpenFails, lineVars, fileState
<1>6. ASSUME NEW p \in Callers, NEW l \in Lines, Log(p, l) PROVE FilesContinueInRing'
  BY <1>1, <1>6 DEF Log, writerVars
<1>7. ASSUME NEW p \in Callers, PrintLine(p) PROVE FilesContinueInRing'
  BY <1>1, <1>7 DEF PrintLine, writerVars
<1>8. CASE MonitorConfigChanges
  BY <1>1, <1>8
     DEF MonitorConfigChanges, Stat, LoadFileSize, UpdateConfig, StopMonitor, writerVars,
         lineVars
<1>9. ASSUME NEW c \in Configs, Edit(c) PROVE FilesContinueInRing'
  BY <1>1, <1>9 DEF Edit, writerVars, lineVars
<1>10. CASE Midnight \/ Destroy \/ Join \/ Terminated \/ UNCHANGED vars
  BY <1>1, <1>10 DEF Midnight, Destroy, Join, Terminated, vars, writerVars, lineVars
<1> QED
  BY <1>2, <1>3, <1>4, <1>5, <1>6, <1>7, <1>8, <1>9, <1>10 DEF Next, CustThreadProc

(* For any callers, lines and ring, through any rotation and reload, as long *)
(* as batches fit into the writer's buffer: the files, the writer's batch    *)
(* and the ring hold the stored lines' bytes, whole and in order.            *)
THEOREM NothingIsLostOnTheWay == Spec /\ []BatchesFit => []FilesContinueInRing
<1>1. Init => Typed /\ FilesContinueInRing
  BY InitTyped, InitContents
<1>2. Typed /\ FilesContinueInRing /\ BatchesFit /\ [Next]_vars
        => (Typed /\ FilesContinueInRing)'
  BY NextTyped, NextContents
<1> QED BY <1>1, <1>2, PTL DEF Spec

-----------------------------------------------------------------------------
(* What the current file has, and how much of it may still be held back.     *)
LEMMA GrowsByBatch ==
  ASSUME Typed, EndsFlushed, WriteBatch
  PROVE  EndsFlushed'
<1>0. WriterTyped /\ SettingsTyped
  BY DEF Typed
<1> DEFINE fs == IF Rotates THEN Append(files, NextFile) ELSE files
           last == fs[Len(fs)]
           held == Len(batch) + IF Rotates THEN 0 ELSE unflushed
<1>1. /\ files' = AppendTo(fs, batch) /\ writer' = "checking"
      /\ unflushed' \in IF Len(batch) >= max_flush_size THEN {0} ELSE HeldBack(held)
  BY DEF WriteBatch
<1>2. /\ batch \in Seq(FileByte) /\ Len(batch) \in Nat /\ unflushed \in Nat
      /\ files \in Seq(File) /\ (files # <<>> \/ Rotates) /\ (Rotates => NextFile \in File)
  BY <1>0, WrittenFiles, LoggerAssumption DEF WriterTyped
<1>3. /\ fs \in Seq(File) /\ fs # <<>> /\ last \in File
      /\ (IF Rotates THEN 0 ELSE unflushed) <= Len(last.bytes)
  <2>1. CASE Rotates
    <3>1. fs = Append(files, NextFile) /\ NextFile.bytes = <<>>
      BY <2>1 DEF NextFile
    <3>2. fs \in Seq(File) /\ fs # <<>> /\ last = NextFile
      BY <1>2, <2>1, <3>1
    <3> QED BY <1>2, <2>1, <3>1, <3>2
  <2>2. CASE ~Rotates
    <3>1. fs = files /\ files # <<>>
      BY <1>2, <2>2
    <3>2. unflushed <= Len(last.bytes)
      BY <3>1 DEF EndsFlushed, Current, Last
    <3> QED BY <1>2, <2>2, <3>1, <3>2
  <2> QED BY <2>1, <2>2
<1> HIDE DEF fs
<1>4. /\ Len(files') = Len(fs) /\ files' # <<>>
      /\ files'[Len(fs)].bytes = last.bytes \o batch
  <2>1. Len(fs) \in 1..Len(fs) /\ fs \in [1..Len(fs) -> File]
    BY <1>3
  <2>2. files' = [fs EXCEPT ![Len(fs)] = [last EXCEPT !.bytes = last.bytes \o batch]]
    BY <1>1 DEF AppendTo
  <2>3. [last EXCEPT !.bytes = last.bytes \o batch].bytes = last.bytes \o batch
    BY <1>3 DEF File
  <2>4. files' \in Seq(File) /\ Len(files') = Len(fs)
    <3>1. last.bytes \o batch \in Seq(FileByte)
      BY <1>2, <1>3 DEF File
    <3>2. [last EXCEPT !.bytes = last.bytes \o batch] \in File
      BY <1>3, <3>1 DEF File
    <3> HIDE DEF last
    <3> QED BY <1>3, <2>1, <2>2, <3>2
  <2> HIDE DEF last
  <2> QED BY <2>1, <2>2, <2>3, <2>4
<1>5. last.bytes \in Seq(FileByte) /\ Len(last.bytes) \in Nat
  BY <1>3 DEF File
<1>6. Len(last.bytes \o batch) = Len(last.bytes) + Len(batch)
  BY <1>2, <1>5
<1>7. held \in Nat /\ held <= Len(last.bytes \o batch)
  BY <1>2, <1>3, <1>5, <1>6
<1> HIDE DEF last, held
<1>8. unflushed' <= Len(last.bytes \o batch)
  <2> DEFINE total == Len(last.bytes \o batch)
  <2>1. held \in Nat /\ total \in Nat /\ held <= total /\ StreamBuffer \in Nat
    BY <1>2, <1>5, <1>6, <1>7, LoggerAssumption
  <2>2. unflushed' = 0 \/ unflushed' \in 0..Lesser(held, StreamBuffer)
    BY <1>1 DEF HeldBack
  <2> HIDE DEF total
  <2>3. Lesser(held, StreamBuffer) \in Nat /\ Lesser(held, StreamBuffer) <= held
    BY <2>1 DEF Lesser
  <2>4. unflushed' <= total
    BY <2>1, <2>2, <2>3
  <2> QED BY <2>4 DEF total
<1>9. Current' = files'[Len(files')]
  BY DEF Current, Last
<1> QED BY <1>1, <1>4, <1>8, <1>9 DEF EndsFlushed

LEMMA NextEndsFlushed == Typed /\ EndsFlushed /\ [Next]_vars => EndsFlushed'
<1> SUFFICES ASSUME Typed, EndsFlushed, [Next]_vars PROVE EndsFlushed'
  OBVIOUS
<1>0. WriterTyped
  BY DEF Typed
<1>1. ASSUME files' = files, unflushed' = unflushed \/ unflushed' = 0,
             writer' \in {"exited", "aborted"} => writer' = writer \/ unflushed' = 0
      PROVE  EndsFlushed'
  <2>1. files # <<>> => Len(Current.bytes) \in Nat
    <3> SUFFICES ASSUME files # <<>> PROVE Len(Current.bytes) \in Nat
      OBVIOUS
    <3>1. files[Len(files)] \in File
      BY <1>0 DEF WriterTyped
    <3> QED BY <3>1 DEF File, Current, Last
  <2>2. Current' = Current
    BY <1>1 DEF Current
  <2>3. unflushed' <= IF files = <<>> THEN 0 ELSE Len(Current.bytes)
    BY <1>1, <2>1 DEF EndsFlushed
  <2>4. writer' \in {"exited", "aborted"} => unflushed' = 0
    BY <1>1 DEF EndsFlushed
  <2> QED BY <1>1, <2>2, <2>3, <2>4 DEF EndsFlushed
<1>2. ASSUME NEW p \in Callers, PrintLine(p) \/ StoreLine(p) \/ \E l \in Lines : Log(p, l)
      PROVE  EndsFlushed'
  BY <1>1, <1>2 DEF PrintLine, StoreLine, Log, WakeWriter, writerVars, fileState
<1>3. CASE Check \/ Wait \/ TakeBatch \/ TimeOut \/ OpenFails
  BY <1>1, <1>3 DEF Check, Wait, TakeBatch, TimeOut, OpenFails, fileState
<1>4. CASE WriteBatch
  BY <1>4, GrowsByBatch
<1>5. CASE MonitorConfigChanges
  BY <1>1, <1>5
     DEF MonitorConfigChanges, Stat, LoadFileSize, UpdateConfig, StopMonitor, writerVars
<1>6. ASSUME NEW c \in Configs, Edit(c) PROVE EndsFlushed'
  BY <1>1, <1>6 DEF Edit, writerVars
<1>7. CASE Midnight \/ Destroy \/ Join \/ Terminated \/ UNCHANGED vars
  BY <1>1, <1>7 DEF Midnight, Destroy, Join, Terminated, vars, writerVars
<1> QED BY <1>2, <1>3, <1>4, <1>5, <1>6, <1>7 DEF Next, CustThreadProc

(* For any batches, limits and stream buffers, through any rotation, failed  *)
(* opening and reload: what is not yet on disk is of the current file, and   *)
(* nothing is left in a stream's buffer once the writer has ended.           *)
THEOREM WriterEndsFlushed == Spec => []EndsFlushed
<1>1. Init => Typed /\ EndsFlushed
  BY InitTyped DEF Init, EndsFlushed
<1>2. Typed /\ EndsFlushed /\ [Next]_vars => (Typed /\ EndsFlushed)'
  BY NextTyped, NextEndsFlushed
<1> QED BY <1>1, <1>2, PTL DEF Spec

-----------------------------------------------------------------------------
(***************************************************************************)
(* Batches fit when no configuration gives a larger batch_size than the    *)
(* one the logger may have started with.                                   *)
(***************************************************************************)
ReloadsNeverEnlarge ==
  \A c, d \in Configs :
    d.batch_size # Missing =>
      d.batch_size <= Configured(c.batch_size, DefaultBatchSize)

Started ==
  /\ \E c \in Configs : read_buffer = Configured(c.batch_size, DefaultBatchSize)
  /\ BatchesFit

LEMMA NextStarted ==
  ReloadsNeverEnlarge /\ Typed /\ Started /\ [Next]_vars => Started'
<1> SUFFICES ASSUME ReloadsNeverEnlarge, Typed, Started, [Next]_vars PROVE Started'
  OBVIOUS
<1>1. CASE UNCHANGED <<batch_size, read_buffer>>
  BY <1>1 DEF Started, BatchesFit
<1>2. CASE UpdateConfig
  <2>1. /\ read_buffer' = read_buffer /\ config_file \in Configs
        /\ batch_size' = Configured(config_file.batch_size, batch_size)
    BY <1>2 DEF UpdateConfig, writerVars, Typed, SettingsTyped
  <2>2. batch_size' <= read_buffer'
    <3>1. PICK c \in Configs : read_buffer = Configured(c.batch_size, DefaultBatchSize)
      BY DEF Started
    <3>2. CASE config_file.batch_size = Missing
      BY <2>1, <3>2 DEF Configured, Started, BatchesFit
    <3>3. CASE config_file.batch_size # Missing
      <4>1. config_file.batch_size <= read_buffer
        BY <2>1, <3>1, <3>3 DEF ReloadsNeverEnlarge
      <4> QED BY <2>1, <3>3, <4>1 DEF Configured
    <3> QED BY <3>2, <3>3
  <2> QED BY <2>1, <2>2 DEF Started, BatchesFit
<1>3. CASE Stat \/ LoadFileSize \/ StopMonitor
  BY <1>1, <1>3 DEF Stat, LoadFileSize, StopMonitor, writerVars, settings
<1>4. CASE CustThreadProc \/ TimeOut \/ OpenFails
  BY <1>1, <1>4
     DEF CustThreadProc, Check, Wait, TakeBatch, WriteBatch, TimeOut, OpenFails, settings
<1>5. ASSUME NEW p \in Callers, NEW l \in Lines, Log(p, l) PROVE Started'
  BY <1>1, <1>5 DEF Log, writerVars, settings
<1>6. ASSUME NEW p \in Callers, PrintLine(p) \/ StoreLine(p) PROVE Started'
  BY <1>1, <1>6 DEF PrintLine, StoreLine, writerVars, settings
<1>7. ASSUME NEW c \in Configs, Edit(c) PROVE Started'
  BY <1>1, <1>7 DEF Edit, writerVars, settings
<1>8. CASE Midnight \/ Destroy \/ Join \/ Terminated \/ UNCHANGED vars
  BY <1>1, <1>8 DEF Midnight, Destroy, Join, Terminated, vars, writerVars, settings
<1> QED
  BY <1>2, <1>3, <1>4, <1>5, <1>6, <1>7, <1>8 DEF Next, MonitorConfigChanges

(* For any configurations of which none enlarges a batch: the same, from     *)
(* the configurations alone.                                                 *)
THEOREM ReloadsLoseNothing ==
  ASSUME ReloadsNeverEnlarge PROVE Spec => []FilesContinueInRing
<1>1. Init => Typed /\ Started
  <2> SUFFICES ASSUME Init PROVE Typed /\ Started
    OBVIOUS
  <2>1. Typed
    BY InitTyped
  <2>2. /\ config_file \in Configs /\ read_buffer = batch_size
        /\ batch_size = Configured(config_file.batch_size, DefaultBatchSize)
    BY DEF Init
  <2>3. batch_size <= read_buffer
    BY <2>1, <2>2 DEF Typed, SettingsTyped
  <2> QED BY <2>1, <2>2, <2>3 DEF Started, BatchesFit
<1>2. Typed /\ Started /\ [Next]_vars => (Typed /\ Started)'
  BY NextTyped, NextStarted
<1>3. Started => BatchesFit
  BY DEF Started
<1> QED BY <1>1, <1>2, <1>3, NothingIsLostOnTheWay, PTL DEF Spec
=============================================================================
