-------------------------- MODULE RingBufferProofs ---------------------------
(***************************************************************************)
(* What is proved of RingBuffer for every storage size, byte set and       *)
(* transfer bound: its counters stay coherent, and it implements the byte  *)
(* queue of module ByteQueue.                                              *)
(***************************************************************************)
EXTENDS RingBuffer, SequenceTheorems, TLAPS

IInv == TypeOK /\ IndexCoherence

-----------------------------------------------------------------------------
(* Wrapping an index that has run past the end at most once. *)

(* An index below the size is left alone by % size. *)
LEMMA ModSmall ==
  ASSUME NEW n \in Nat \ {0}, NEW a \in 0..n-1
  PROVE  a % n = a
OBVIOUS

(* An index in the second lap comes back one size lower. *)
LEMMA ModWrap ==
  ASSUME NEW n \in Nat \ {0}, NEW a \in n..2*n-1
  PROVE  a % n = a - n
OBVIOUS

(* Whatever is taken % size is a slot. *)
LEMMA ModRange ==
  ASSUME NEW n \in Nat \ {0}, NEW a \in Nat
  PROVE  a % n \in 0..n-1
OBVIOUS

(* Advancing an index that was itself wrapped: ((a % n) + b) % n = (a + b) % n, *)
(* for the first two laps, which are the ones AdvanceWrite and AdvanceRead    *)
(* reach.                                                                     *)
LEMMA ModAdvance ==
  ASSUME NEW n \in Nat \ {0}, NEW a \in 0..2*n-1, NEW b \in 0..n, a + b \in 0..2*n-1
  PROVE  ((a % n) + b) % n = (a + b) % n
<1>1. CASE a \in 0..n-1
  BY <1>1, ModSmall
<1>2. CASE a \in n..2*n-1
  <2>1. a % n = a - n
    BY <1>2, ModWrap
  <2>2. a - n + b \in 0..n-1 /\ a + b \in n..2*n-1
    BY <1>2
  <2>3. (a - n + b) % n = a - n + b /\ (a + b) % n = a + b - n
    BY <2>2, ModSmall, ModWrap
  <2> QED BY <2>1, <2>3
<1> QED BY <1>1, <1>2

-----------------------------------------------------------------------------
(* What a call may carry is a sequence of bytes. *)
LEMMA TransferIsSequence ==
  ASSUME NEW w \in Transfers
  PROVE  w \in Seq(Byte) /\ Len(w) \in Nat /\ w \in [1..Len(w) -> Byte]
<1>1. MaxTransfer \in Nat
  BY RingBufferAssumption
<1>2. PICK n \in 0..MaxTransfer : w \in [1..n -> Byte]
  BY DEF Transfers
<1>3. n \in Nat
  BY <1>1
<1>4. w \in Seq(Byte)
  BY <1>2, <1>3
<1>5. DOMAIN w = 1..n /\ DOMAIN w = 1..Len(w) /\ Len(w) \in Nat
  BY <1>2, <1>4
<1>6. Len(w) = n
  BY <1>3, <1>5
<1> QED BY <1>2, <1>4, <1>5, <1>6

-----------------------------------------------------------------------------
(* The two ways in which calls move the indices keep the counters coherent. *)

(* Committing n more bytes, no more than there is room for. *)
LEMMA AdvanceWriteInv ==
  ASSUME IInv, NEW n \in Nat, n <= AvailableToWrite, AdvanceWrite(n),
         buffer_' \in [0..size-1 -> Byte]
  PROVE  IInv'
<1> USE DEF IInv, TypeOK, IndexCoherence, AvailableToWrite, AdvanceWrite
<1>1. length_ + n \in 0..size /\ n \in 0..size
  OBVIOUS
<1>2. write_index_' \in 0..size-1
  BY ModRange
<1>3. TypeOK'
  BY <1>1, <1>2
<1>4. read_index_ + length_ \in 0..2*size-1 /\ read_index_ + length_ + n \in 0..2*size-1
  BY <1>1
<1>5. write_index_' = (read_index_ + (length_ + n)) % size
  BY <1>1, <1>4, ModAdvance
<1> QED BY <1>3, <1>5

(* Consuming n bytes, no more than are stored. *)
LEMMA AdvanceReadInv ==
  ASSUME IInv, NEW n \in Nat, n <= AvailableToRead, AdvanceRead(n)
  PROVE  IInv'
<1> USE DEF IInv, TypeOK, IndexCoherence, AvailableToRead, AdvanceRead
<1>1. length_ - n \in 0..size /\ n \in 0..size
  OBVIOUS
<1>2. read_index_' \in 0..size-1
  BY ModRange
<1>3. TypeOK'
  BY <1>1, <1>2
<1>4. /\ read_index_ + n \in 0..2*size-1
      /\ (read_index_ + n) + (length_ - n) \in 0..2*size-1
      /\ (read_index_ + n) + (length_ - n) = read_index_ + length_
  BY <1>1
<1>5. (((read_index_ + n) % size) + (length_ - n)) % size = (read_index_ + length_) % size
  BY <1>1, <1>4, ModAdvance
<1> QED BY <1>3, <1>5

(* Both memcpy calls, and a store through a pointer, put bytes into slots. *)
LEMMA StoresBytes ==
  ASSUME TypeOK, NEW w \in Transfers
  PROVE  /\ CopyIn(w) \in [0..size-1 -> Byte]
         /\ \A at \in Nat : StoreAt(at, w) => buffer_' \in [0..size-1 -> Byte]
<1>1. w \in [1..Len(w) -> Byte] /\ Len(w) \in Nat
  BY TransferIsSequence
<1>2. CopyIn(w) \in [0..size-1 -> Byte]
  BY <1>1 DEF TypeOK, CopyIn, Lesser
<1>3. ASSUME NEW at \in Nat, StoreAt(at, w) PROVE buffer_' \in [0..size-1 -> Byte]
  <2>1. \A i \in 0..size-1 : i \in at .. at + Len(w) - 1 => i - at + 1 \in 1..Len(w)
    BY <1>1 DEF TypeOK
  <2> QED BY <1>1, <1>3, <2>1 DEF TypeOK, StoreAt
<1> QED BY <1>2, <1>3

(* Every initial state is coherent. *)
LEMMA InitIInv == Init => IInv
BY RingBufferAssumption, ModSmall DEF Init, IInv, TypeOK, IndexCoherence

(* Every call keeps the counters coherent. *)
LEMMA NextIInv == IInv /\ [Next]_vars => IInv'
<1> SUFFICES ASSUME IInv, [Next]_vars PROVE IInv'
  OBVIOUS
<1> USE DEF IInv
<1>0. CASE UNCHANGED <<buffer_, size, indices>>
  BY <1>0 DEF TypeOK, IndexCoherence, indices
<1>n. \A n \in Sizes : n \in Nat
  BY RingBufferAssumption DEF Sizes
<1>1. ASSUME NEW w \in Transfers, Write(w) PROVE IInv'
  BY <1>0, <1>1, AdvanceWriteInv, StoresBytes, TransferIsSequence DEF Write, Refused
<1>2. ASSUME NEW w \in Transfers, StoreLinear(w) PROVE IInv'
  BY <1>2, StoresBytes DEF StoreLinear, TypeOK, IndexCoherence, indices
<1>3. ASSUME NEW n \in Sizes, Read(n) PROVE IInv'
  BY <1>0, <1>3, <1>n, AdvanceReadInv DEF Read, Refused
<1>4. ASSUME NEW n \in Sizes, Peek(n) PROVE IInv'
  BY <1>0, <1>4 DEF Peek, Refused
<1>5. ASSUME NEW n \in Sizes, CommitWriteSize(n) PROVE IInv'
  BY <1>0, <1>5, <1>n, AdvanceWriteInv DEF CommitWriteSize, Refused, TypeOK
<1>6. ASSUME NEW n \in Sizes, CommitReadSize(n) PROVE IInv'
  BY <1>0, <1>6, <1>n, AdvanceReadInv DEF CommitReadSize, Refused
<1>7. ASSUME NEW n \in BufferSizes, Unwrapped(n), Resize(n) PROVE IInv'
  <2>1. n \in Nat \ {0} /\ Zero \in Byte
    BY RingBufferAssumption
  <2>2. read_index_ + length_ \in 0..size-1 /\ read_index_ + length_ \in 0..n-1
    BY <1>7, <2>1 DEF Unwrapped, Lesser, TypeOK
  <2>3. write_index_ = read_index_ + length_
    BY <2>2, ModSmall DEF TypeOK, IndexCoherence
  <2>4. TypeOK'
    BY <1>7, <2>1, <2>2, <2>3 DEF TypeOK, Resize, indices
  <2>5. IndexCoherence'
    BY <1>7, <2>1, <2>2, <2>3, ModSmall DEF IndexCoherence, Resize, indices
  <2> QED BY <2>4, <2>5
<1>8. ASSUME Clear PROVE IInv'
  BY <1>8, ModSmall DEF Clear, TypeOK, IndexCoherence
<1> QED
  BY <1>0, <1>1, <1>2, <1>3, <1>4, <1>5, <1>6, <1>7, <1>8
     DEF Next, Transfer, GetLinearWriteSpace, GetLinearReadSpace, vars

(* The storage, the indices and the length stay in range through every       *)
(* sequence of calls, whatever the size, as long as Resize is called on an   *)
(* unwrapped ring: no memcpy of the class can run off the storage.           *)
THEOREM TypeCorrect == Spec => []TypeOK
<1>1. IInv => TypeOK
  BY DEF IInv
<1> QED BY <1>1, InitIInv, NextIInv, PTL DEF Spec

(* Every method leaves write_index_ where the stored bytes end, counted from *)
(* read_index_ around the storage.                                           *)
THEOREM Coherent == Spec => []IndexCoherence
<1>1. IInv => IndexCoherence
  BY DEF IInv
<1> QED BY <1>1, InitIInv, NextIInv, PTL DEF Spec

-----------------------------------------------------------------------------
(***************************************************************************)
(* The refinement: what calls do to Contents.  Slot says where the k-th    *)
(* oldest byte of a ring of n slots lies that is read from r on, and       *)
(* BytesOf what a ring holds; they take their state as arguments so that   *)
(* one lemma serves the state before a call and the state after it.        *)
(***************************************************************************)
Slot(n, r, k) == (r + k - 1) % n

BytesOf(b, n, r, l) == [k \in 1..l |-> b[Slot(n, r, k)]]

(* A slot is in the first lap or one size further back; from here on          *)
(* wrap-around is linear arithmetic.                                          *)
LEMMA SlotCases ==
  ASSUME NEW n \in Nat \ {0}, NEW r \in 0..n-1, NEW k \in 1..n+1
  PROVE  /\ Slot(n, r, k) \in 0..n-1
         /\ Slot(n, r, k) = IF r + k - 1 < n THEN r + k - 1 ELSE r + k - 1 - n
<1>1. CASE r + k - 1 < n
  <2>1. r + k - 1 \in 0..n-1
    BY <1>1
  <2>2. Slot(n, r, k) = r + k - 1
    BY <2>1, ModSmall DEF Slot
  <2> QED BY <1>1, <2>1, <2>2
<1>2. CASE ~(r + k - 1 < n)
  <2>1. r + k - 1 \in n..2*n-1
    BY <1>2
  <2>2. Slot(n, r, k) = r + k - 1 - n
    BY <2>1, ModWrap DEF Slot
  <2> QED BY <1>2, <2>1, <2>2
<1> QED BY <1>1, <1>2

(* The write index is the slot after the last stored byte. *)
LEMMA WriteIndexCases ==
  ASSUME IInv
  PROVE  write_index_ = IF read_index_ + length_ < size
                        THEN read_index_ + length_ ELSE read_index_ + length_ - size
<1>1. /\ size \in Nat \ {0} /\ read_index_ \in 0..size-1 /\ length_ \in 0..size
      /\ length_ + 1 \in 1..size+1
  BY DEF IInv, TypeOK
<1>2. write_index_ = Slot(size, read_index_, length_ + 1)
  <2>1. read_index_ + (length_ + 1) - 1 = read_index_ + length_
    BY <1>1
  <2> QED BY <2>1 DEF IInv, IndexCoherence, Slot
<1>3. Slot(size, read_index_, length_ + 1) =
        IF read_index_ + (length_ + 1) - 1 < size
        THEN read_index_ + (length_ + 1) - 1 ELSE read_index_ + (length_ + 1) - 1 - size
  BY <1>1, SlotCases
<1> QED BY <1>1, <1>2, <1>3

(* What a ring holds is a sequence of l bytes, read slot by slot. *)
LEMMA BytesOfSequence ==
  ASSUME NEW n \in Nat \ {0}, NEW r \in 0..n-1, NEW l \in 0..n,
         NEW b \in [0..n-1 -> Byte]
  PROVE  /\ BytesOf(b, n, r, l) \in Seq(Byte)
         /\ Len(BytesOf(b, n, r, l)) = l
         /\ \A k \in 1..l : BytesOf(b, n, r, l)[k] = b[Slot(n, r, k)]
         /\ \A k \in 1..l : b[Slot(n, r, k)] \in Byte
<1>1. \A k \in 1..l : Slot(n, r, k) \in 0..n-1
  BY SlotCases
<1>2. BytesOf(b, n, r, l) \in [1..l -> Byte]
  BY <1>1 DEF BytesOf
<1>3. BytesOf(b, n, r, l) \in Seq(Byte)
  BY <1>2
<1>4. Len(BytesOf(b, n, r, l)) = l
  BY <1>2, <1>3
<1> QED BY <1>1, <1>3, <1>4 DEF BytesOf

(* The state's own contents, before and after a step. *)
LEMMA ContentsAreBytes ==
  /\ Contents = BytesOf(buffer_, size, read_index_, length_)
  /\ Contents' = BytesOf(buffer_', size', read_index_', length_')
BY DEF Contents, BytesOf, Slot

(* The same of Contents, as far as the state is well-typed. *)
LEMMA ContentsSlots ==
  ASSUME TypeOK
  PROVE  /\ Contents \in Seq(Byte)
         /\ Len(Contents) = length_
         /\ \A k \in 1..length_ : Contents[k] = buffer_[Slot(size, read_index_, k)]
         /\ \A k \in 1..length_ : Contents[k] \in Byte
<1>1. /\ size \in Nat \ {0} /\ length_ \in 0..size
      /\ read_index_ \in 0..size-1 /\ buffer_ \in [0..size-1 -> Byte]
  BY DEF TypeOK
<1>2. Contents \in Seq(Byte)
  BY <1>1, BytesOfSequence, ContentsAreBytes, Zenon
<1>3. Len(Contents) = length_
  BY <1>1, BytesOfSequence, ContentsAreBytes, Zenon
<1>4. \A k \in 1..length_ : Contents[k] = buffer_[Slot(size, read_index_, k)]
  BY <1>1, BytesOfSequence, ContentsAreBytes, Zenon
<1>5. \A k \in 1..length_ : buffer_[Slot(size, read_index_, k)] \in Byte
  BY <1>1, BytesOfSequence, Zenon
<1> QED BY <1>2, <1>3, <1>4, <1>5

(* And of what it becomes. *)
LEMMA ContentsSlotsNext ==
  ASSUME TypeOK'
  PROVE  /\ Contents' \in Seq(Byte)
         /\ Len(Contents') = length_'
         /\ \A k \in 1..length_' : Contents'[k] = buffer_'[Slot(size', read_index_', k)]
<1>1. /\ size' \in Nat \ {0} /\ length_' \in 0..size'
      /\ read_index_' \in 0..size'-1 /\ buffer_' \in [0..size'-1 -> Byte]
  BY DEF TypeOK
<1>2. Contents' \in Seq(Byte)
  BY <1>1, BytesOfSequence, ContentsAreBytes, Zenon
<1>3. Len(Contents') = length_'
  BY <1>1, BytesOfSequence, ContentsAreBytes, Zenon
<1>4. \A k \in 1..length_' : Contents'[k] = buffer_'[Slot(size', read_index_', k)]
  BY <1>1, BytesOfSequence, ContentsAreBytes, Zenon
<1> QED BY <1>2, <1>3, <1>4

(* Read and Peek hand out the oldest bytes, across the seam too. *)
LEMMA CopyOutIsFront ==
  ASSUME TypeOK, NEW n \in 0..length_
  PROVE  CopyOut(n) = SubSeq(Contents, 1, n)
<1> DEFINE front == BytesOf(buffer_, size, read_index_, n)
<1>1. /\ size \in Nat \ {0} /\ length_ \in 0..size /\ n \in 0..size
      /\ read_index_ \in 0..size-1 /\ buffer_ \in [0..size-1 -> Byte]
  BY DEF TypeOK
<1>2. CopyOut(n) = front
  <2>1. \A j \in 1..n : Slot(size, read_index_, j) =
          IF read_index_ + j - 1 < size
          THEN read_index_ + j - 1 ELSE read_index_ + j - 1 - size
    BY <1>1, SlotCases
  <2>2. ASSUME NEW j \in 1..n
        PROVE  (IF j <= Lesser(n, size - read_index_)
                THEN buffer_[read_index_ + j - 1]
                ELSE buffer_[j - Lesser(n, size - read_index_) - 1])
               = buffer_[Slot(size, read_index_, j)]
    BY <1>1, <2>1 DEF Lesser
  <2> QED BY <2>2 DEF CopyOut, BytesOf
<1>3. front \in Seq(Byte)
  BY <1>1, BytesOfSequence, Zenon
<1>4. Len(front) = n
  <2>1. DOMAIN front = 1..n
    BY DEF BytesOf
  <2> HIDE DEF front
  <2> QED BY <1>1, <1>3, <2>1
<1>5. \A j \in 1..n : front[j] = buffer_[Slot(size, read_index_, j)]
  BY DEF BytesOf
<1>6. /\ SubSeq(Contents, 1, n) \in Seq(Byte)
      /\ Len(SubSeq(Contents, 1, n)) = n
      /\ \A j \in 1..n : SubSeq(Contents, 1, n)[j] = Contents[j]
  <2>1. \A i \in 1..n : Contents[i] \in Byte
    BY <1>1, ContentsSlots
  <2> QED BY <1>1, <2>1, SubSeqProperties
<1> HIDE DEF front
<1>7. \A j \in 1..n : Contents[j] = buffer_[Slot(size, read_index_, j)]
  BY <1>1, ContentsSlots
<1>8. front = SubSeq(Contents, 1, n)
  BY <1>3, <1>4, <1>5, <1>6, <1>7, SeqEqual
<1> QED BY <1>2, <1>8

(* Advancing the read index drops the n oldest bytes and keeps the others in *)
(* order.                                                                    *)
LEMMA ReadDrops ==
  ASSUME TypeOK, TypeOK', NEW n \in 0..length_, AdvanceRead(n)
  PROVE  Contents' = SubSeq(Contents, n + 1, Len(Contents))
<1> DEFINE rest == SubSeq(Contents, n + 1, Len(Contents))
<1>1. /\ size \in Nat \ {0} /\ length_ \in 0..size /\ n \in 0..size
      /\ read_index_ \in 0..size-1 /\ read_index_' \in 0..size-1
      /\ buffer_ \in [0..size-1 -> Byte]
      /\ length_' = length_ - n /\ length_' \in 0..size
      /\ size' = size /\ buffer_' = buffer_
  BY DEF TypeOK, AdvanceRead
<1>2. read_index_' = Slot(size, read_index_, n + 1)
  BY <1>1 DEF AdvanceRead, Slot
<1>3. read_index_' = IF read_index_ + n < size
                     THEN read_index_ + n ELSE read_index_ + n - size
  <2>1. n + 1 \in 1..size+1
    BY <1>1
  <2>2. Slot(size, read_index_, n + 1) =
          IF read_index_ + (n + 1) - 1 < size
          THEN read_index_ + (n + 1) - 1 ELSE read_index_ + (n + 1) - 1 - size
    BY <1>1, <2>1, SlotCases
  <2> QED BY <1>1, <1>2, <2>2
<1>4. ASSUME NEW k \in 1..length_ - n
      PROVE  Slot(size, read_index_', k) = Slot(size, read_index_, n + k)
  <2>1. k \in 1..size+1 /\ n + k \in 1..size+1
    BY <1>1
  <2>2. Slot(size, read_index_', k) =
          IF read_index_' + k - 1 < size
          THEN read_index_' + k - 1 ELSE read_index_' + k - 1 - size
    BY <1>1, <2>1, SlotCases
  <2>3. Slot(size, read_index_, n + k) =
          IF read_index_ + (n + k) - 1 < size
          THEN read_index_ + (n + k) - 1 ELSE read_index_ + (n + k) - 1 - size
    BY <1>1, <2>1, SlotCases
  <2> QED BY <1>1, <1>3, <2>2, <2>3
<1>5. /\ Contents' \in Seq(Byte) /\ Len(Contents') = length_ - n
      /\ \A k \in 1..length_-n : Contents'[k] = buffer_[Slot(size, read_index_', k)]
  BY <1>1, ContentsSlotsNext
<1>6. /\ Contents \in Seq(Byte) /\ Len(Contents) = length_
      /\ \A k \in 1..length_ : Contents[k] = buffer_[Slot(size, read_index_, k)]
      /\ \A k \in 1..length_ : Contents[k] \in Byte
  BY ContentsSlots
<1>7. /\ rest \in Seq(Byte) /\ Len(rest) = length_ - n
      /\ \A k \in 1..length_-n : rest[k] = Contents[n + k]
  <2>1. n + 1 \in Int /\ length_ \in Int /\ \A i \in n+1..length_ : Contents[i] \in Byte
    BY <1>1, <1>6
  <2>2. /\ SubSeq(Contents, n + 1, length_) \in Seq(Byte)
        /\ Len(SubSeq(Contents, n + 1, length_)) =
             IF n + 1 <= length_ THEN length_ - (n + 1) + 1 ELSE 0
        /\ \A i \in 1 .. length_ - (n + 1) + 1 :
             SubSeq(Contents, n + 1, length_)[i] = Contents[(n + 1) + i - 1]
    BY <2>1, SubSeqProperties
  <2> QED BY <1>1, <1>6, <2>2
<1> HIDE DEF rest
<1>8. ASSUME NEW k \in 1..length_-n
      PROVE  Contents'[k] = rest[k]
  <2>1. n + k \in 1..length_
    BY <1>1
  <2>2. Contents'[k] = buffer_[Slot(size, read_index_, n + k)]
    BY <1>4, <1>5
  <2> QED BY <1>6, <1>7, <2>1, <2>2
<1>9. Contents' = rest
  BY <1>5, <1>7, <1>8, SeqEqual
<1> QED BY <1>9 DEF rest

(* The free slots start at the write index. *)
LEMMA FreeSlots ==
  ASSUME IInv, NEW j \in 1..size - length_
  PROVE  /\ Slot(size, read_index_, length_ + j) \in 0..size-1
         /\ Slot(size, read_index_, length_ + j) =
              IF write_index_ + j - 1 < size
              THEN write_index_ + j - 1 ELSE write_index_ + j - 1 - size
<1>1. /\ size \in Nat \ {0} /\ length_ \in 0..size /\ read_index_ \in 0..size-1
      /\ length_ + j \in 1..size+1
  BY DEF IInv, TypeOK
<1>2. write_index_ = IF read_index_ + length_ < size
                     THEN read_index_ + length_ ELSE read_index_ + length_ - size
  BY WriteIndexCases
<1>3. /\ Slot(size, read_index_, length_ + j) \in 0..size-1
      /\ Slot(size, read_index_, length_ + j) =
           IF read_index_ + (length_ + j) - 1 < size
           THEN read_index_ + (length_ + j) - 1
           ELSE read_index_ + (length_ + j) - 1 - size
  BY <1>1, SlotCases
<1> QED BY <1>1, <1>2, <1>3

(* Storing w in the free slots next to the stored bytes, and nothing else,   *)
(* appends it.                                                               *)
LEMMA StoringAppends ==
  ASSUME IInv, TypeOK', NEW w \in Seq(Byte), Len(w) <= size - length_,
         size' = size, read_index_' = read_index_, length_' = length_ + Len(w),
         \A k \in 1..length_ : buffer_'[Slot(size, read_index_, k)]
                                = buffer_[Slot(size, read_index_, k)],
         \A j \in 1..Len(w) : buffer_'[Slot(size, read_index_, length_ + j)] = w[j]
  PROVE  Contents' = Contents \o w
<1>1. /\ Contents \in Seq(Byte) /\ Len(Contents) = length_
      /\ \A k \in 1..length_ : Contents[k] = buffer_[Slot(size, read_index_, k)]
  BY ContentsSlots DEF IInv
<1>2. /\ Contents' \in Seq(Byte) /\ Len(Contents') = length_ + Len(w)
      /\ \A k \in 1..length_ + Len(w) :
           Contents'[k] = buffer_'[Slot(size, read_index_, k)]
  BY ContentsSlotsNext
<1>3. /\ Contents \o w \in Seq(Byte)
      /\ Len(Contents \o w) = length_ + Len(w)
      /\ \A k \in 1..length_ + Len(w) :
           (Contents \o w)[k] = IF k <= length_ THEN Contents[k] ELSE w[k - length_]
  BY <1>1, ConcatProperties
<1>4. length_ \in Nat /\ Len(w) \in Nat
  BY LenProperties DEF IInv, TypeOK
<1>5. ASSUME NEW k \in 1..length_ + Len(w)
      PROVE  Contents'[k] = (Contents \o w)[k]
  <2>1. CASE k <= length_
    <3>1. k \in 1..length_
      BY <1>4, <2>1
    <3> QED BY <1>1, <1>2, <1>3, <2>1, <3>1
  <2>2. CASE ~(k <= length_)
    <3>1. k - length_ \in 1..Len(w) /\ length_ + (k - length_) = k
      BY <1>4, <2>2
    <3>2. buffer_'[Slot(size, read_index_, k)] = w[k - length_]
      BY <3>1
    <3> QED BY <1>2, <1>3, <2>2, <3>2
  <2> QED BY <2>1, <2>2
<1> QED BY <1>2, <1>3, <1>5, SeqEqual

(* The stored bytes lie outside the free slots, so that what a call puts     *)
(* there leaves them alone.                                                  *)
LEMMA StoredSlotCases ==
  ASSUME IInv, NEW k \in 1..length_
  PROVE  /\ Slot(size, read_index_, k) \in 0..size-1
         /\ \/ Slot(size, read_index_, k) >= write_index_ + (size - length_)
            \/ /\ Slot(size, read_index_, k) < write_index_
               /\ Slot(size, read_index_, k) >= write_index_ - length_
<1>1. /\ size \in Nat \ {0} /\ length_ \in 0..size /\ read_index_ \in 0..size-1
      /\ k \in 1..size+1
  BY DEF IInv, TypeOK
<1>2. write_index_ = IF read_index_ + length_ < size
                     THEN read_index_ + length_ ELSE read_index_ + length_ - size
  BY WriteIndexCases
<1>3. /\ Slot(size, read_index_, k) \in 0..size-1
      /\ Slot(size, read_index_, k) =
           IF read_index_ + k - 1 < size
           THEN read_index_ + k - 1 ELSE read_index_ + k - 1 - size
  BY <1>1, SlotCases
<1> QED BY <1>1, <1>2, <1>3

(* The two memcpy calls of Write put w into the free slots in order.         *)
LEMMA CopyInPlaces ==
  ASSUME IInv, NEW w \in Transfers, Len(w) <= size - length_
  PROVE  /\ \A k \in 1..length_ : CopyIn(w)[Slot(size, read_index_, k)]
                                   = buffer_[Slot(size, read_index_, k)]
         /\ \A j \in 1..Len(w) : CopyIn(w)[Slot(size, read_index_, length_ + j)] = w[j]
<1>1. /\ size \in Nat \ {0} /\ length_ \in 0..size /\ write_index_ \in 0..size-1
      /\ Len(w) \in Nat
  BY TransferIsSequence DEF IInv, TypeOK
<1> DEFINE first == Lesser(Len(w), size - write_index_)
<1>2. first = IF Len(w) <= size - write_index_ THEN Len(w) ELSE size - write_index_
  BY DEF Lesser
<1>3. ASSUME NEW s \in 0..size-1
      PROVE  CopyIn(w)[s] = IF s < Len(w) - first THEN w[first + s + 1]
                            ELSE IF s \in write_index_ .. write_index_ + first - 1
                                 THEN w[s - write_index_ + 1]
                                 ELSE buffer_[s]
  BY DEF CopyIn
<1> HIDE DEF first
<1>4. ASSUME NEW k \in 1..length_
      PROVE  CopyIn(w)[Slot(size, read_index_, k)] = buffer_[Slot(size, read_index_, k)]
  <2> DEFINE s == Slot(size, read_index_, k)
  <2>1. /\ s \in 0..size-1
        /\ \/ s >= write_index_ + (size - length_)
           \/ s < write_index_ /\ s >= write_index_ - length_
    BY StoredSlotCases
  <2> HIDE DEF s
  <2>2. ~(s < Len(w) - first)
    BY <1>1, <1>2, <2>1
  <2>3. s \notin write_index_ .. write_index_ + first - 1
    BY <1>1, <1>2, <2>1
  <2>4. CopyIn(w)[s] = buffer_[s]
    BY <1>3, <2>1, <2>2, <2>3
  <2> QED BY <2>4 DEF s
<1>5. ASSUME NEW j \in 1..Len(w)
      PROVE  CopyIn(w)[Slot(size, read_index_, length_ + j)] = w[j]
  <2> DEFINE s == Slot(size, read_index_, length_ + j)
  <2>1. j \in 1..size - length_
    BY <1>1
  <2>2. /\ s \in 0..size-1
        /\ s = IF write_index_ + j - 1 < size
               THEN write_index_ + j - 1 ELSE write_index_ + j - 1 - size
    BY <2>1, FreeSlots
  <2> HIDE DEF s
  <2>3. CASE j <= first
    <3>1. s = write_index_ + j - 1 /\ s - write_index_ + 1 = j
      BY <1>1, <1>2, <2>2, <2>3
    <3>2. ~(s < Len(w) - first) /\ s \in write_index_ .. write_index_ + first - 1
      BY <1>1, <1>2, <2>3, <3>1
    <3>3. CopyIn(w)[s] = w[j]
      BY <1>3, <2>2, <3>1, <3>2
    <3> QED BY <3>3 DEF s
  <2>4. CASE ~(j <= first)
    <3>0. first = size - write_index_
      BY <1>1, <1>2, <2>4
    <3>1. s < Len(w) - first /\ first + s + 1 = j
      BY <1>1, <2>2, <2>4, <3>0
    <3>2. CopyIn(w)[s] = w[j]
      BY <1>3, <2>2, <3>1
    <3> QED BY <3>2 DEF s
  <2> QED BY <2>3, <2>4
<1> QED BY <1>4, <1>5

-----------------------------------------------------------------------------
(***************************************************************************)
(* One lemma per group of calls: each is the byte queue's own step.        *)
(***************************************************************************)

(* A call that leaves the ring alone leaves its contents alone. *)
LEMMA SameRingSameContents ==
  ASSUME UNCHANGED <<buffer_, size, indices>>
  PROVE  Contents' = Contents
BY DEF Contents, indices

(* How much a queue with these contents can take. *)
LEMMA FreeIsAvailable ==
  ASSUME TypeOK
  PROVE  BQ!Free = size - length_ /\ Len(Contents) = length_
BY ContentsSlots DEF BQ!Free

(* Copying in. *)
LEMMA WriteImplements ==
  ASSUME IInv, IInv', NEW w \in Transfers, Write(w)
  PROVE  BQ!Write(w)
<1>1. BQ!Free = size - length_
  BY FreeIsAvailable DEF IInv
<1>2. CASE w = <<>> /\ Refused("kErrorEmpty")
  BY <1>2, SameRingSameContents DEF Refused, Reply, BQ!Write, BQ!Refused, BQ!Reply, indices
<1>3. CASE w # <<>> /\ Len(w) > AvailableToWrite /\ Refused("kErrorFull")
  BY <1>1, <1>3, SameRingSameContents
     DEF Refused, Reply, AvailableToWrite, BQ!Write, BQ!Refused, BQ!Reply, indices
<1>4. CASE /\ w # <<>> /\ Len(w) <= AvailableToWrite
           /\ buffer_' = CopyIn(w)
           /\ AdvanceWrite(Len(w))
           /\ Reply("kSuccess", Len(w), w)
  <2>1. w \in Seq(Byte) /\ Len(w) <= size - length_
    BY <1>4, TransferIsSequence DEF AvailableToWrite
  <2>2. size' = size /\ read_index_' = read_index_ /\ length_' = length_ + Len(w)
    BY <1>4 DEF AdvanceWrite
  <2>3. /\ \A k \in 1..length_ : buffer_'[Slot(size, read_index_, k)]
                                  = buffer_[Slot(size, read_index_, k)]
        /\ \A j \in 1..Len(w) : buffer_'[Slot(size, read_index_, length_ + j)] = w[j]
    BY <1>4, <2>1, CopyInPlaces
  <2>4. Contents' = Contents \o w
    BY <2>1, <2>2, <2>3, StoringAppends DEF IInv
  <2> QED BY <1>1, <1>4, <2>1, <2>2, <2>4 DEF Reply, BQ!Write, BQ!Append_, BQ!Reply
<1> QED BY <1>2, <1>3, <1>4 DEF Write

(* Storing in the linear write space is not seen by the queue's reader. *)
LEMMA StoreLinearStutters ==
  ASSUME IInv, IInv', NEW w \in Transfers, StoreLinear(w)
  PROVE  UNCHANGED BQ!vars
<1>1. /\ size \in Nat \ {0} /\ length_ \in 0..size /\ write_index_ \in 0..size-1
      /\ Len(w) \in Nat
  BY TransferIsSequence DEF IInv, TypeOK
<1>2. Len(w) <= size - length_ /\ Len(w) <= size - write_index_
  BY <1>1 DEF StoreLinear, LinearWriteSpace, AvailableToWrite, Lesser
<1>3. \A s \in 0..size-1 : s \notin write_index_ .. write_index_ + Len(w) - 1
                           => buffer_'[s] = buffer_[s]
  BY DEF StoreLinear, StoreAt
<1>4. ASSUME NEW k \in 1..length_
      PROVE  buffer_'[Slot(size, read_index_, k)] = buffer_[Slot(size, read_index_, k)]
  <2> DEFINE s == Slot(size, read_index_, k)
  <2>1. /\ s \in 0..size-1
        /\ \/ s >= write_index_ + (size - length_)
           \/ s < write_index_ /\ s >= write_index_ - length_
    BY StoredSlotCases
  <2> HIDE DEF s
  <2>2. buffer_'[s] = buffer_[s]
    BY <1>1, <1>2, <1>3, <2>1
  <2> QED BY <2>2 DEF s
<1> DEFINE none == <<>>
<1>5. none \in Seq(Byte) /\ Len(none) = 0
  OBVIOUS
<1>6. Contents \o none = Contents
  BY ContentsSlots, ConcatEmptySeq DEF IInv
<1> HIDE DEF none
<1>7. size' = size /\ read_index_' = read_index_ /\ length_' = length_ + Len(none)
  BY <1>1, <1>5 DEF StoreLinear, indices
<1>8. \A j \in 1..Len(none) : buffer_'[Slot(size, read_index_, length_ + j)] = none[j]
  BY <1>5
<1>9. Contents' = Contents
  <2>1. Len(none) <= size - length_
    BY <1>1, <1>5
  <2> QED BY <1>4, <1>5, <1>6, <1>7, <1>8, <2>1, StoringAppends DEF IInv
<1> QED BY <1>9 DEF StoreLinear, BQ!vars

(* Publishing n bytes of the linear write space: the queue is handed what    *)
(* lies in those slots.                                                      *)
LEMMA CommitWriteImplements ==
  ASSUME IInv, IInv', NEW n \in Sizes, CommitWriteSize(n)
  PROVE  \E w \in Transfers : BQ!Publish(w)
<1>1. /\ n \in 0..MaxTransfer /\ n \in Nat /\ Zero \in Byte
      /\ size \in Nat \ {0} /\ length_ \in 0..size
  BY RingBufferAssumption DEF Sizes, IInv, TypeOK
<1>2. BQ!Free = size - length_
  BY FreeIsAvailable DEF IInv
<1>3. CASE n > AvailableToWrite /\ Refused("kErrorInvalidSize")
  <2> DEFINE w == [j \in 1..n |-> Zero]
  <2>1. w \in Transfers /\ Len(w) = n
    BY <1>1 DEF Transfers
  <2> HIDE DEF w
  <2>2. BQ!Publish(w)
    BY <1>2, <1>3, <2>1, SameRingSameContents
       DEF Refused, Reply, AvailableToWrite, BQ!Publish, BQ!Refused, BQ!Reply, indices
  <2> QED BY <2>1, <2>2
<1>4. CASE /\ n <= AvailableToWrite
           /\ AdvanceWrite(n)
           /\ Reply("kSuccess", n, <<>>)
           /\ UNCHANGED buffer_
  <2> DEFINE w == [j \in 1..n |-> buffer_[Slot(size, read_index_, length_ + j)]]
  <2>1. \A j \in 1..n : Slot(size, read_index_, length_ + j) \in 0..size-1
    <3>1. \A j \in 1..n : j \in 1..size - length_
      BY <1>1, <1>4 DEF AvailableToWrite
    <3> QED BY <3>1, FreeSlots
  <2>2. w \in [1..n -> Byte]
    BY <2>1 DEF IInv, TypeOK
  <2>3. w \in Transfers
    BY <1>1, <2>2 DEF Transfers
  <2>4. w \in Seq(Byte) /\ Len(w) = n
    BY <1>1, <2>2
  <2>5. \A j \in 1..n : buffer_'[Slot(size, read_index_, length_ + j)] = w[j]
    BY <1>4
  <2> HIDE DEF w
  <2>6. /\ size' = size /\ read_index_' = read_index_ /\ length_' = length_ + Len(w)
        /\ Len(w) <= size - length_
    BY <1>4, <2>4 DEF AdvanceWrite, AvailableToWrite
  <2>7. Contents' = Contents \o w
    BY <1>4, <2>4, <2>5, <2>6, StoringAppends DEF IInv
  <2>8. BQ!Publish(w)
    BY <1>2, <1>4, <2>4, <2>6, <2>7 DEF Reply, BQ!Publish, BQ!Append_, BQ!Reply
  <2> QED BY <2>3, <2>8
<1> QED BY <1>3, <1>4 DEF CommitWriteSize

(* Copying out, with and without removing. *)
LEMMA ReadImplements ==
  ASSUME IInv, IInv', NEW n \in Sizes
  PROVE  /\ Read(n) => BQ!Read(n)
         /\ Peek(n) => BQ!Peek(n)
         /\ CommitReadSize(n) => BQ!Discard(n)
<1>1. n \in Nat /\ length_ \in Nat /\ Len(Contents) = length_
  BY RingBufferAssumption, FreeIsAvailable DEF Sizes, IInv, TypeOK
<1>2. n <= length_ => CopyOut(n) = BQ!Front(n)
  BY <1>1, CopyOutIsFront DEF IInv, BQ!Front
<1>3. n <= length_ /\ AdvanceRead(n) => BQ!Drop(n)
  BY <1>1, ReadDrops DEF IInv, AdvanceRead, BQ!Drop
<1>4. \A code : Refused(code) => BQ!Refused(code)
  BY SameRingSameContents DEF Refused, Reply, BQ!Refused, BQ!Reply, indices
<1>5. Read(n) => BQ!Read(n)
  BY <1>1, <1>2, <1>3, <1>4 DEF Read, AvailableToRead, Reply, BQ!Read, BQ!Reply
<1>6. Peek(n) => BQ!Peek(n)
  BY <1>1, <1>2, SameRingSameContents
     DEF Peek, Refused, AvailableToRead, Reply, BQ!Peek, BQ!Reply, indices
<1>7. CommitReadSize(n) => BQ!Discard(n)
  BY <1>1, <1>3, <1>4 DEF CommitReadSize, AvailableToRead, Reply, BQ!Discard, BQ!Reply
<1> QED BY <1>5, <1>6, <1>7

(* Showing the linear spaces: non-empty whenever the queue has room, or      *)
(* bytes, at all, and the bytes shown are the oldest ones.                   *)
LEMMA LinearSpacesImplement ==
  ASSUME IInv
  PROVE  /\ GetLinearWriteSpace => BQ!WriteSpace
         /\ GetLinearReadSpace => BQ!ReadSpace
<1>1. /\ size \in Nat \ {0} /\ length_ \in 0..size
      /\ read_index_ \in 0..size-1 /\ write_index_ \in 0..size-1
  BY DEF IInv, TypeOK
<1>2. BQ!Free = size - length_ /\ Len(Contents) = length_ /\ Contents \in Seq(Byte)
  BY FreeIsAvailable, ContentsSlots DEF IInv
<1>3. /\ LinearWriteSpace \in 0..size - length_
      /\ LinearWriteSpace = 0 <=> size - length_ = 0
  BY <1>1 DEF LinearWriteSpace, AvailableToWrite, Lesser
<1>4. GetLinearWriteSpace => BQ!WriteSpace
  BY <1>1, <1>2, <1>3, SameRingSameContents
     DEF GetLinearWriteSpace, Reply, BQ!WriteSpace, BQ!Reply, indices
<1> DEFINE n == LinearReadSpace
<1>5. n \in 0..length_ /\ n <= size - read_index_ /\ (n = 0 <=> length_ = 0)
  BY <1>1 DEF LinearReadSpace, AvailableToRead, Lesser
<1>6. LoadFrom(read_index_, n) = BQ!Front(n)
  <2>1. CopyOut(n) = SubSeq(Contents, 1, n)
    BY <1>5, CopyOutIsFront DEF IInv
  <2> HIDE DEF n
  <2>2. Lesser(n, size - read_index_) = n
    BY <1>1, <1>5 DEF Lesser
  <2>3. CopyOut(n) = LoadFrom(read_index_, n)
    BY <1>1, <1>5, <2>2 DEF CopyOut, LoadFrom
  <2> QED BY <2>1, <2>3 DEF BQ!Front
<1>7. Contents = <<>> <=> length_ = 0
  BY <1>2
<1>8. GetLinearReadSpace => BQ!ReadSpace
  <2> HIDE DEF n
  <2>1. GetLinearReadSpace => ret' = [code |-> "kSuccess", n |-> n, bytes |-> BQ!Front(n)]
    BY <1>6 DEF GetLinearReadSpace, Reply, n
  <2>2. GetLinearReadSpace => UNCHANGED <<Contents, size>>
    BY SameRingSameContents DEF GetLinearReadSpace, indices
  <2> QED BY <1>2, <1>5, <1>7, <2>1, <2>2 DEF BQ!ReadSpace, BQ!Reply
<1> QED BY <1>4, <1>8

(* Clearing empties the queue. *)
LEMMA ClearImplements ==
  ASSUME IInv', Clear
  PROVE  BQ!Clear
<1>1. Contents' \in Seq(Byte) /\ Len(Contents') = 0
  BY ContentsSlotsNext DEF IInv, Clear
<1>2. Contents' = <<>>
  BY <1>1
<1> QED BY <1>2 DEF Clear, Reply, BQ!Clear, BQ!Reply

(* Resizing an unwrapped ring loses nothing. *)
LEMMA ResizeImplements ==
  ASSUME IInv, IInv', NEW n \in BufferSizes, Unwrapped(n), Resize(n)
  PROVE  BQ!Resize(n)
<1>1. /\ size \in Nat \ {0} /\ length_ \in 0..size /\ read_index_ \in 0..size-1
      /\ n \in Nat \ {0}
  BY RingBufferAssumption DEF IInv, TypeOK
<1>2. /\ size' = n /\ length_' = length_ /\ read_index_' = read_index_
      /\ buffer_' = [i \in 0..n-1 |-> IF i < size THEN buffer_[i] ELSE Zero]
  BY DEF Resize, indices
<1>3. read_index_ + length_ < size /\ read_index_ + length_ < n
  BY <1>1 DEF Unwrapped, Lesser
<1>4. /\ Contents \in Seq(Byte) /\ Len(Contents) = length_
      /\ \A k \in 1..length_ : Contents[k] = buffer_[Slot(size, read_index_, k)]
  BY ContentsSlots DEF IInv
<1>5. /\ Contents' \in Seq(Byte) /\ Len(Contents') = length_
      /\ \A k \in 1..length_ : Contents'[k] = buffer_'[Slot(n, read_index_, k)]
  BY <1>2, ContentsSlotsNext DEF IInv
<1>6. ASSUME NEW k \in 1..length_
      PROVE  Contents'[k] = Contents[k]
  <2>1. k \in 1..size+1 /\ k \in 1..n+1 /\ read_index_ \in 0..n-1
    BY <1>1, <1>3
  <2>2. Slot(size, read_index_, k) = IF read_index_ + k - 1 < size
          THEN read_index_ + k - 1 ELSE read_index_ + k - 1 - size
    BY <1>1, <2>1, SlotCases
  <2>3. Slot(n, read_index_, k) = IF read_index_ + k - 1 < n
          THEN read_index_ + k - 1 ELSE read_index_ + k - 1 - n
    BY <1>1, <2>1, SlotCases
  <2>4. Slot(n, read_index_, k) = Slot(size, read_index_, k)
        /\ Slot(n, read_index_, k) \in 0..n-1 /\ Slot(n, read_index_, k) < size
    BY <1>1, <1>3, <2>2, <2>3
  <2>5. buffer_'[Slot(n, read_index_, k)] = buffer_[Slot(n, read_index_, k)]
    BY <1>2, <2>4
  <2> QED BY <1>4, <1>5, <2>4, <2>5
<1>7. Contents' = Contents
  BY <1>4, <1>5, <1>6, SeqEqual
<1>8. Len(Contents) <= n
  BY <1>1, <1>3, <1>4
<1> QED BY <1>2, <1>7, <1>8 DEF Resize, Reply, BQ!Resize, BQ!Reply

(* An empty ring starts as an empty queue. *)
LEMMA InitImplements == Init => BQ!Init
<1> SUFFICES ASSUME Init PROVE BQ!Init
  OBVIOUS
<1>1. Contents = <<>>
  BY InitIInv, ContentsSlots DEF Init, IInv
<1> QED BY <1>1 DEF Init, BQ!Init

(* Every step of the ring is a step of the queue, or invisible to it. *)
LEMMA NextImplements == IInv /\ IInv' /\ [Next]_vars => [BQ!Next]_BQ!vars
<1> SUFFICES ASSUME IInv, IInv', [Next]_vars PROVE [BQ!Next]_BQ!vars
  OBVIOUS
<1>1. CASE UNCHANGED vars
  BY <1>1, SameRingSameContents DEF vars, BQ!vars, indices
<1>2. ASSUME NEW w \in Transfers, Write(w) PROVE BQ!Next
  BY <1>2, WriteImplements DEF BQ!Next
<1>3. ASSUME NEW w \in Transfers, StoreLinear(w) PROVE UNCHANGED BQ!vars
  BY <1>3, StoreLinearStutters
<1>4. ASSUME NEW n \in Sizes, Read(n) \/ Peek(n) \/ CommitReadSize(n) PROVE BQ!Next
  BY <1>4, ReadImplements DEF BQ!Next
<1>5. ASSUME NEW n \in Sizes, CommitWriteSize(n) PROVE BQ!Next
  BY <1>5, CommitWriteImplements DEF BQ!Next
<1>6. ASSUME NEW n \in BufferSizes, Unwrapped(n), Resize(n) PROVE BQ!Next
  BY <1>6, ResizeImplements DEF BQ!Next
<1>7. GetLinearWriteSpace \/ GetLinearReadSpace => BQ!Next
  BY LinearSpacesImplement DEF BQ!Next
<1>8. Clear => BQ!Next
  BY ClearImplements DEF BQ!Next
<1> QED BY <1>1, <1>2, <1>3, <1>4, <1>5, <1>6, <1>7, <1>8 DEF Next, Transfer

(* RingBuffer is a bounded FIFO byte queue: for every storage size and every *)
(* sequence of copying and zero-copy calls, what is read is what was         *)
(* written, once, in order.                                                  *)
THEOREM RingBufferImplementsByteQueue == Spec => ImplementsByteQueue
<1> USE DEF BQ!Spec
<1> QED
  BY InitIInv, NextIInv, InitImplements, NextImplements, PTL
     DEF Spec, ImplementsByteQueue

=============================================================================
