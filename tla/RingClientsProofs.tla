--------------------------- MODULE RingClientsProofs --------------------------
(***************************************************************************)
(* What is proved of the two users of the ring.  LinearIO, for one         *)
(* producer and one consumer and whatever the size of the ring: the spans  *)
(* they hold without the lock stay apart, commits publish and consume what *)
(* was stored and loaded, and the ring is still the byte queue of module   *)
(* ByteQueue.  ByteStream, for every width of the elements and wherever    *)
(* they lie: the stream is that queue too, but for the bytes of wide       *)
(* vectors torn at the seam, and what goes in element by element comes out *)
(* so, but for those.                                                      *)
(***************************************************************************)
EXTENDS LinearIO, ByteStream, RingBufferProofs

(* What the threads see to: one of them at each end.                         *)
OnePerEnd ==
  /\ \A p, q \in Producers : p = q
  /\ \A c, d \in Consumers : c = d

Spans == [at : Nat, n : Nat]

ThreadsTypeOK ==
  /\ wspan \in [Producers -> Spans] /\ wdata \in [Producers -> Transfers]
  /\ rspan \in [Consumers -> Spans] /\ rdata \in [Consumers -> Seq(Byte)]
  /\ \A c \in Consumers : Len(rdata[c]) \in Sizes

(* A producer's span is the linear write space of a fuller ring at most, and *)
(* what it has stored there is still there.                                  *)
ProducerHolds(p) ==
  /\ wspan[p].n > 0 => wspan[p].at = write_index_
  /\ wspan[p].n <= size - length_ /\ wspan[p].n <= size - write_index_
  /\ Len(wdata[p]) <= wspan[p].n
  /\ \A i \in 1..Len(wdata[p]) : buffer_[wspan[p].at + i - 1] = wdata[p][i]

(* A consumer's span lies at the front, and what it has loaded is still there. *)
ConsumerHolds(c) ==
  /\ rspan[c].n > 0 => rspan[c].at = read_index_
  /\ rspan[c].n <= length_ /\ rspan[c].n <= size - read_index_
  /\ Len(rdata[c]) <= rspan[c].n
  /\ \A i \in 1..Len(rdata[c]) : rdata[c][i] = buffer_[rspan[c].at + i - 1]

LInv ==
  /\ IInv
  /\ ThreadsTypeOK
  /\ \A p \in Producers : ProducerHolds(p)
  /\ \A c \in Consumers : ConsumerHolds(c)

-----------------------------------------------------------------------------
(* The slots of a span, counted from the front of the ring. *)

(* A span behind the write index consists of free slots.                     *)
LEMMA WriteSpanSlots ==
  ASSUME IInv, NEW i \in Nat \ {0}, i <= size - length_, i <= size - write_index_
  PROVE  /\ write_index_ + i - 1 \in 0..size-1
         /\ write_index_ + i - 1 = Slot(size, read_index_, length_ + i)
<1>1. size \in Nat \ {0} /\ length_ \in 0..size /\ write_index_ \in 0..size-1
  BY DEF IInv, TypeOK
<1>2. i \in 1..size - length_ /\ write_index_ + i - 1 < size
  BY <1>1
<1>3. Slot(size, read_index_, length_ + i) =
        IF write_index_ + i - 1 < size THEN write_index_ + i - 1
                                       ELSE write_index_ + i - 1 - size
  BY <1>2, FreeSlots
<1> QED BY <1>1, <1>2, <1>3

(* A span at the read index consists of stored ones.                         *)
LEMMA ReadSpanSlots ==
  ASSUME IInv, NEW i \in Nat \ {0}, i <= length_, i <= size - read_index_
  PROVE  /\ i \in 1..length_ /\ read_index_ + i - 1 \in 0..size-1
         /\ read_index_ + i - 1 = Slot(size, read_index_, i)
<1>1. size \in Nat \ {0} /\ length_ \in 0..size /\ read_index_ \in 0..size-1
  BY DEF IInv, TypeOK
<1>2. i \in 1..size+1 /\ read_index_ + i - 1 < size
  BY <1>1
<1>3. Slot(size, read_index_, i) =
        IF read_index_ + i - 1 < size THEN read_index_ + i - 1
                                      ELSE read_index_ + i - 1 - size
  BY <1>1, <1>2, SlotCases
<1> QED BY <1>1, <1>2, <1>3

(* The stores through a span leave the stored bytes alone.                   *)
LEMMA StoreKeepsStored ==
  ASSUME IInv, NEW w \in Transfers, Len(w) <= size - length_, Len(w) <= size - write_index_,
         StoreAt(write_index_, w), NEW k \in 1..length_
  PROVE  buffer_'[Slot(size, read_index_, k)] = buffer_[Slot(size, read_index_, k)]
<1> DEFINE s == Slot(size, read_index_, k)
<1>1. /\ size \in Nat \ {0} /\ length_ \in 0..size /\ write_index_ \in 0..size-1
      /\ Len(w) \in Nat
  BY TransferIsSequence DEF IInv, TypeOK
<1>2. /\ s \in 0..size-1
      /\ \/ s >= write_index_ + (size - length_)
         \/ s < write_index_ /\ s >= write_index_ - length_
  BY StoredSlotCases
<1>3. buffer_'[s] = IF s \in write_index_ .. write_index_ + Len(w) - 1
                    THEN w[s - write_index_ + 1] ELSE buffer_[s]
  BY <1>2 DEF StoreAt
<1> HIDE DEF s
<1>4. s \notin write_index_ .. write_index_ + Len(w) - 1
  BY <1>1, <1>2
<1>5. buffer_'[s] = buffer_[s]
  BY <1>3, <1>4
<1> QED BY <1>5 DEF s

-----------------------------------------------------------------------------
(* A thread's step is a call of the ring. *)
LEMMA StepIsRingStep ==
  ASSUME LInv, [NextLinear]_allVars
  PROVE  [Next]_vars
<1>1. ASSUME NEW p \in Producers, NEW w \in Transfers, Store(p, w) PROVE Next
  <2>1. /\ w # <<>> /\ Len(w) <= wspan[p].n /\ StoreAt(wspan[p].at, w)
        /\ UNCHANGED <<size, indices, ret>>
    BY <1>1 DEF Store
  <2>2. /\ Len(w) \in Nat /\ Len(w) > 0 /\ wspan[p].n \in Nat
        /\ size \in Nat /\ length_ \in Nat /\ write_index_ \in Nat
    <3>1. w \in Seq(Byte)
      BY TransferIsSequence
    <3>2. Len(w) \in Nat /\ Len(w) > 0
      BY <2>1, <3>1
    <3> QED BY <3>2 DEF LInv, ThreadsTypeOK, Spans, IInv, TypeOK
  <2>3. /\ wspan[p].at = write_index_
        /\ Len(w) <= size - length_ /\ Len(w) <= size - write_index_
    BY <2>1, <2>2 DEF LInv, ProducerHolds
  <2>4. StoreLinear(w)
    BY <2>1, <2>2, <2>3 DEF StoreLinear, LinearWriteSpace, AvailableToWrite, Lesser
  <2> QED BY <2>4 DEF Next, Transfer
<1>2. ASSUME NEW p \in Producers, CommitWrite(p) PROVE Next
  <2>1. Len(wdata[p]) \in Sizes
    <3>1. wdata[p] \in Transfers
      BY DEF LInv, ThreadsTypeOK
    <3>2. PICK n \in 0..MaxTransfer : wdata[p] \in [1..n -> Byte]
      BY <3>1 DEF Transfers
    <3>3. wdata[p] \in Seq(Byte) /\ DOMAIN wdata[p] = 1..n /\ n \in Nat
      BY <3>2, RingBufferAssumption
    <3>4. Len(wdata[p]) = n
      BY <3>3
    <3> QED BY <3>4 DEF Sizes
  <2> QED BY <1>2, <2>1 DEF CommitWrite, Next, Transfer
<1>3. ASSUME NEW c \in Consumers, CommitRead(c) PROVE Next
  <2>1. Len(rdata[c]) \in Sizes
    BY DEF LInv, ThreadsTypeOK
  <2> QED BY <1>3, <2>1 DEF CommitRead, Next, Transfer
<1>4. ASSUME NEW p \in Producers,
             AskWriteSpan(p) \/ \E w \in Transfers : CopyWrite(p, w)
      PROVE  Next
  BY <1>4 DEF AskWriteSpan, CopyWrite, Next, Transfer
<1>5. ASSUME NEW c \in Consumers,
             AskReadSpan(c) \/ \E n \in Sizes : CopyRead(c, n)
      PROVE  Next
  BY <1>5 DEF AskReadSpan, CopyRead, Next, Transfer
<1>6. ASSUME NEW c \in Consumers, NEW n \in Sizes, Load(c, n) PROVE UNCHANGED vars
  BY <1>6 DEF Load
<1>7. UNCHANGED allVars => UNCHANGED vars
  BY DEF allVars
<1> QED BY <1>1, <1>2, <1>3, <1>4, <1>5, <1>6, <1>7 DEF NextLinear

-----------------------------------------------------------------------------
(* What a step may do to the other end's span. *)

(* A producer does not notice what moves the read index only.                *)
LEMMA KeepsProducer ==
  ASSUME LInv, IInv', NEW p \in Producers,
         wspan'[p] = wspan[p], wdata'[p] = wdata[p],
         UNCHANGED <<buffer_, size, write_index_>>, length_' <= length_
  PROVE  ProducerHolds(p)'
<1>1. /\ wspan[p].n \in Nat /\ length_ \in Nat /\ size \in Nat
      /\ length_' \in Nat
  BY DEF LInv, ThreadsTypeOK, Spans, IInv, TypeOK
<1>2. ProducerHolds(p)
  BY DEF LInv
<1> QED BY <1>1, <1>2 DEF ProducerHolds

(* Nor a consumer what adds bytes without touching those that are stored.    *)
LEMMA KeepsConsumer ==
  ASSUME LInv, IInv', NEW c \in Consumers,
         rspan'[c] = rspan[c], rdata'[c] = rdata[c],
         UNCHANGED <<size, read_index_>>, length_' >= length_,
         \A k \in 1..length_ : buffer_'[Slot(size, read_index_, k)]
                                = buffer_[Slot(size, read_index_, k)]
  PROVE  ConsumerHolds(c)'
<1>1. /\ rspan[c].n \in Nat /\ length_ \in Nat /\ size \in Nat /\ read_index_ \in Nat
      /\ length_' \in Nat /\ Len(rdata[c]) \in Nat /\ IInv
  BY RingBufferAssumption DEF LInv, ThreadsTypeOK, Spans, IInv, TypeOK, Sizes
<1>2. ConsumerHolds(c)
  BY DEF LInv
<1>3. ASSUME NEW i \in 1..Len(rdata[c])
      PROVE  buffer_'[rspan[c].at + i - 1] = buffer_[rspan[c].at + i - 1]
  <2>1. /\ i \in Nat \ {0} /\ i <= length_ /\ i <= size - read_index_
        /\ rspan[c].at = read_index_
    <3>1. /\ rspan[c].n > 0 => rspan[c].at = read_index_
          /\ rspan[c].n <= length_ /\ rspan[c].n <= size - read_index_
          /\ Len(rdata[c]) <= rspan[c].n
      BY <1>2 DEF ConsumerHolds
    <3> DEFINE n == rspan[c].n
               len == Len(rdata[c])
    <3>2. n \in Nat /\ len \in Nat /\ i \in 1..len /\ n <= length_ /\ len <= n
          /\ n <= size - read_index_ /\ (n > 0 => rspan[c].at = read_index_)
      BY <1>1, <3>1
    <3> HIDE DEF n, len
    <3> QED BY <1>1, <3>2
  <2>2. i \in 1..length_ /\ rspan[c].at + i - 1 = Slot(size, read_index_, i)
    BY <1>1, <2>1, ReadSpanSlots
  <2> QED BY <2>2
<1> QED BY <1>1, <1>2, <1>3 DEF ConsumerHolds

(* Whoever holds no span has nothing to lose.                                *)
EmptyHands ==
  /\ \A p \in Producers : wspan[p].n = 0 /\ Len(wdata[p]) = 0 => ProducerHolds(p)
  /\ \A c \in Consumers : rspan[c].n = 0 /\ Len(rdata[c]) = 0 => ConsumerHolds(c)

LEMMA EmptyHandsHold == IInv => EmptyHands
BY DEF EmptyHands, IInv, TypeOK, ProducerHolds, ConsumerHolds

LEMMA EmptyHanded ==
  ASSUME IInv'
  PROVE  /\ \A p \in Producers : wspan'[p].n = 0 /\ Len(wdata'[p]) = 0 => ProducerHolds(p)'
         /\ \A c \in Consumers : rspan'[c].n = 0 /\ Len(rdata'[c]) = 0 => ConsumerHolds(c)'
<1>1. EmptyHands'
  BY EmptyHandsHold, PTL
<1> QED BY <1>1 DEF EmptyHands

-----------------------------------------------------------------------------
(* The producer's steps. *)

LEMMA ProducerTypes ==
  ASSUME LInv, NEW p \in Producers
  PROVE  /\ wspan[p] \in Spans /\ wdata[p] \in Transfers /\ Len(wdata[p]) \in Nat
         /\ size \in Nat \ {0} /\ length_ \in 0..size /\ write_index_ \in 0..size-1
         /\ <<>> \in Transfers
<1>1. wspan[p] \in Spans /\ wdata[p] \in Transfers
  BY DEF LInv, ThreadsTypeOK
<1>2. <<>> \in [1..0 -> Byte] /\ 0 \in 0..MaxTransfer
  BY RingBufferAssumption
<1> QED BY <1>1, <1>2, TransferIsSequence DEF LInv, IInv, TypeOK, Transfers

LEMMA AskWriteSpanKeeps ==
  ASSUME LInv, IInv', NEW p \in Producers, AskWriteSpan(p)
  PROVE  ThreadsTypeOK' /\ ProducerHolds(p)' /\ \A c \in Consumers : ConsumerHolds(c)'
<1>1. /\ UNCHANGED <<buffer_, size, indices>> /\ UNCHANGED <<wdata, rspan, rdata>>
      /\ wspan[p].n = 0
      /\ wspan' = [wspan EXCEPT ![p] = [at |-> write_index_, n |-> LinearWriteSpace]]
  BY DEF AskWriteSpan, GetLinearWriteSpace
<1>2. /\ LinearWriteSpace \in Nat /\ write_index_ \in Nat
      /\ LinearWriteSpace <= size - length_ /\ LinearWriteSpace <= size - write_index_
  BY ProducerTypes DEF LinearWriteSpace, AvailableToWrite, Lesser
<1>3. ThreadsTypeOK'
  BY <1>1, <1>2 DEF LInv, ThreadsTypeOK, Spans
<1>4. Len(wdata[p]) = 0
  BY <1>1, ProducerTypes DEF LInv, ProducerHolds
<1>5. wspan'[p] = [at |-> write_index_, n |-> LinearWriteSpace] /\ Len(wdata'[p]) = 0
  BY <1>1, <1>4 DEF LInv, ThreadsTypeOK
<1>6. ProducerHolds(p)'
  BY <1>1, <1>2, <1>5 DEF ProducerHolds, indices
<1>7. ASSUME NEW c \in Consumers PROVE ConsumerHolds(c)'
  BY <1>1, KeepsConsumer, ProducerTypes DEF indices
<1> QED BY <1>3, <1>6, <1>7

LEMMA StoreKeeps ==
  ASSUME LInv, IInv', NEW p \in Producers, NEW w \in Transfers, Store(p, w)
  PROVE  ThreadsTypeOK' /\ ProducerHolds(p)' /\ \A c \in Consumers : ConsumerHolds(c)'
<1>1. /\ StoreAt(wspan[p].at, w) /\ Len(w) <= wspan[p].n /\ w # <<>>
      /\ UNCHANGED <<size, indices>> /\ UNCHANGED <<wspan, rspan, rdata>>
      /\ wdata' = [wdata EXCEPT ![p] = w]
  BY DEF Store
<1>2. Len(w) \in Nat /\ Len(w) > 0 /\ w \in [1..Len(w) -> Byte]
  <2>1. w \in Seq(Byte) /\ w \in [1..Len(w) -> Byte] /\ Len(w) \in Nat
    BY TransferIsSequence
  <2> QED BY <1>1, <2>1
<1>3. ThreadsTypeOK'
  BY <1>1 DEF LInv, ThreadsTypeOK
<1>4. /\ wspan[p].n \in Nat /\ wspan[p].at = write_index_
      /\ wspan[p].n <= size - length_ /\ wspan[p].n <= size - write_index_
  BY <1>1, <1>2, ProducerTypes DEF LInv, ProducerHolds, Spans
<1>5. wdata'[p] = w /\ wspan'[p] = wspan[p]
  BY <1>1 DEF LInv, ThreadsTypeOK
<1>6. ASSUME NEW i \in 1..Len(w) PROVE buffer_'[write_index_ + i - 1] = w[i]
  <2>1. /\ write_index_ + i - 1 \in 0..size-1
        /\ write_index_ + i - 1 \in write_index_ .. write_index_ + Len(w) - 1
        /\ (write_index_ + i - 1) - write_index_ + 1 = i
    <3>1. size \in Nat /\ write_index_ \in 0..size-1 /\ i \in Nat \ {0}
      BY <1>2, ProducerTypes
    <3>2. i <= size - write_index_
      BY <1>1, <1>2, <1>4, <3>1
    <3> QED BY <1>2, <3>1, <3>2
  <2> QED BY <1>1, <1>4, <2>1 DEF StoreAt
<1>7. ProducerHolds(p)'
  BY <1>1, <1>2, <1>4, <1>5, <1>6 DEF ProducerHolds, indices
<1>8. ASSUME NEW c \in Consumers PROVE ConsumerHolds(c)'
  <2>1. Len(w) <= size - length_ /\ Len(w) <= size - write_index_ /\ StoreAt(write_index_, w)
    BY <1>1, <1>2, <1>4, ProducerTypes
  <2>2. \A k \in 1..length_ : buffer_'[Slot(size, read_index_, k)]
                               = buffer_[Slot(size, read_index_, k)]
    BY <2>1, StoreKeepsStored DEF LInv
  <2>3. length_' >= length_ /\ UNCHANGED <<size, read_index_>>
        /\ rspan'[c] = rspan[c] /\ rdata'[c] = rdata[c]
    BY <1>1, ProducerTypes DEF indices
  <2> QED BY <2>2, <2>3, KeepsConsumer
<1> QED BY <1>3, <1>7, <1>8

(* A commit of what the span holds is never refused.                         *)
LEMMA CommitWriteAccepted ==
  ASSUME LInv, NEW p \in Producers, CommitWrite(p)
  PROVE  /\ Len(wdata[p]) <= size - length_ /\ UNCHANGED buffer_
         /\ AdvanceWrite(Len(wdata[p]))
<1>1. Len(wdata[p]) <= AvailableToWrite
  <2>1. wspan[p].n \in Nat /\ Len(wdata[p]) <= wspan[p].n /\ wspan[p].n <= size - length_
    BY ProducerTypes DEF LInv, ProducerHolds, Spans
  <2> QED BY <2>1, ProducerTypes DEF AvailableToWrite
<1> QED
  BY <1>1, ProducerTypes DEF CommitWrite, CommitWriteSize, AvailableToWrite

LEMMA CommitWriteKeeps ==
  ASSUME LInv, IInv', NEW p \in Producers, CommitWrite(p)
  PROVE  ThreadsTypeOK' /\ ProducerHolds(p)' /\ \A c \in Consumers : ConsumerHolds(c)'
<1>1. /\ wspan' = [wspan EXCEPT ![p] = NoSpan] /\ wdata' = [wdata EXCEPT ![p] = <<>>]
      /\ UNCHANGED <<rspan, rdata>>
  BY DEF CommitWrite
<1>2. ThreadsTypeOK'
  BY <1>1, ProducerTypes DEF LInv, ThreadsTypeOK, NoSpan, Spans
<1>3. ProducerHolds(p)'
  <2>1. wspan'[p] = NoSpan /\ wdata'[p] = <<>>
    BY <1>1 DEF LInv, ThreadsTypeOK
  <2> QED BY <2>1, EmptyHanded DEF NoSpan
<1>4. ASSUME NEW c \in Consumers PROVE ConsumerHolds(c)'
  <2>1. length_' >= length_ /\ UNCHANGED <<buffer_, size, read_index_>>
    BY CommitWriteAccepted, ProducerTypes DEF AdvanceWrite
  <2> QED BY <1>1, <2>1, KeepsConsumer
<1> QED BY <1>2, <1>3, <1>4

LEMMA CopyWriteKeeps ==
  ASSUME LInv, IInv', NEW p \in Producers, NEW w \in Transfers, CopyWrite(p, w)
  PROVE  ThreadsTypeOK' /\ ProducerHolds(p)' /\ \A c \in Consumers : ConsumerHolds(c)'
<1>1. wspan[p].n = 0 /\ Write(w) /\ UNCHANGED <<wspan, wdata, rspan, rdata>>
  BY DEF CopyWrite, threadVars
<1>2. ThreadsTypeOK'
  BY <1>1 DEF LInv, ThreadsTypeOK
<1>3. ProducerHolds(p)'
  <2>1. Len(wdata[p]) = 0
    BY <1>1, ProducerTypes DEF LInv, ProducerHolds
  <2> QED BY <1>1, <2>1, EmptyHanded
<1>4. ASSUME NEW c \in Consumers PROVE ConsumerHolds(c)'
  <2>1. CASE UNCHANGED <<buffer_, size, indices>>
    BY <1>1, <2>1, KeepsConsumer, ProducerTypes DEF indices
  <2>2. CASE /\ Len(w) <= AvailableToWrite /\ buffer_' = CopyIn(w) /\ AdvanceWrite(Len(w))
    <3>1. Len(w) \in Nat /\ Len(w) <= size - length_
      BY <2>2, TransferIsSequence DEF AvailableToWrite
    <3>2. \A k \in 1..length_ : buffer_'[Slot(size, read_index_, k)]
                                 = buffer_[Slot(size, read_index_, k)]
      BY <2>2, <3>1, CopyInPlaces DEF LInv
    <3>3. length_' >= length_ /\ UNCHANGED <<size, read_index_>>
      BY <2>2, <3>1, ProducerTypes DEF AdvanceWrite
    <3> QED BY <1>1, <3>2, <3>3, KeepsConsumer
  <2> QED BY <1>1, <2>1, <2>2 DEF Write, Refused
<1> QED BY <1>2, <1>3, <1>4

-----------------------------------------------------------------------------
(* The consumer's steps. *)

LEMMA ConsumerTypes ==
  ASSUME LInv, NEW c \in Consumers
  PROVE  /\ rspan[c] \in Spans /\ rdata[c] \in Seq(Byte) /\ Len(rdata[c]) \in Sizes
         /\ Len(rdata[c]) \in Nat
         /\ size \in Nat \ {0} /\ length_ \in 0..size /\ read_index_ \in 0..size-1
BY RingBufferAssumption DEF LInv, ThreadsTypeOK, IInv, TypeOK, Sizes

LEMMA AskReadSpanKeeps ==
  ASSUME LInv, IInv', NEW c \in Consumers, AskReadSpan(c)
  PROVE  ThreadsTypeOK' /\ ConsumerHolds(c)' /\ \A p \in Producers : ProducerHolds(p)'
<1>1. /\ UNCHANGED <<buffer_, size, indices>> /\ UNCHANGED <<wspan, wdata, rdata>>
      /\ rspan[c].n = 0
      /\ rspan' = [rspan EXCEPT ![c] = [at |-> read_index_, n |-> LinearReadSpace]]
  BY DEF AskReadSpan, GetLinearReadSpace
<1>2. /\ LinearReadSpace \in Nat /\ read_index_ \in Nat
      /\ LinearReadSpace <= length_ /\ LinearReadSpace <= size - read_index_
  BY ConsumerTypes DEF LinearReadSpace, AvailableToRead, Lesser
<1>3. ThreadsTypeOK'
  BY <1>1, <1>2 DEF LInv, ThreadsTypeOK, Spans
<1>4. Len(rdata[c]) = 0
  BY <1>1, ConsumerTypes DEF LInv, ConsumerHolds
<1>5. rspan'[c] = [at |-> read_index_, n |-> LinearReadSpace] /\ Len(rdata'[c]) = 0
  BY <1>1, <1>4 DEF LInv, ThreadsTypeOK
<1>6. ConsumerHolds(c)'
  BY <1>1, <1>2, <1>5 DEF ConsumerHolds, indices
<1>7. ASSUME NEW p \in Producers PROVE ProducerHolds(p)'
  BY <1>1, KeepsProducer, ProducerTypes DEF indices
<1> QED BY <1>3, <1>6, <1>7

(* What a load sees is a run of bytes.                                       *)
LEMMA LoadKeeps ==
  ASSUME LInv, IInv', NEW c \in Consumers, NEW n \in Sizes, Load(c, n)
  PROVE  ThreadsTypeOK' /\ ConsumerHolds(c)' /\ \A p \in Producers : ProducerHolds(p)'
<1>1. /\ n \in 1..rspan[c].n /\ UNCHANGED <<buffer_, size, indices>>
      /\ UNCHANGED <<wspan, wdata, rspan>>
      /\ rdata' = [rdata EXCEPT ![c] = LoadFrom(rspan[c].at, n)]
  BY DEF Load, vars
<1>2. /\ rspan[c].n \in Nat /\ rspan[c].at = read_index_ /\ n \in Nat \ {0} /\ n <= rspan[c].n
      /\ rspan[c].n <= length_ /\ rspan[c].n <= size - read_index_
  <2>1. rspan[c].n \in Nat /\ rspan[c].n > 0 /\ n \in Nat \ {0} /\ n <= rspan[c].n
    BY <1>1, ConsumerTypes DEF Spans
  <2> QED BY <2>1 DEF LInv, ConsumerHolds
<1> DEFINE d == LoadFrom(read_index_, n)
<1>3. d \in [1..n -> Byte] /\ \A i \in 1..n : d[i] = buffer_[read_index_ + i - 1]
  <2>1. \A i \in 1..n : read_index_ + i - 1 \in 0..size-1
    BY <1>2, ConsumerTypes
  <2> QED BY <2>1 DEF LoadFrom, LInv, IInv, TypeOK
<1>4. d \in Seq(Byte) /\ Len(d) = n
  <2> HIDE DEF d
  <2> QED BY <1>2, <1>3
<1>5. rdata' = [rdata EXCEPT ![c] = d]
  BY <1>1, <1>2
<1> HIDE DEF d
<1>6. ThreadsTypeOK'
  BY <1>1, <1>4, <1>5 DEF LInv, ThreadsTypeOK
<1>7. ConsumerHolds(c)'
  <2>1. rdata'[c] = d /\ rspan'[c] = rspan[c]
    BY <1>1, <1>5 DEF LInv, ThreadsTypeOK
  <2> QED BY <1>1, <1>2, <1>3, <1>4, <2>1 DEF ConsumerHolds, indices
<1>8. ASSUME NEW p \in Producers PROVE ProducerHolds(p)'
  BY <1>1, KeepsProducer, ProducerTypes DEF indices
<1> QED BY <1>6, <1>7, <1>8

(* A commit of what was loaded is never refused.                             *)
LEMMA CommitReadAccepted ==
  ASSUME LInv, NEW c \in Consumers, CommitRead(c)
  PROVE  Len(rdata[c]) <= length_ /\ AdvanceRead(Len(rdata[c]))
<1>1. Len(rdata[c]) <= AvailableToRead
  <2>1. rspan[c].n \in Nat /\ Len(rdata[c]) <= rspan[c].n /\ rspan[c].n <= length_
    BY ConsumerTypes DEF LInv, ConsumerHolds, Spans
  <2> QED BY <2>1, ConsumerTypes DEF AvailableToRead
<1> QED
  BY <1>1, ConsumerTypes DEF CommitRead, CommitReadSize, AvailableToRead

LEMMA CommitReadKeeps ==
  ASSUME LInv, IInv', NEW c \in Consumers, CommitRead(c)
  PROVE  ThreadsTypeOK' /\ ConsumerHolds(c)' /\ \A p \in Producers : ProducerHolds(p)'
<1>1. /\ rspan' = [rspan EXCEPT ![c] = NoSpan] /\ rdata' = [rdata EXCEPT ![c] = <<>>]
      /\ UNCHANGED <<wspan, wdata>>
  BY DEF CommitRead
<1>2. ThreadsTypeOK'
  <2>1. <<>> \in Seq(Byte) /\ Len(<<>>) \in Sizes
    BY RingBufferAssumption DEF Sizes
  <2> QED BY <1>1, <2>1 DEF LInv, ThreadsTypeOK, NoSpan, Spans
<1>3. ConsumerHolds(c)'
  <2>1. rspan'[c] = NoSpan /\ rdata'[c] = <<>>
    BY <1>1 DEF LInv, ThreadsTypeOK
  <2> QED BY <2>1, EmptyHanded DEF NoSpan
<1>4. ASSUME NEW p \in Producers PROVE ProducerHolds(p)'
  <2>1. length_' <= length_ /\ UNCHANGED <<buffer_, size, write_index_>>
    BY CommitReadAccepted, ConsumerTypes DEF AdvanceRead
  <2> QED BY <1>1, <2>1, KeepsProducer
<1> QED BY <1>2, <1>3, <1>4

LEMMA CopyReadKeeps ==
  ASSUME LInv, IInv', NEW c \in Consumers, NEW n \in Sizes, CopyRead(c, n)
  PROVE  ThreadsTypeOK' /\ ConsumerHolds(c)' /\ \A p \in Producers : ProducerHolds(p)'
<1>1. rspan[c].n = 0 /\ Read(n) /\ UNCHANGED <<wspan, wdata, rspan, rdata>>
  BY DEF CopyRead, threadVars
<1>2. ThreadsTypeOK'
  BY <1>1 DEF LInv, ThreadsTypeOK
<1>3. ConsumerHolds(c)'
  <2>1. Len(rdata[c]) = 0
    BY <1>1, ConsumerTypes DEF LInv, ConsumerHolds
  <2> QED BY <1>1, <2>1, EmptyHanded
<1>4. ASSUME NEW p \in Producers PROVE ProducerHolds(p)'
  <2>1. CASE UNCHANGED <<buffer_, size, indices>>
    BY <1>1, <2>1, KeepsProducer, ProducerTypes DEF indices
  <2>2. CASE AdvanceRead(n)
    <3>1. length_' <= length_ /\ UNCHANGED <<buffer_, size, write_index_>>
      BY <2>2, ConsumerTypes, RingBufferAssumption DEF AdvanceRead, Sizes
    <3> QED BY <1>1, <3>1, KeepsProducer
  <2> QED BY <1>1, <2>1, <2>2 DEF Read, Refused
<1> QED BY <1>2, <1>3, <1>4

-----------------------------------------------------------------------------
(* The invariant, and what it is for. *)

LEMMA InitLInv == InitLinear => LInv
<1> SUFFICES ASSUME InitLinear PROVE LInv
  OBVIOUS
<1>1. IInv /\ <<>> \in Transfers /\ <<>> \in Seq(Byte) /\ Len(<<>>) = 0 /\ 0 \in Sizes
  <2>1. <<>> \in [1..0 -> Byte] /\ 0 \in 0..MaxTransfer
    BY RingBufferAssumption
  <2> QED BY <2>1, InitIInv DEF InitLinear, Transfers, Sizes
<1>2. ThreadsTypeOK
  BY <1>1 DEF InitLinear, ThreadsTypeOK, NoSpan, Spans
<1>3. size \in Nat \ {0} /\ length_ \in 0..size /\ read_index_ \in 0..size-1
      /\ write_index_ \in 0..size-1
  BY <1>1 DEF IInv, TypeOK
<1>4. ASSUME NEW p \in Producers PROVE ProducerHolds(p)
  BY <1>1, <1>3 DEF InitLinear, NoSpan, ProducerHolds
<1>5. ASSUME NEW c \in Consumers PROVE ConsumerHolds(c)
  BY <1>1, <1>3 DEF InitLinear, NoSpan, ConsumerHolds
<1> QED BY <1>1, <1>2, <1>4, <1>5 DEF LInv

LEMMA NextLInv ==
  ASSUME OnePerEnd, LInv, [NextLinear]_allVars
  PROVE  LInv'
<1>1. IInv'
  BY StepIsRingStep, NextIInv DEF LInv
<1>2. ASSUME NEW p \in Producers,
             \/ AskWriteSpan(p) \/ CommitWrite(p)
             \/ \E w \in Transfers : Store(p, w) \/ CopyWrite(p, w)
      PROVE  LInv'
  <2>1. ThreadsTypeOK' /\ ProducerHolds(p)' /\ \A c \in Consumers : ConsumerHolds(c)'
    BY <1>1, <1>2, AskWriteSpanKeeps, CommitWriteKeeps, StoreKeeps, CopyWriteKeeps
  <2>2. \A q \in Producers : ProducerHolds(q)'
    BY <2>1 DEF OnePerEnd
  <2> QED BY <1>1, <2>1, <2>2 DEF LInv
<1>3. ASSUME NEW c \in Consumers,
             \/ AskReadSpan(c) \/ CommitRead(c)
             \/ \E n \in Sizes : Load(c, n) \/ CopyRead(c, n)
      PROVE  LInv'
  <2>1. ThreadsTypeOK' /\ ConsumerHolds(c)' /\ \A p \in Producers : ProducerHolds(p)'
    BY <1>1, <1>3, AskReadSpanKeeps, CommitReadKeeps, LoadKeeps, CopyReadKeeps
  <2>2. \A d \in Consumers : ConsumerHolds(d)'
    BY <2>1 DEF OnePerEnd
  <2> QED BY <1>1, <2>1, <2>2 DEF LInv
<1>4. CASE UNCHANGED allVars
  BY <1>1, <1>4 DEF allVars, threadVars, vars, indices, LInv, ThreadsTypeOK,
                    ProducerHolds, ConsumerHolds
<1> QED BY <1>2, <1>3, <1>4 DEF NextLinear

(* A producer's span is free, a consumer's is stored.                        *)
LEMMA HeldSpansApart == LInv => SpansApart
<1> SUFFICES ASSUME LInv PROVE SpansApart
  OBVIOUS
<1>1. ASSUME NEW p \in Producers PROVE SlotsOf(wspan[p]) \cap StoredSlots = {}
  <2> SUFFICES ASSUME NEW e \in SlotsOf(wspan[p]), NEW k \in 1..length_,
                      e = Slot(size, read_index_, k)
               PROVE  FALSE
    BY DEF StoredSlots, Slot
  <2>1. wspan[p].at \in Nat /\ wspan[p].n \in Nat
    BY ProducerTypes DEF Spans
  <2>2. e \in Int /\ wspan[p].at <= e /\ e < wspan[p].at + wspan[p].n /\ wspan[p].n > 0
    BY <2>1 DEF SlotsOf
  <2>3. wspan[p].at = write_index_ /\ wspan[p].n <= size - length_
    BY <2>2 DEF LInv, ProducerHolds
  <2>4. e >= write_index_ + (size - length_) \/ e < write_index_
    BY StoredSlotCases DEF LInv
  <2> QED BY <2>1, <2>2, <2>3, <2>4, ProducerTypes
<1>2. ASSUME NEW c \in Consumers PROVE SlotsOf(rspan[c]) \subseteq StoredSlots
  <2> SUFFICES ASSUME NEW e \in SlotsOf(rspan[c]) PROVE e \in StoredSlots
    OBVIOUS
  <2>1. rspan[c].at \in Nat /\ rspan[c].n \in Nat
    BY ConsumerTypes DEF Spans
  <2>2. e \in Int /\ rspan[c].at <= e /\ e < rspan[c].at + rspan[c].n /\ rspan[c].n > 0
    BY <2>1 DEF SlotsOf
  <2>3. rspan[c].at = read_index_ /\ rspan[c].n <= length_ /\ rspan[c].n <= size - read_index_
    BY <2>2 DEF LInv, ConsumerHolds
  <2> DEFINE k == e - read_index_ + 1
  <2>4. k \in Nat \ {0} /\ k <= length_ /\ k <= size - read_index_ /\ read_index_ + k - 1 = e
    <3>1. e \in Int /\ read_index_ \in Nat /\ read_index_ <= e /\ e < read_index_ + rspan[c].n
      BY <2>2, <2>3, ConsumerTypes
    <3>2. k \in Nat \ {0} /\ k <= rspan[c].n /\ read_index_ + k - 1 = e
      BY <2>1, <3>1
    <3> HIDE DEF k
    <3> QED BY <2>1, <2>3, <3>2, ConsumerTypes
  <2> HIDE DEF k
  <2>5. k \in 1..length_ /\ e = Slot(size, read_index_, k)
    BY <2>4, ReadSpanSlots DEF LInv
  <2> QED BY <2>5 DEF StoredSlots, Slot
<1> QED BY <1>1, <1>2 DEF SpansApart

LEMMA CommitPublishes ==
  ASSUME LInv, IInv', NEW p \in Producers, CommitWrite(p)
  PROVE  Contents' = Contents \o wdata[p]
<1> DEFINE w == wdata[p]
<1>1. /\ w \in Seq(Byte) /\ w # <<>> /\ Len(w) <= size - length_
      /\ UNCHANGED <<buffer_, size, read_index_>> /\ length_' = length_ + Len(w)
  BY CommitWriteAccepted, ProducerTypes, TransferIsSequence DEF CommitWrite, AdvanceWrite
<1>2. /\ wspan[p].n \in Nat /\ wspan[p].n > 0 /\ wspan[p].at = write_index_ /\ Len(w) \in Nat
      /\ Len(w) <= size - write_index_
      /\ \A i \in 1..Len(w) : buffer_[wspan[p].at + i - 1] = w[i]
  <2>1. Len(w) \in Nat /\ Len(w) > 0 /\ wspan[p].n \in Nat
    BY <1>1, ProducerTypes DEF Spans
  <2>2. ProducerHolds(p)
    BY DEF LInv
  <2> QED BY <2>1, <2>2, ProducerTypes DEF ProducerHolds
<1> HIDE DEF w
<1>3. ASSUME NEW j \in 1..Len(w)
      PROVE  buffer_'[Slot(size, read_index_, length_ + j)] = w[j]
  <2>1. j \in Nat \ {0} /\ j <= size - length_ /\ j <= size - write_index_
    BY <1>1, <1>2, ProducerTypes
  <2>2. write_index_ + j - 1 = Slot(size, read_index_, length_ + j)
    BY <2>1, WriteSpanSlots DEF LInv
  <2> QED BY <1>1, <1>2, <2>2
<1>4. Contents' = Contents \o w
  BY <1>1, <1>3, StoringAppends DEF LInv, IInv
<1> QED BY <1>4 DEF w

LEMMA CommitConsumes ==
  ASSUME LInv, IInv', NEW c \in Consumers, CommitRead(c)
  PROVE  Contents = rdata[c] \o Contents'
<1> DEFINE n == Len(rdata[c])
<1>1. n \in 0..length_ /\ AdvanceRead(n)
  BY CommitReadAccepted, ConsumerTypes
<1>2. Contents' = SubSeq(Contents, n + 1, Len(Contents))
  BY <1>1, ReadDrops DEF LInv, IInv
<1>3. /\ Contents \in Seq(Byte) /\ Len(Contents) = length_ /\ length_ \in Nat
      /\ \A k \in 1..length_ : Contents[k] = buffer_[Slot(size, read_index_, k)]
  BY ContentsSlots DEF LInv, IInv, TypeOK
<1>4. ASSUME NEW i \in 1..n PROVE rdata[c][i] = Contents[i]
  <2>1. /\ rspan[c].n \in Nat /\ n <= rspan[c].n
        /\ rspan[c].n <= length_ /\ rspan[c].n <= size - read_index_
        /\ rspan[c].n > 0 => rspan[c].at = read_index_
        /\ rdata[c][i] = buffer_[rspan[c].at + i - 1]
    BY ConsumerTypes DEF LInv, ConsumerHolds, Spans
  <2>2. /\ i \in Nat \ {0} /\ i <= length_ /\ i <= size - read_index_
        /\ rspan[c].at = read_index_
    BY <1>1, <2>1, ConsumerTypes
  <2>3. i \in 1..length_ /\ read_index_ + i - 1 = Slot(size, read_index_, i)
    BY <2>2, ReadSpanSlots DEF LInv
  <2> QED BY <1>3, <2>1, <2>2, <2>3
<1>5. rdata[c] \in Seq(Byte)
  BY ConsumerTypes
<1> DEFINE d == rdata[c]
           s == Contents
           rest == SubSeq(s, n + 1, Len(s))
<1>6. n = Len(d)
  OBVIOUS
<1> HIDE DEF n, d, s
<1>7. d \in Seq(Byte) /\ s \in Seq(Byte) /\ Len(s) = length_ /\ \A i \in 1..n : d[i] = s[i]
  BY <1>3, <1>4, <1>5 DEF d, s
<1>8. s = d \o rest
  <2>1. n \in Nat /\ Len(s) \in Nat /\ n <= Len(s)
    BY <1>1, <1>3, <1>7
  <2>2. n + 1 \in Int /\ Len(s) \in Int /\ \A i \in n + 1 .. Len(s) : s[i] \in Byte
    BY <1>7, <2>1
  <2>3. /\ rest \in Seq(Byte)
        /\ Len(rest) = IF n + 1 <= Len(s) THEN Len(s) - (n + 1) + 1 ELSE 0
        /\ \A i \in 1 .. Len(s) - (n + 1) + 1 : rest[i] = s[n + 1 + i - 1]
    BY <2>2, SubSeqProperties
  <2> HIDE DEF rest
  <2>4. Len(rest) = Len(s) - n
    BY <2>1, <2>3
  <2>5. /\ d \o rest \in Seq(Byte) /\ Len(d \o rest) = n + Len(rest)
        /\ \A i \in 1..n + Len(rest) :
             (d \o rest)[i] = IF i <= n THEN d[i] ELSE rest[i - n]
    BY <1>6, <1>7, <2>3, ConcatProperties
  <2>6. ASSUME NEW i \in 1..Len(s) PROVE s[i] = (d \o rest)[i]
    <3>0. i \in 1..n + Len(rest)
      BY <2>1, <2>4
    <3>1. CASE i <= n
      <4>1. i \in 1..n
        BY <3>1
      <4> QED BY <1>7, <2>5, <3>0, <3>1, <4>1
    <3>2. CASE ~(i <= n)
      <4>1. i - n \in 1 .. Len(s) - (n + 1) + 1 /\ n + 1 + (i - n) - 1 = i
        BY <2>1, <3>2
      <4>2. rest[i - n] = s[i]
        BY <2>3, <4>1
      <4> QED BY <2>5, <3>0, <3>2, <4>2
    <3> QED BY <3>1, <3>2
  <2>7. Len(d \o rest) = Len(s)
    BY <2>1, <2>4, <2>5
  <2> QED BY <1>7, <2>5, <2>6, <2>7, SeqEqual
<1> QED BY <1>2, <1>8 DEF d, s

(* Zero-copy transfers without the lock are safe between one producer and    *)
(* one consumer, for rings of any size: neither end ever touches a slot of   *)
(* the other's.                                                              *)
THEOREM SpansStayApart ==
  ASSUME OnePerEnd
  PROVE  SpecLinear => []SpansApart
<1>1. LInv /\ [NextLinear]_allVars => LInv'
  BY NextLInv
<1> QED BY <1>1, InitLInv, HeldSpansApart, PTL DEF SpecLinear

(* What a producer stored through the pointer is what the ring then holds,   *)
(* although others read, and the buffer's indices moved, before the commit.  *)
THEOREM PublishesExactly ==
  ASSUME OnePerEnd
  PROVE  SpecLinear => PublishesWhatWasStored
<1>1. LInv /\ [NextLinear]_allVars => LInv'
  BY NextLInv
<1>2. LInv /\ LInv' /\ [NextLinear]_allVars =>
        [\A p \in Producers : CommitWrite(p) => Contents' = Contents \o wdata[p]]_allVars
  BY CommitPublishes DEF LInv
<1> QED BY <1>1, <1>2, InitLInv, PTL DEF SpecLinear, PublishesWhatWasStored

(* What a consumer drops is what it has loaded.                              *)
THEOREM ConsumesExactly ==
  ASSUME OnePerEnd
  PROVE  SpecLinear => ConsumesWhatWasLoaded
<1>1. LInv /\ [NextLinear]_allVars => LInv'
  BY NextLInv
<1>2. LInv /\ LInv' /\ [NextLinear]_allVars =>
        [\A c \in Consumers : CommitRead(c) => Contents = rdata[c] \o Contents']_allVars
  BY CommitConsumes DEF LInv
<1> QED BY <1>1, <1>2, InitLInv, PTL DEF SpecLinear, ConsumesWhatWasLoaded

(* Seen from outside, the two threads use a bounded FIFO queue of bytes.     *)
THEOREM LinearIOImplementsByteQueue ==
  ASSUME OnePerEnd
  PROVE  SpecLinear => ImplementsByteQueue
<1>1. LInv /\ [NextLinear]_allVars => LInv'
  BY NextLInv
<1>2. LInv /\ LInv' /\ [NextLinear]_allVars => [BQ!Next]_BQ!vars
  BY StepIsRingStep, NextImplements DEF LInv
<1>3. InitLinear => BQ!Init
  BY InitImplements DEF InitLinear
<1> QED BY <1>1, <1>2, <1>3, InitLInv, PTL DEF SpecLinear, ImplementsByteQueue, BQ!Spec
-----------------------------------------------------------------------------
(***************************************************************************)
(* The stream.  A vector that is written, straight or torn, enters the     *)
(* ring as some bytes s would with the ring's own copy: its own, when it   *)
(* is straight.                                                            *)
(***************************************************************************)
LEMMA FirstOfEach ==
  ASSUME NEW f \in Nat, NEW width \in Nat \ {0}
  PROVE  f * (width - 1) \in Nat /\ f * width = f * (width - 1) + f
OBVIOUS

LEMMA VectorStored ==
  ASSUME IInv, NEW w \in Transfers, NEW width \in Nat \ {0},
         w # <<>>, Len(w) <= AvailableToWrite,
         buffer_' \in CopiesInElements(w, width), AdvanceWrite(Len(w))
  PROVE  /\ IInv'
         /\ \E s \in Transfers : /\ Len(s) = Len(w) /\ Contents' = Contents \o s
                                 /\ StraightIn(Len(w), width) => s = w
<1> DEFINE n == Len(w)
           first == Lesser(n, size - write_index_)
           more == first * (width - 1)
           beyond == IF first < n THEN more ELSE 0
<1>1. /\ n \in Nat /\ w \in [1..n -> Byte] /\ w \in Seq(Byte)
      /\ size \in Nat \ {0} /\ write_index_ \in 0..size-1 /\ length_ \in 0..size
  BY TransferIsSequence DEF IInv, TypeOK
<1>2. PICK past \in [1..beyond -> Byte] :
        buffer_' = [i \in 0..size-1 |->
                      IF i < n - first THEN (w \o past)[first * width + i + 1]
                      ELSE IF i \in write_index_ .. write_index_ + first - 1
                           THEN w[i - write_index_ + 1]
                           ELSE buffer_[i]]
  BY DEF CopiesInElements
<1>3. first \in Nat /\ first <= n /\ (n <= size - write_index_ => first = n)
  BY <1>1 DEF Lesser
<1> HIDE DEF n, first
<1>4. more \in Nat /\ first * width = more + first
  BY <1>3, FirstOfEach
<1>5. width = 1 => more = 0
  BY <1>3
<1> HIDE DEF more
<1>6. beyond \in Nat /\ past \in Seq(Byte) /\ Len(past) = beyond
  BY <1>2, <1>4
<1>7. /\ \A i \in 1..n+beyond : (w \o past)[i] \in Byte
      /\ \A i \in 1..n : (w \o past)[i] = w[i]
  BY <1>1, <1>6, ConcatProperties DEF n
<1> DEFINE s == [j \in 1..n |-> IF j <= first THEN w[j] ELSE (w \o past)[more + j]]
<1>8. s \in [1..n -> Byte]
  <2>1. ASSUME NEW j \in 1..n, ~(j <= first) PROVE more + j \in 1..n+beyond
    BY <1>1, <1>3, <1>4, <2>1
  <2> HIDE DEF beyond
  <2> QED BY <1>1, <1>7, <2>1
<1>9. s \in Transfers /\ Len(s) = n
  <2>1. MaxTransfer \in Nat /\ \E k \in 0..MaxTransfer : w \in [1..k -> Byte]
    BY RingBufferAssumption DEF Transfers
  <2>2. n \in 0..MaxTransfer
    BY <1>1, <2>1 DEF n
  <2> HIDE DEF s
  <2> QED BY <1>8, <2>2 DEF Transfers
<1>10. buffer_' = CopyIn(s)
  <2>1. CopyIn(s) = [i \in 0..size-1 |->
                       IF i < n - first THEN s[first + i + 1]
                       ELSE IF i \in write_index_ .. write_index_ + first - 1
                            THEN s[i - write_index_ + 1]
                            ELSE buffer_[i]]
    <3> HIDE DEF s
    <3> QED BY <1>9 DEF CopyIn, first
  <2>2. ASSUME NEW i \in 0..size-1, i < n - first
        PROVE  s[first + i + 1] = (w \o past)[first * width + i + 1]
    <3>1. /\ first + i + 1 \in 1..n /\ ~(first + i + 1 <= first)
          /\ more + (first + i + 1) = first * width + i + 1
      BY <1>1, <1>3, <1>4, <2>2
    <3> QED BY <3>1
  <2>3. ASSUME NEW i \in write_index_ .. write_index_ + first - 1
        PROVE  s[i - write_index_ + 1] = w[i - write_index_ + 1]
    <3>1. i - write_index_ + 1 \in 1..n /\ i - write_index_ + 1 <= first
      BY <1>1, <1>3
    <3> QED BY <3>1
  <2> HIDE DEF s, beyond
  <2> QED BY <1>2, <2>1, <2>2, <2>3
<1>11. StraightIn(n, width) => s = w
  <2>1. CASE width = 1
    <3>1. \A j \in 1..n : more + j = j
      BY <1>1, <1>5, <2>1
    <3>2. \A j \in 1..n : s[j] = w[j]
      BY <1>7, <3>1
    <3> QED BY <1>1, <1>8, <3>2
  <2>2. CASE n <= size - write_index_
    BY <1>1, <1>3, <2>2
  <2> QED BY <2>1, <2>2 DEF StraightIn
<1> HIDE DEF s, beyond
<1>12. IInv'
  <2>1. CopyIn(s) \in [0..size-1 -> Byte]
    BY <1>9, StoresBytes DEF IInv
  <2> QED BY <1>1, <1>10, <2>1, AdvanceWriteInv DEF n
<1>13. Contents' = Contents \o s
  <2>1. Len(s) <= size - length_
    BY <1>9 DEF AvailableToWrite, n
  <2>2. /\ \A k \in 1..length_ : CopyIn(s)[Slot(size, read_index_, k)]
                                   = buffer_[Slot(size, read_index_, k)]
        /\ \A j \in 1..Len(s) : CopyIn(s)[Slot(size, read_index_, length_ + j)] = s[j]
    BY <1>9, <2>1, CopyInPlaces
  <2>3. TypeOK' /\ s \in Seq(Byte)
    BY <1>9, <1>12, TransferIsSequence DEF IInv
  <2>4. size' = size /\ read_index_' = read_index_ /\ length_' = length_ + Len(s)
    BY <1>9 DEF AdvanceWrite, n
  <2> QED BY <1>10, <2>1, <2>2, <2>3, <2>4, StoringAppends
<1> QED BY <1>9, <1>11, <1>12, <1>13 DEF n

(* Whole elements before the seam: the second copy starts where the first    *)
(* one ended.                                                                *)
LEMMA WholeElements ==
  ASSUME NEW f \in Nat, NEW width \in Nat \ {0}, f % width = 0
  PROVE  width * (f \div width) = f
OBVIOUS

(* A vector that is read, straight or torn, takes its bytes off the front,   *)
(* and is made of them when it is straight.                                  *)
LEMMA StraightCopyOut ==
  ASSUME TypeOK, NEW n \in Nat, NEW width \in Nat \ {0}, StraightOut(n, width),
         NEW bytes \in CopiesOutElements(n, width)
  PROVE  bytes = CopyOut(n)
<1>1. size \in Nat \ {0} /\ read_index_ \in 0..size-1 /\ size - read_index_ \in Nat
  BY DEF TypeOK
<1> DEFINE first == Lesser(n, size - read_index_)
           second == width * (first \div width)
<1>2. PICK old \in [first+1..n -> Byte] :
        bytes = [j \in 1..n |->
                   IF j > second /\ j <= second + n - first THEN buffer_[j - second - 1]
                   ELSE IF j <= first THEN buffer_[read_index_ + j - 1]
                        ELSE old[j]]
  BY DEF CopiesOutElements
<1>3. first \in Nat /\ first <= n
  BY <1>1 DEF Lesser
<1>4. first = n \/ second = first
  <2>1. CASE n <= size - read_index_
    BY <1>1, <2>1 DEF Lesser
  <2>2. CASE ~(n <= size - read_index_)
    <3>1. first = size - read_index_
      BY <2>2 DEF Lesser
    <3>2. first % width = 0
      BY <2>2, <3>1 DEF StraightOut
    <3> HIDE DEF first
    <3> QED BY <1>3, <3>2, WholeElements
  <2> QED BY <2>1, <2>2
<1>5. second \in Int /\ (first = n => n <= first)
  BY <1>3
<1>6. CopyOut(n) = [j \in 1..n |-> IF j <= first THEN buffer_[read_index_ + j - 1]
                                                ELSE buffer_[j - first - 1]]
  BY DEF CopyOut
<1>7. ASSUME NEW j \in 1..n PROVE bytes[j] = CopyOut(n)[j]
  <2> HIDE DEF first, second
  <2> QED BY <1>2, <1>3, <1>4, <1>5, <1>6
<1> HIDE DEF first, second
<1> QED BY <1>2, <1>6, <1>7

LEMMA VectorLoaded ==
  ASSUME IInv, NEW n \in Nat, NEW width \in Nat \ {0}, n <= AvailableToRead,
         AdvanceRead(n), NEW bytes \in CopiesOutElements(n, width)
  PROVE  /\ IInv'
         /\ Contents' = SubSeq(Contents, n + 1, Len(Contents))
         /\ StraightOut(n, width) => bytes = SubSeq(Contents, 1, n)
<1>1. IInv'
  BY AdvanceReadInv
<1>2. n \in 0..length_
  BY DEF IInv, TypeOK, AvailableToRead
<1>3. Contents' = SubSeq(Contents, n + 1, Len(Contents))
  BY <1>1, <1>2, ReadDrops DEF IInv
<1>4. StraightOut(n, width) => bytes = SubSeq(Contents, 1, n)
  BY <1>2, StraightCopyOut, CopyOutIsFront DEF IInv
<1> QED BY <1>1, <1>3, <1>4

-----------------------------------------------------------------------------
(* What a call that puts w in does to the stored bytes: nothing, or some     *)
(* bytes s come behind them, which are w unless the call was torn.           *)
Entered(w) ==
  /\ IInv' /\ torn' \in BOOLEAN
  /\ ret'.code # "kSuccess" => Contents' = Contents
  /\ ret'.code = "kSuccess" =>
       /\ w # <<>>
       /\ \E s \in Transfers : Len(s) = Len(w) /\ Contents' = Contents \o s /\ (~torn' => s = w)

(* A call that asks for n bytes takes them off the front, and answers them   *)
(* unless it was torn; without that many bytes, it changes nothing.          *)
Left(n) ==
  /\ IInv'
  /\ n \notin 1..Len(Contents) => Contents' = Contents
  /\ n \in 1..Len(Contents) =>
       /\ ret'.code = "kSuccess" /\ ret'.n = n
       /\ Contents' = SubSeq(Contents, n + 1, Len(Contents))
       /\ ~torn' => ret'.bytes = SubSeq(Contents, 1, n)

LEMMA WriteVectorEnters ==
  ASSUME IInv, NEW w \in Transfers, NEW width \in Nat \ {0}, WriteVector(w, width)
  PROVE  Entered(w) /\ (BQ!Write(w) \/ Garbles)
<1>1. torn' = (ret'.code = "kSuccess" /\ ~StraightIn(Len(w), width))
  BY DEF WriteVector, Crossing
<1>2. ASSUME NEW code \in {"kErrorEmpty", "kErrorFull"}, Refused(code)
      PROVE  Entered(w) /\ BQ!Refused(code)
  <2>1. Contents' = Contents
    BY <1>2, SameRingSameContents DEF Refused
  <2>2. IInv'
    BY <1>2 DEF IInv, TypeOK, IndexCoherence, Refused, indices
  <2>3. ret' = [code |-> code, n |-> 0, bytes |-> <<>>] /\ size' = size
    BY <1>2 DEF Refused, Reply
  <2>4. ret'.code # "kSuccess"
    BY <2>3
  <2> QED BY <1>1, <2>1, <2>2, <2>3, <2>4 DEF Entered, BQ!Refused, BQ!Reply
<1>3. BQ!Free = size - length_
  BY FreeIsAvailable DEF IInv
<1>4. CASE w = <<>> /\ Refused("kErrorEmpty")
  BY <1>2, <1>4 DEF BQ!Write
<1>5. CASE w # <<>> /\ Len(w) > AvailableToWrite /\ Refused("kErrorFull")
  BY <1>2, <1>3, <1>5 DEF BQ!Write, AvailableToWrite
<1>6. CASE /\ w # <<>> /\ Len(w) <= AvailableToWrite
           /\ buffer_' \in CopiesInElements(w, width)
           /\ AdvanceWrite(Len(w))
           /\ Reply("kSuccess", Len(w), w)
  <2>1. IInv'
    BY <1>6, VectorStored
  <2>2. PICK s \in Transfers : /\ Len(s) = Len(w) /\ Contents' = Contents \o s
                               /\ StraightIn(Len(w), width) => s = w
    BY <1>6, VectorStored
  <2>3. ret' = [code |-> "kSuccess", n |-> Len(w), bytes |-> w] /\ size' = size
    BY <1>6 DEF Reply, AdvanceWrite
  <2>4. ret'.code = "kSuccess" /\ ret'.n = Len(w)
    BY <2>3
  <2>5. torn' \in BOOLEAN /\ (~torn' => s = w)
    BY <1>1, <2>2, <2>4
  <2>6. Entered(w)
    BY <1>6, <2>1, <2>2, <2>4, <2>5 DEF Entered
  <2>7. CASE torn'
    BY <2>2, <2>3, <2>4, <2>6, <2>7 DEF Garbles
  <2>8. CASE ~torn'
    BY <1>3, <1>6, <2>2, <2>3, <2>5, <2>6, <2>8
       DEF BQ!Write, BQ!Append_, BQ!Reply, AvailableToWrite
  <2> QED BY <2>6, <2>7, <2>8
<1> QED BY <1>4, <1>5, <1>6 DEF WriteVector

LEMMA WriteEnters ==
  ASSUME IInv, NEW w \in Transfers, Write(w), torn' = FALSE
  PROVE  Entered(w) /\ BQ!Write(w)
<1>1. IInv'
  BY NextIInv DEF Next, Transfer
<1>2. BQ!Write(w)
  BY <1>1, WriteImplements
<1>3. CASE ret'.code # "kSuccess"
  <2>1. Contents' = Contents
    BY <1>2, <1>3 DEF BQ!Write, BQ!Refused, BQ!Reply
  <2> QED BY <1>1, <1>2, <1>3, <2>1 DEF Entered
<1>4. CASE ret'.code = "kSuccess"
  <2>1. w # <<>> /\ Contents' = Contents \o w
    BY <1>2, <1>4 DEF BQ!Write, BQ!Refused, BQ!Reply, BQ!Append_
  <2> QED BY <1>1, <1>2, <1>4, <2>1 DEF Entered
<1> QED BY <1>3, <1>4

LEMMA ReadLeaves ==
  ASSUME IInv, NEW n \in Sizes, Read(n), torn' = FALSE
  PROVE  Left(n) /\ BQ!Read(n)
<1>1. IInv'
  BY NextIInv DEF Next, Transfer
<1>2. BQ!Read(n)
  BY <1>1, ReadImplements
<1>3. n \in Nat /\ Len(Contents) \in Nat
  BY RingBufferAssumption, ContentsSlots DEF Sizes, IInv
<1> QED BY <1>1, <1>2, <1>3
        DEF Left, BQ!Read, BQ!Refused, BQ!Reply, BQ!Drop, BQ!Front

LEMMA ReadVectorLeaves ==
  ASSUME IInv, NEW n \in Nat, NEW room \in Nat, NEW width \in Nat \ {0},
         ReadVector(room, n, width)
  PROVE  /\ IInv'
         /\ n % width = 0 /\ room >= n => Left(n)
         /\ BQ!Read(n) \/ BQ!Misfit \/ Garbles
<1>1. torn' = (ret'.code = "kSuccess" /\ ~StraightOut(n, width))
  BY DEF ReadVector, Crossing
<1>2. Len(Contents) = length_ /\ length_ \in Nat
  BY ContentsSlots DEF IInv, TypeOK
<1>3. ASSUME NEW code, Refused(code)
      PROVE  IInv' /\ Contents' = Contents /\ BQ!Refused(code)
  <2>1. Contents' = Contents
    BY <1>3, SameRingSameContents DEF Refused
  <2>2. IInv'
    BY <1>3 DEF IInv, TypeOK, IndexCoherence, Refused, indices
  <2> QED BY <1>3, <2>1, <2>2 DEF Refused, Reply, BQ!Refused, BQ!Reply
<1>4. CASE n = 0 /\ Refused("kErrorEmpty")
  BY <1>2, <1>3, <1>4 DEF Left, BQ!Read
<1>5. CASE n # 0 /\ (n % width # 0 \/ room < n) /\ Refused("kErrorInvalidSize")
  BY <1>3, <1>5 DEF BQ!Misfit
<1>6. CASE n > AvailableToRead /\ Refused("kErrorFull")
  BY <1>2, <1>3, <1>6 DEF Left, BQ!Read, AvailableToRead
<1>7. CASE /\ n # 0 /\ n <= AvailableToRead
           /\ AdvanceRead(n)
           /\ \E bytes \in CopiesOutElements(n, width) : Reply("kSuccess", n, bytes)
  <2>1. PICK bytes \in CopiesOutElements(n, width) : Reply("kSuccess", n, bytes)
    BY <1>7
  <2>2. /\ IInv'
        /\ Contents' = SubSeq(Contents, n + 1, Len(Contents))
        /\ StraightOut(n, width) => bytes = SubSeq(Contents, 1, n)
    BY <1>7, VectorLoaded
  <2>3. ret' = [code |-> "kSuccess", n |-> n, bytes |-> bytes] /\ size' = size
    BY <1>7, <2>1 DEF Reply, AdvanceRead
  <2>4. ret'.code = "kSuccess" /\ ret'.n = n /\ ret'.bytes = bytes
    BY <2>3
  <2>5. ~torn' => bytes = SubSeq(Contents, 1, n)
    BY <1>1, <2>2, <2>4
  <2>6. n \in 1..Len(Contents)
    BY <1>2, <1>7 DEF AvailableToRead
  <2>7. Left(n)
    BY <2>2, <2>4, <2>5, <2>6 DEF Left
  <2>8. torn' => Garbles
    BY <2>2, <2>3, <2>4 DEF Garbles
  <2>9. ~torn' => BQ!Read(n)
    BY <2>2, <2>3, <2>5, <2>6 DEF BQ!Read, BQ!Drop, BQ!Front, BQ!Reply
  <2> QED BY <2>2, <2>7, <2>8, <2>9
<1> QED BY <1>4, <1>5, <1>6, <1>7 DEF ReadVector

-----------------------------------------------------------------------------
(* So every step of the stream keeps the counters, and is a step of the      *)
(* queue, a torn one, or none.                                               *)
LEMMA StreamStep ==
  ASSUME IInv, [StreamNext]_streamVars
  PROVE  IInv' /\ [BQ!Next \/ Garbles]_BQ!vars
<1>1. /\ \A n \in Sizes : n \in Nat
      /\ \A width \in Widths : width \in Nat \ {0}
  BY RingBufferAssumption, ByteStreamAssumption DEF Sizes
<1>2. ASSUME [Next]_vars PROVE IInv' /\ [BQ!Next \/ Garbles]_BQ!vars
  BY <1>2, NextIInv, NextImplements
<1>3. CASE UNCHANGED streamVars
  BY <1>2, <1>3 DEF streamVars
<1>4. ASSUME NEW w \in Transfers, InsertBytes(w)
      PROVE  IInv' /\ [BQ!Next \/ Garbles]_BQ!vars
  BY <1>2, <1>4 DEF InsertBytes, Next, Transfer
<1>5. ASSUME NEW n \in Sizes, ExtractBytes(n)
      PROVE  IInv' /\ [BQ!Next \/ Garbles]_BQ!vars
  BY <1>2, <1>5 DEF ExtractBytes, Next, Transfer
<1>6. ASSUME NEW w \in Transfers, NEW width \in Widths, WriteVector(w, width)
      PROVE  IInv' /\ [BQ!Next \/ Garbles]_BQ!vars
  <2>1. IInv' /\ (BQ!Write(w) \/ Garbles)
    BY <1>1, <1>6, WriteVectorEnters DEF Entered
  <2> QED BY <2>1 DEF BQ!Next
<1>7. ASSUME NEW n \in Sizes, NEW room \in Sizes, NEW width \in Widths,
             ReadVector(room, n, width)
      PROVE  IInv' /\ [BQ!Next \/ Garbles]_BQ!vars
  <2>1. IInv' /\ (BQ!Read(n) \/ BQ!Misfit \/ Garbles)
    BY <1>1, <1>7, ReadVectorLeaves
  <2> QED BY <2>1 DEF BQ!Next
<1>8. CASE Direct
  BY <1>2, <1>6, <1>7, <1>8 DEF Direct
<1>9. ASSUME NEW w \in Transfers, NEW width \in Widths, InsertVector(w, width)
      PROVE  IInv' /\ [BQ!Next \/ Garbles]_BQ!vars
  BY <1>6, <1>9 DEF InsertVector
<1>10. ASSUME NEW n \in Sizes, NEW width \in Widths, ExtractVector(n, width)
       PROVE  IInv' /\ [BQ!Next \/ Garbles]_BQ!vars
  BY <1>7, <1>10 DEF ExtractVector
<1> QED BY <1>3, <1>4, <1>5, <1>8, <1>9, <1>10 DEF StreamNext

(* The ring's types hold whatever elements go through the stream, torn ones  *)
(* included.                                                                 *)
THEOREM StreamTypeCorrect == StreamSpec => []TypeOK
<1>1. IInv => TypeOK
  BY DEF IInv
<1>2. StreamInit => IInv
  BY InitIInv DEF StreamInit
<1> QED BY <1>1, <1>2, StreamStep, PTL DEF StreamSpec

(* Its counters stay in agreement, whatever is read or written where.        *)
THEOREM StreamCoherent == StreamSpec => []IndexCoherence
<1>1. IInv => IndexCoherence
  BY DEF IInv
<1>2. StreamInit => IInv
  BY InitIInv DEF StreamInit
<1> QED BY <1>1, <1>2, StreamStep, PTL DEF StreamSpec

(* At any width of the elements and wherever they lie, the templates and     *)
(* operators make a bounded FIFO queue of bytes, except that a wide vector   *)
(* across the seam has other bytes than its own; no other byte is touched.   *)
THEOREM StreamIsByteQueueButTorn == StreamSpec => StreamImplementsByteQueue
<1>1. StreamInit => IInv /\ BQ!Init
  BY InitIInv, InitImplements DEF StreamInit
<1> QED BY <1>1, StreamStep, PTL DEF StreamSpec, StreamImplementsByteQueue

-----------------------------------------------------------------------------
(***************************************************************************)
(* What is put in element by element comes out so.  While the reader keeps *)
(* in step, the stored bytes are the elements one after the other, with    *)
(* other bytes where one is torn: there are marks among them, f[k] where   *)
(* the k-th element ends.                                                  *)
(***************************************************************************)
Size(e) == Len(e.bytes)

Marks(f, es, q) ==
  /\ f \in [0..Len(es) -> Nat]
  /\ f[0] = 0 /\ f[Len(es)] = Len(q)
  /\ \A k \in 0..Len(es), m \in 0..Len(es) : k <= m => f[k] <= f[m]
  /\ \A k \in 1..Len(es) : f[k] = f[k-1] + Size(es[k])
  /\ \A k \in 1..Len(es) : \A j \in 1..Size(es[k]) :
       es[k].torn \/ q[f[k-1] + j] = es[k].bytes[j]

Elements == [bytes : Seq(Byte) \ {<<>>}, width : Nat, torn : BOOLEAN]

Marked(es, q) == es \in Seq(Elements) /\ \E f : Marks(f, es, q)

InStep == in_step => Marked(elements, Contents)

LEMMA NothingIsMarked == Marked(<<>>, <<>>)
<1> DEFINE f == [k \in 0..0 |-> 0]
<1>1. Marks(f, <<>>, <<>>)
  BY DEF Marks
<1> HIDE DEF f
<1>2. <<>> \in Seq(Elements)
  BY EmptySeq
<1> QED BY <1>1, <1>2 DEF Marked

(* One element more, entering as the bytes of s. *)
LEMMA MarkedAppend ==
  ASSUME NEW es, NEW q \in Seq(Byte), Marked(es, q), NEW e \in Elements,
         NEW s \in Seq(Byte), Len(s) = Size(e), ~e.torn => s = e.bytes
  PROVE  Marked(Append(es, e), q \o s)
<1>1. PICK f : Marks(f, es, q)
  BY DEF Marked
<1> DEFINE n == Len(es)
           len == Len(q)
           more == Size(e)
           ext == Append(es, e)
           r == q \o s
           g == [k \in 0..n+1 |-> IF k = n + 1 THEN len + more ELSE f[k]]
<1>2. /\ es \in Seq(Elements) /\ n \in Nat /\ ext \in Seq(Elements) /\ Len(ext) = n + 1
      /\ ext[n + 1] = e /\ \A k \in 1..n : ext[k] = es[k] /\ es[k] \in Elements
  <2> HIDE DEF Elements
  <2>1. es \in Seq(Elements)
    BY DEF Marked
  <2> QED BY <2>1
<1>3. Len(s) = more /\ more \in Nat /\ len \in Nat
  OBVIOUS
<1>4. /\ Len(r) = len + more
      /\ \A i \in 1..len+more : r[i] = IF i <= len THEN q[i] ELSE s[i - len]
  <2>1. /\ Len(q \o s) = Len(q) + Len(s)
        /\ \A i \in 1..Len(q)+Len(s) :
             (q \o s)[i] = IF i <= Len(q) THEN q[i] ELSE s[i - Len(q)]
    BY ConcatProperties
  <2>2. Len(s) = more
    BY <1>3
  <2> HIDE DEF more
  <2> QED BY <2>1, <2>2
<1>5. /\ f \in [0..n -> Nat] /\ f[0] = 0 /\ f[n] = len
      /\ \A k \in 0..n, m \in 0..n : k <= m => f[k] <= f[m]
      /\ \A k \in 1..n : f[k] = f[k-1] + Size(es[k])
      /\ \A k \in 1..n : \A j \in 1..Size(es[k]) :
           es[k].torn \/ q[f[k-1] + j] = es[k].bytes[j]
  BY <1>1 DEF Marks
<1>6. \A k \in 1..n : Size(es[k]) \in Nat
  BY <1>2 DEF Elements, Size
<1> HIDE DEF n, len, more, ext, r, Elements
<1>7. /\ g \in [0..n+1 -> Nat] /\ g[0] = 0 /\ g[n + 1] = len + more
      /\ \A k \in 0..n : g[k] = f[k]
  BY <1>2, <1>3, <1>5
<1> HIDE DEF g
<1>8. \A k \in 0..n+1, m \in 0..n+1 : k <= m => g[k] <= g[m]
  <2> SUFFICES ASSUME NEW k \in 0..n+1, NEW m \in 0..n+1, k <= m PROVE g[k] <= g[m]
    OBVIOUS
  <2>1. CASE m = n + 1
    <3>1. CASE k = n + 1
      BY <1>3, <1>7, <2>1, <3>1
    <3>2. CASE k # n + 1
      <4>1. k \in 0..n /\ n \in 0..n /\ k <= n
        BY <1>2, <3>2
      <4>2. g[k] <= len /\ g[k] \in Nat
        BY <1>5, <1>7, <4>1
      <4> QED BY <1>3, <1>7, <2>1, <4>2
    <3> QED BY <3>1, <3>2
  <2>2. CASE m # n + 1
    <3>1. k \in 0..n /\ m \in 0..n
      BY <1>2, <2>2
    <3> QED BY <1>5, <1>7, <3>1
  <2> QED BY <2>1, <2>2
<1>9. ASSUME NEW k \in 1..n+1
      PROVE  /\ g[k] = g[k-1] + Size(ext[k])
             /\ \A j \in 1..Size(ext[k]) : ext[k].torn \/ r[g[k-1] + j] = ext[k].bytes[j]
  <2>1. k - 1 \in 0..n
    BY <1>2
  <2>2. CASE k = n + 1
    <3>1. g[k-1] = len /\ ext[k] = e /\ g[k] = len + more /\ Size(ext[k]) = more
      BY <1>2, <1>5, <1>7, <2>1, <2>2 DEF more
    <3>2. ASSUME NEW j \in 1..more PROVE r[len + j] = s[j]
      <4>1. len + j \in 1..len+more /\ ~(len + j <= len) /\ (len + j) - len = j
        BY <1>3
      <4> QED BY <1>4, <4>1
    <3>3. ASSUME NEW j \in 1..more, ~e.torn PROVE r[len + j] = e.bytes[j]
      BY <3>2, <3>3
    <3> QED BY <3>1, <3>3
  <2>3. CASE k # n + 1
    <3>1. k \in 1..n /\ k \in 0..n /\ n \in 0..n /\ k <= n
      BY <1>2, <2>3
    <3>2. g[k] = f[k] /\ g[k-1] = f[k-1] /\ ext[k] = es[k]
      BY <1>2, <1>7, <2>1, <3>1
    <3>3. f[k] = f[k-1] + Size(es[k]) /\ f[k] <= len /\ f[k-1] \in Nat
          /\ Size(es[k]) \in Nat
      BY <1>5, <1>6, <2>1, <3>1
    <3>4. ASSUME NEW j \in 1..Size(es[k]) PROVE es[k].torn \/ r[f[k-1] + j] = es[k].bytes[j]
      <4>1. f[k-1] + j \in 1..len+more /\ f[k-1] + j <= len
        BY <1>3, <3>3
      <4>2. r[f[k-1] + j] = q[f[k-1] + j]
        BY <1>4, <4>1
      <4>3. es[k].torn \/ q[f[k-1] + j] = es[k].bytes[j]
        BY <1>5, <3>1
      <4> QED BY <4>2, <4>3
    <3> QED BY <3>2, <3>3, <3>4
  <2> QED BY <2>2, <2>3
<1>10. Marks(g, ext, r)
  BY <1>2, <1>4, <1>7, <1>8, <1>9 DEF Marks
<1> QED BY <1>2, <1>10 DEF Marked, ext, r

(* The first element lies at the front, and the others behind it. *)
LEMMA MarkedFront ==
  ASSUME NEW es, NEW q \in Seq(Byte), Marked(es, q), es # <<>>
  PROVE  /\ Size(Head(es)) \in 1..Len(q)
         /\ Head(es).torn \/ Head(es).bytes = SubSeq(q, 1, Size(Head(es)))
         /\ Marked(Tail(es), SubSeq(q, Size(Head(es)) + 1, Len(q)))
<1>1. PICK f : Marks(f, es, q)
  BY DEF Marked
<1> DEFINE n == Len(es)
           len == Len(q)
           e == Head(es)
           more == Size(e)
           rest == Tail(es)
           front == SubSeq(q, 1, more)
           r == SubSeq(q, more + 1, len)
           g == [k \in 0..n-1 |-> f[k + 1] - f[1]]
<1>2. /\ es \in Seq(Elements) /\ n \in Nat \ {0} /\ rest \in Seq(Elements)
      /\ Len(rest) = n - 1 /\ e = es[1] /\ e \in Elements
      /\ \A k \in 1..n-1 : rest[k] = es[k + 1]
      /\ \A k \in 1..n : es[k] \in Elements
  <2> HIDE DEF Elements
  <2>1. es \in Seq(Elements)
    BY DEF Marked
  <2> QED BY <2>1
<1>3. /\ e.bytes \in Seq(Byte) /\ more \in Nat \ {0} /\ len \in Nat
      /\ \A i \in 1..len : q[i] \in Byte
  BY <1>2 DEF Elements, Size
<1>4. /\ f \in [0..n -> Nat] /\ f[0] = 0 /\ f[n] = len
      /\ \A k \in 0..n, m \in 0..n : k <= m => f[k] <= f[m]
      /\ \A k \in 1..n : f[k] = f[k-1] + Size(es[k])
      /\ \A k \in 1..n : \A j \in 1..Size(es[k]) :
           es[k].torn \/ q[f[k-1] + j] = es[k].bytes[j]
  BY <1>1 DEF Marks
<1>5. \A k \in 1..n : Size(es[k]) \in Nat
  BY <1>2 DEF Elements, Size
<1> HIDE DEF n, len, e, rest, Elements
<1>6. f[1] = more /\ more <= len
  <2>1. 1 \in 1..n /\ 1 \in 0..n /\ n \in 0..n /\ 1 <= n /\ 1 - 1 = 0
    BY <1>2
  <2>2. f[1] = f[0] + Size(es[1])
    BY <1>4, <2>1
  <2> QED BY <1>2, <1>3, <1>4, <2>1, <2>2
<1>7. /\ front \in Seq(Byte) /\ Len(front) = more
      /\ \A i \in 1..more : front[i] = q[i]
  <2> HIDE DEF more
  <2>1. \A i \in 1..more : q[i] \in Byte
    BY <1>3, <1>6
  <2> QED BY <1>3, <1>6, <2>1, SubSeqProperties
<1>8. /\ r \in Seq(Byte) /\ Len(r) = len - more
      /\ \A i \in 1..len-more : r[i] = q[more + i]
  <2> HIDE DEF more
  <2>1. \A i \in more+1..len : q[i] \in Byte
    BY <1>3
  <2> QED BY <1>3, <1>6, <2>1, SubSeqProperties
<1> HIDE DEF more, front, r
<1>9. e.torn \/ front = e.bytes
  <2> SUFFICES ASSUME ~e.torn PROVE front = e.bytes
    OBVIOUS
  <2>1. ASSUME NEW i \in 1..more PROVE front[i] = e.bytes[i]
    <3>1. 1 \in 1..n /\ 1 - 1 = 0 /\ i \in 1..Size(es[1])
      BY <1>2 DEF more
    <3>2. q[f[0] + i] = es[1].bytes[i]
      BY <1>2, <1>4, <3>1
    <3>3. f[0] + i = i
      BY <1>4
    <3> QED BY <1>2, <1>7, <3>2, <3>3
  <2>2. Len(front) = Len(e.bytes)
    BY <1>7 DEF more, Size
  <2> QED BY <1>3, <1>7, <2>1, <2>2, SeqEqual
<1>10. \A k \in 0..n-1 : k + 1 \in 0..n /\ f[k + 1] \in Nat /\ f[1] <= f[k + 1]
                          /\ f[1] \in Nat
  BY <1>2, <1>4
<1>11. /\ g \in [0..n-1 -> Nat] /\ \A k \in 0..n-1 : g[k] = f[k + 1] - f[1]
  BY <1>10
<1> HIDE DEF g
<1>12. g[0] = 0 /\ g[n - 1] = len - more
  <2>1. 0 \in 0..n-1 /\ n - 1 \in 0..n-1 /\ 0 + 1 = 1 /\ (n - 1) + 1 = n
    BY <1>2
  <2>2. g[0] = f[1] - f[1] /\ g[n - 1] = f[n] - f[1]
    BY <1>11, <2>1
  <2> QED BY <1>3, <1>4, <1>6, <2>2
<1>13. \A k \in 0..n-1, m \in 0..n-1 : k <= m => g[k] <= g[m]
  <2> SUFFICES ASSUME NEW k \in 0..n-1, NEW m \in 0..n-1, k <= m PROVE g[k] <= g[m]
    OBVIOUS
  <2>1. f[k + 1] <= f[m + 1]
    <3>1. k + 1 \in 0..n /\ m + 1 \in 0..n /\ k + 1 <= m + 1
      BY <1>2
    <3> QED BY <1>4, <3>1
  <2> QED BY <1>10, <1>11, <2>1
<1>14. ASSUME NEW k \in 1..n-1
       PROVE  /\ g[k] = g[k-1] + Size(rest[k])
              /\ \A j \in 1..Size(rest[k]) :
                   rest[k].torn \/ r[g[k-1] + j] = rest[k].bytes[j]
  <2>1. /\ k \in 0..n-1 /\ k - 1 \in 0..n-1 /\ k + 1 \in 1..n
        /\ (k - 1) + 1 = k /\ (k + 1) - 1 = k /\ k \in 0..n /\ k + 1 \in 0..n /\ n \in 0..n
        /\ k + 1 <= n
    BY <1>2
  <2>2. g[k] = f[k + 1] - f[1] /\ g[k-1] = f[k] - f[1] /\ rest[k] = es[k + 1]
    BY <1>2, <1>11, <2>1
  <2>3. f[k + 1] = f[k] + Size(es[k + 1]) /\ f[k] \in Nat /\ f[k + 1] <= len
        /\ Size(es[k + 1]) \in Nat /\ f[1] <= f[k]
    <3>1. f[k + 1] = f[(k + 1) - 1] + Size(es[k + 1])
      BY <1>4, <2>1
    <3>2. f[k] \in Nat /\ f[k + 1] <= f[n] /\ f[1] <= f[k]
      <4>1. 1 \in 0..n /\ 1 <= k
        BY <1>2
      <4> QED BY <1>4, <2>1, <4>1
    <3> QED BY <1>4, <1>5, <2>1, <3>1, <3>2
  <2>4. ASSUME NEW j \in 1..Size(es[k + 1])
        PROVE  es[k + 1].torn \/ r[(f[k] - f[1]) + j] = es[k + 1].bytes[j]
    <3>1. es[k + 1].torn \/ q[f[(k + 1) - 1] + j] = es[k + 1].bytes[j]
      BY <1>4, <2>1
    <3>2. /\ (f[k] - f[1]) + j \in 1..len-more
          /\ more + ((f[k] - f[1]) + j) = f[k] + j
      <4> DEFINE a == f[k]
                 b == Size(es[k + 1])
      <4>1. /\ a \in Nat /\ b \in Nat /\ more \in Nat /\ len \in Nat
            /\ a + b <= len /\ more <= a /\ f[1] = more
        BY <1>3, <1>6, <2>3
      <4>2. j \in 1..b
        OBVIOUS
      <4> HIDE DEF a, b
      <4>3. (a - more) + j \in 1..len-more /\ more + ((a - more) + j) = a + j
        BY ONLY <4>1, <4>2
      <4> QED BY <4>1, <4>3 DEF a
    <3>3. r[(f[k] - f[1]) + j] = q[f[k] + j]
      BY <1>8, <3>2
    <3> QED BY <2>1, <3>1, <3>3
  <2>5. g[k] = g[k-1] + Size(rest[k])
    BY <1>3, <1>6, <2>2, <2>3
  <2> QED BY <2>2, <2>4, <2>5
<1>15. Marks(g, rest, r)
  BY <1>2, <1>8, <1>11, <1>12, <1>13, <1>14 DEF Marks
<1>16. Marked(rest, r)
  BY <1>2, <1>15 DEF Marked
<1>17. more \in 1..len
  BY <1>3, <1>6
<1> QED BY <1>9, <1>16, <1>17 DEF more, e, front, rest, r, len

(* What is put in comes to lie behind the others, or leaves no trace.        *)
LEMMA InsertInStep ==
  ASSUME IInv, InStep, NEW w \in Transfers, NEW width \in Nat,
         Entered(w), Given(w, width)
  PROVE  InStep' /\ (in_step' => Len(elements') >= Len(elements))
<1> SUFFICES ASSUME in_step'
             PROVE  Marked(elements', Contents') /\ Len(elements') >= Len(elements)
  BY DEF InStep
<1>1. in_step /\ Marked(elements, Contents) /\ Contents \in Seq(Byte)
  BY ContentsSlots DEF Given, InStep, IInv
<1>2. CASE ret'.code # "kSuccess"
  <2>1. Contents' = Contents /\ elements' = elements
    BY <1>2 DEF Entered, Given
  <2>2. Len(elements) \in Nat
    BY <1>1 DEF Marked
  <2> QED BY <1>1, <2>1, <2>2
<1>3. CASE ret'.code = "kSuccess"
  <2> DEFINE e == [bytes |-> w, width |-> width, torn |-> torn']
  <2>1. PICK s \in Transfers : Len(s) = Len(w) /\ Contents' = Contents \o s /\ (~torn' => s = w)
    BY <1>3 DEF Entered
  <2>2. e \in Elements
    BY <1>3, TransferIsSequence DEF Elements, Entered
  <2>3. s \in Seq(Byte) /\ Len(s) = Size(e) /\ (~e.torn => s = e.bytes)
    BY <2>1, TransferIsSequence DEF Size
  <2>4. elements' = Append(elements, e)
    BY <1>1, <1>3 DEF Given
  <2> HIDE DEF e
  <2>5. Marked(Append(elements, e), Contents \o s)
    BY <1>1, <2>2, <2>3, MarkedAppend
  <2>6. Len(Append(elements, e)) >= Len(elements)
    <3>1. elements \in Seq(Elements)
      BY <1>1 DEF Marked
    <3> HIDE DEF Elements
    <3> QED BY <2>2, <3>1
  <2> QED BY <2>1, <2>4, <2>5, <2>6
<1> QED BY <1>2, <1>3

(* What a reader in step is owed for the first element.                      *)
Owed ==
  in_step' /\ Len(elements') < Len(elements) =>
    /\ ret'.code = "kSuccess" /\ ret'.n = Len(Head(elements).bytes)
    /\ Head(elements).torn \/ torn' \/ Returned(Head(elements))

(* A reader in step gets the first element and leaves the others. *)
LEMMA ExtractInStep ==
  ASSUME IInv, InStep, NEW n \in Nat, NEW width \in Nat, Left(n), Asked(n, width)
  PROVE  InStep' /\ Owed
<1> SUFFICES ASSUME in_step'
             PROVE  Marked(elements', Contents') /\ Owed
  BY DEF InStep, Owed
<1>1. /\ in_step /\ (n = 0 \/ (elements # <<>> /\ n = Size(Head(elements))))
      /\ elements' = IF n = 0 THEN elements ELSE Tail(elements)
  BY DEF Asked, Fits, Size
<1>2. Marked(elements, Contents) /\ Contents \in Seq(Byte)
  BY <1>1, ContentsSlots DEF InStep, IInv
<1>3. CASE n = 0
  <2>1. Contents' = Contents /\ elements' = elements
    BY <1>1, <1>3 DEF Left
  <2>2. Len(elements) \in Nat
    BY <1>2 DEF Marked
  <2> QED BY <1>2, <2>1, <2>2 DEF Owed
<1>4. CASE n # 0
  <2>1. elements # <<>> /\ n = Size(Head(elements)) /\ elements' = Tail(elements)
    BY <1>1, <1>4
  <2>2. /\ n \in 1..Len(Contents)
        /\ Head(elements).torn \/ Head(elements).bytes = SubSeq(Contents, 1, n)
        /\ Marked(Tail(elements), SubSeq(Contents, n + 1, Len(Contents)))
    BY <1>2, <2>1, MarkedFront
  <2>3. /\ Contents' = SubSeq(Contents, n + 1, Len(Contents))
        /\ ret'.code = "kSuccess" /\ ret'.n = n
        /\ ~torn' => ret'.bytes = SubSeq(Contents, 1, n)
    BY <2>2 DEF Left
  <2>4. Marked(elements', Contents')
    BY <2>1, <2>2, <2>3
  <2>5. Owed
    BY <2>1, <2>2, <2>3 DEF Owed, Returned, Size
  <2> QED BY <2>4, <2>5
<1> QED BY <1>3, <1>4

LEMMA NextInStep ==
  ASSUME IInv, InStep, [StreamNext]_streamVars
  PROVE  InStep' /\ Owed
<1>1. /\ \A n \in Sizes : n \in Nat
      /\ \A width \in Widths : width \in Nat \ {0}
  BY RingBufferAssumption, ByteStreamAssumption DEF Sizes
<1>2. Marked(elements, Contents) => Len(elements) \in Nat
  BY DEF Marked
<1>3. ASSUME in_step' => in_step /\ Contents' = Contents /\ elements' = elements
      PROVE  InStep' /\ Owed
  BY <1>2, <1>3 DEF InStep, Owed
<1>4. CASE UNCHANGED streamVars
  BY <1>3, <1>4 DEF streamVars, vars, indices, Contents
<1>5. ASSUME NEW w \in Transfers, NEW width \in Nat, Entered(w), Given(w, width)
      PROVE  InStep' /\ Owed
  <2>1. InStep' /\ (in_step' => Len(elements') >= Len(elements))
    BY <1>5, InsertInStep
  <2>2. in_step' => Len(elements) \in Nat /\ Len(elements') \in Nat
    <3>1. in_step' => in_step
      BY <1>5 DEF Given
    <3>2. in_step' => Marked(elements', Contents')
      BY <2>1 DEF InStep
    <3>3. Marked(elements', Contents') => Len(elements') \in Nat
      BY DEF Marked
    <3> QED BY <1>2, <3>1, <3>2, <3>3 DEF InStep
  <2> QED BY <2>1, <2>2 DEF Owed
<1>6. ASSUME NEW w \in Transfers, InsertBytes(w) PROVE InStep' /\ Owed
  <2>1. Write(w) /\ torn' = FALSE /\ Given(w, 1)
    BY <1>6 DEF InsertBytes
  <2>2. Entered(w)
    BY <2>1, WriteEnters
  <2> QED BY <1>5, <2>1, <2>2
<1>7. ASSUME NEW w \in Transfers, NEW width \in Widths, InsertVector(w, width)
      PROVE  InStep' /\ Owed
  <2>1. WriteVector(w, width) /\ Given(w, width)
    BY <1>7 DEF InsertVector
  <2>2. Entered(w)
    BY <1>1, <2>1, WriteVectorEnters
  <2> QED BY <1>1, <1>5, <2>1, <2>2
<1>8. ASSUME NEW n \in Sizes, ExtractBytes(n) PROVE InStep' /\ Owed
  <2>1. Read(n) /\ torn' = FALSE /\ Asked(n, 1)
    BY <1>8 DEF ExtractBytes
  <2>2. Left(n)
    BY <2>1, ReadLeaves
  <2> QED BY <1>1, <2>1, <2>2, ExtractInStep
<1>9. ASSUME NEW n \in Sizes, NEW width \in Widths, ExtractVector(n, width)
      PROVE  InStep' /\ Owed
  <2>1. n % width = 0 /\ ReadVector(n, n, width) /\ Asked(n, width)
    BY <1>9 DEF ExtractVector
  <2>2. n >= n
    BY <1>1
  <2>3. Left(n)
    BY <1>1, <2>1, <2>2, ReadVectorLeaves
  <2> QED BY <1>1, <2>1, <2>3, ExtractInStep
<1>10. CASE Direct
  BY <1>3, <1>10 DEF Direct
<1> QED BY <1>4, <1>6, <1>7, <1>8, <1>9, <1>10 DEF StreamNext

(* For any ring and any mix of values, strings and vectors of any width, in  *)
(* any place and whatever is refused: a reader who takes out, with the same  *)
(* types, what went in, is given each element as it went in, unless that     *)
(* element itself is a wide vector torn at the seam - and then stays in step.*)
THEOREM ElementsComeOutAsPutIn == StreamSpec => RoundTrip
<1>1. StreamInit => IInv /\ InStep
  <2> SUFFICES ASSUME StreamInit PROVE IInv /\ InStep
    OBVIOUS
  <2>1. IInv
    BY InitIInv DEF StreamInit
  <2>2. Contents = <<>> /\ elements = <<>>
    BY DEF StreamInit, Init, Contents
  <2> QED BY <2>1, <2>2, NothingIsMarked DEF InStep
<1>2. IInv /\ InStep /\ [StreamNext]_streamVars
        => [in_step' /\ Len(elements') < Len(elements) =>
              /\ ret'.code = "kSuccess" /\ ret'.n = Len(Head(elements).bytes)
              /\ Head(elements).torn \/ torn' \/ Returned(Head(elements))]_streamVars
  BY NextInStep DEF Owed
<1>3. IInv /\ InStep /\ [StreamNext]_streamVars => (IInv /\ InStep)'
  BY StreamStep, NextInStep
<1> QED BY <1>1, <1>2, <1>3, PTL DEF StreamSpec, RoundTrip
=============================================================================
