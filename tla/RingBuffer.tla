----------------------------- MODULE RingBuffer ------------------------------
(***************************************************************************)
(* containers::RingBuffer (include/containers/ring_buffer.hpp and          *)
(* src/containers/ring_buffer.cpp): a byte ring with a read index, a write *)
(* index and a length.  Every method but Resize and the accessors holds    *)
(* mutex_ from its first statement to its return, so each call is one      *)
(* step.  This module is the buffer itself under any sequence of calls;    *)
(* module LinearIO puts threads around the zero-copy calls.                *)
(***************************************************************************)
EXTENDS Integers, Sequences

CONSTANTS
  Byte,          \* the byte values that are told apart
  Zero,          \* the byte a std::vector<uint8_t> is value-initialised with
  BufferSizes,   \* the sizes a buffer is constructed with or resized to
  MaxTransfer    \* bound: bytes one call moves

ASSUME RingBufferAssumption ==
  /\ Zero \in Byte
  /\ BufferSizes \subseteq Nat \ {0}
  /\ MaxTransfer \in Nat

VARIABLES
  buffer_,       \* storage, indexed from 0
  size,          \* buffer_.size()
  read_index_,
  write_index_,
  length_,       \* bytes stored
  ret            \* the last call: result code, count and the bytes it copied

indices == <<read_index_, write_index_, length_>>
vars    == <<buffer_, size, indices, ret>>

Transfers == UNION {[1..n -> Byte] : n \in 0..MaxTransfer}
Sizes     == 0..MaxTransfer

Lesser(a, b) == IF a <= b THEN a ELSE b

AvailableToWrite == size - length_
AvailableToRead  == length_

(***************************************************************************)
(* The size_t a call returns is the count n, or the code cast to it: the   *)
(* three codes are -1, -2 and -3, which no count of stored bytes equals.   *)
(* Peek, which has no code for a count of zero, answers 0.                 *)
(***************************************************************************)
Reply(code, n, bytes) == ret' = [code |-> code, n |-> n, bytes |-> bytes]

Refused(code) ==
  /\ Reply(code, 0, <<>>)
  /\ UNCHANGED <<buffer_, size, indices>>

Init ==
  /\ size \in BufferSizes
  /\ buffer_ = [i \in 0..size-1 |-> Zero]
  /\ read_index_ = 0 /\ write_index_ = 0 /\ length_ = 0
  /\ ret = [code |-> "kSuccess", n |-> 0, bytes |-> <<>>]

-----------------------------------------------------------------------------
(***************************************************************************)
(* The two memcpy calls of Write and of Read/Peek: a first chunk up to the *)
(* end of the storage, and the rest at its start.                          *)
(***************************************************************************)
CopyInRepeatingSeam(w) ==
  LET first == Lesser(Len(w), size - write_index_)
  IN  [i \in 0..size-1 |->
         IF i < Len(w) - first THEN w[i + 1]
         ELSE IF i \in write_index_ .. write_index_ + first - 1
              THEN w[i - write_index_ + 1]
              ELSE buffer_[i]]

CopyIn(w) ==
  LET first == Lesser(Len(w), size - write_index_)
  IN  [i \in 0..size-1 |->
         IF i < Len(w) - first THEN w[first + i + 1]
         ELSE IF i \in write_index_ .. write_index_ + first - 1
              THEN w[i - write_index_ + 1]
              ELSE buffer_[i]]

CopyOut(n) ==
  LET first == Lesser(n, size - read_index_)
  IN  [j \in 1..n |-> IF j <= first THEN buffer_[read_index_ + j - 1]
                                    ELSE buffer_[j - first - 1]]

AdvanceWrite(n) ==
  /\ write_index_' = (write_index_ + n) % size
  /\ length_' = length_ + n
  /\ UNCHANGED <<size, read_index_>>

AdvanceRead(n) ==
  /\ read_index_' = (read_index_ + n) % size
  /\ length_' = length_ - n
  /\ UNCHANGED <<buffer_, size, write_index_>>

-----------------------------------------------------------------------------
(* Copying calls. *)

WriteUnchecked(w) ==
  \/ w = <<>> /\ Refused("kErrorEmpty")
  \/ /\ w # <<>>
     /\ buffer_' = CopyIn(w) /\ AdvanceWrite(Len(w))
     /\ Reply("kSuccess", Len(w), w)

Write(w) ==
  \/ w = <<>> /\ Refused("kErrorEmpty")
  \/ w # <<>> /\ Len(w) > AvailableToWrite /\ Refused("kErrorFull")
  \/ /\ w # <<>> /\ Len(w) <= AvailableToWrite
     /\ buffer_' = CopyIn(w)
     /\ AdvanceWrite(Len(w))
     /\ Reply("kSuccess", Len(w), w)

Read(n) ==
  \/ n = 0 /\ Refused("kErrorEmpty")
  \/ n # 0 /\ n > AvailableToRead /\ Refused("kErrorFull")
  \/ /\ n # 0 /\ n <= AvailableToRead
     /\ AdvanceRead(n)
     /\ Reply("kSuccess", n, CopyOut(n))

Peek(n) ==
  \/ n > AvailableToRead /\ Refused("kErrorFull")
  \/ /\ n <= AvailableToRead
     /\ Reply("kSuccess", n, CopyOut(n))
     /\ UNCHANGED <<buffer_, size, indices>>

-----------------------------------------------------------------------------
(***************************************************************************)
(* Zero-copy calls.  GetLinear*Space return a pointer to the run of slots  *)
(* that starts at an index, and its length; the caller then stores or      *)
(* loads through the pointer, with no lock, and commits.                   *)
(***************************************************************************)
LinearWriteSpaceToTheEnd == size - write_index_
LinearReadSpaceToTheEnd == size - read_index_

LinearWriteSpace == Lesser(AvailableToWrite, size - write_index_)
LinearReadSpace  == Lesser(AvailableToRead, size - read_index_)

StoreAt(at, w) ==
  buffer_' = [i \in 0..size-1 |->
                IF i \in at .. at + Len(w) - 1 THEN w[i - at + 1] ELSE buffer_[i]]

LoadFrom(at, n) == [j \in 1..n |-> buffer_[at + j - 1]]

GetLinearWriteSpace ==
  /\ Reply("kSuccess", LinearWriteSpace, <<>>)
  /\ UNCHANGED <<buffer_, size, indices>>

(* The caller's own stores through the pointer it has just obtained. *)
StoreLinear(w) ==
  /\ w # <<>> /\ Len(w) <= LinearWriteSpace
  /\ StoreAt(write_index_, w)
  /\ UNCHANGED <<size, indices, ret>>

CommitWriteSizeNeverFull(n) ==
  \/ n >= AvailableToWrite /\ Refused("kErrorInvalidSize")
  \/ /\ n < AvailableToWrite
     /\ AdvanceWrite(n)
     /\ Reply("kSuccess", n, <<>>)
     /\ UNCHANGED buffer_

CommitWriteSize(n) ==
  \/ n > AvailableToWrite /\ Refused("kErrorInvalidSize")
  \/ /\ n <= AvailableToWrite
     /\ AdvanceWrite(n)
     /\ Reply("kSuccess", n, <<>>)
     /\ UNCHANGED buffer_

GetLinearReadSpace ==
  /\ Reply("kSuccess", LinearReadSpace, LoadFrom(read_index_, LinearReadSpace))
  /\ UNCHANGED <<buffer_, size, indices>>

CommitReadSizeNeverEmpty(n) ==
  \/ n >= AvailableToRead /\ Refused("kErrorInvalidSize")
  \/ /\ n < AvailableToRead
     /\ AdvanceRead(n)
     /\ Reply("kSuccess", n, <<>>)

CommitReadSize(n) ==
  \/ n > AvailableToRead /\ Refused("kErrorInvalidSize")
  \/ /\ n <= AvailableToRead
     /\ AdvanceRead(n)
     /\ Reply("kSuccess", n, <<>>)

-----------------------------------------------------------------------------
(* Housekeeping. *)

ClearKeepingWriteIndex ==
  /\ read_index_' = 0 /\ length_' = 0
  /\ Reply("kSuccess", 0, <<>>)
  /\ UNCHANGED <<buffer_, size, write_index_>>

Clear ==
  /\ read_index_' = 0 /\ write_index_' = 0 /\ length_' = 0
  /\ Reply("kSuccess", 0, <<>>)
  /\ UNCHANGED <<buffer_, size>>

(* std::vector::resize and nothing else: no index is adjusted. *)
Resize(n) ==
  /\ size' = n
  /\ buffer_' = [i \in 0..n-1 |-> IF i < size THEN buffer_[i] ELSE Zero]
  /\ Reply("kSuccess", n, <<>>)
  /\ UNCHANGED indices

(***************************************************************************)
(* What a caller of Resize has to see to: the stored bytes do not reach    *)
(* the end of the storage, neither the old one nor the new one.            *)
(***************************************************************************)
Unwrapped(n) == read_index_ + length_ < Lesser(size, n)

Transfer ==
  \/ \E w \in Transfers : Write(w) \/ StoreLinear(w)
  \/ \E n \in Sizes :
       Read(n) \/ Peek(n) \/ CommitWriteSize(n) \/ CommitReadSize(n)
  \/ GetLinearWriteSpace \/ GetLinearReadSpace \/ Clear

Next == Transfer \/ \E n \in BufferSizes : Unwrapped(n) /\ Resize(n)

Spec == Init /\ [][Next]_vars

-----------------------------------------------------------------------------
(***************************************************************************)
(* The stored bytes, oldest first: the abstraction of the ring.            *)
(***************************************************************************)
Contents == [k \in 1..length_ |-> buffer_[(read_index_ + k - 1) % size]]

TypeOK ==
  /\ size \in Nat \ {0}
  /\ buffer_ \in [0..size-1 -> Byte]
  /\ read_index_ \in 0..size-1
  /\ write_index_ \in 0..size-1
  /\ length_ \in 0..size

(***************************************************************************)
(* The three counters, each updated on its own by nine methods, always     *)
(* agree: the write index is where the stored bytes end.  Full and empty   *)
(* differ in length_ alone.                                                *)
(***************************************************************************)
IndexCoherence == write_index_ = (read_index_ + length_) % size

(***************************************************************************)
(* Every call does to the stored bytes, and answers, what a bounded FIFO   *)
(* byte queue would: nothing is lost, duplicated or reordered where the    *)
(* data wraps, a refused call has no effect, and storing through the       *)
(* linear write space never touches an unread byte.                        *)
(***************************************************************************)
BQ == INSTANCE ByteQueue WITH
        queue <- Contents, capacity <- size, Capacities <- BufferSizes

ImplementsByteQueue == BQ!Spec
=============================================================================
