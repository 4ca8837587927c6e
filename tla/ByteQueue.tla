------------------------------ MODULE ByteQueue ------------------------------
(***************************************************************************)
(* What containers::RingBuffer promises its caller, with no indices and no *)
(* wrap-around: a bounded FIFO queue of bytes.  Each action is one call;   *)
(* ret is what it returned and copied.  A refused call changes nothing.    *)
(***************************************************************************)
EXTENDS Naturals, Sequences

CONSTANTS
  Transfers,   \* the byte sequences one call may carry
  Sizes,       \* the byte counts one call may ask for
  Capacities   \* the capacities Resize may ask for

VARIABLES
  queue,       \* the stored bytes, oldest first
  capacity,    \* how many bytes the buffer can hold
  ret          \* the last call: result code, count and the bytes it copied

vars == <<queue, capacity, ret>>

Reply(code, n, bytes) == ret' = [code |-> code, n |-> n, bytes |-> bytes]

Free == capacity - Len(queue)

Refused(code) ==
  /\ Reply(code, 0, <<>>)
  /\ UNCHANGED <<queue, capacity>>

Init ==
  /\ queue = <<>>
  /\ capacity \in Capacities
  /\ ret = [code |-> "kSuccess", n |-> 0, bytes |-> <<>>]

(***************************************************************************)
(* Storing.  Write copies; Publish commits bytes that the caller has put   *)
(* in the linear write space itself (WriteSpace says how many fit there).  *)
(***************************************************************************)
Append_(s) == queue' = queue \o s /\ UNCHANGED capacity

Write(s) ==
  \/ s = <<>> /\ Refused("kErrorEmpty")
  \/ s # <<>> /\ Len(s) > Free /\ Refused("kErrorFull")
  \/ s # <<>> /\ Len(s) <= Free /\ Append_(s) /\ Reply("kSuccess", Len(s), s)

WriteSpace ==
  /\ \E n \in 0..Free : (n = 0 <=> Free = 0) /\ Reply("kSuccess", n, <<>>)
  /\ UNCHANGED <<queue, capacity>>

Publish(s) ==
  \/ Len(s) > Free /\ Refused("kErrorInvalidSize")
  \/ Len(s) <= Free /\ Append_(s) /\ Reply("kSuccess", Len(s), <<>>)

(***************************************************************************)
(* Reading.  Peek copies; Read copies and removes; ReadSpace shows some    *)
(* non-empty prefix in place; Discard removes what was consumed in place.  *)
(***************************************************************************)
Front(n) == SubSeq(queue, 1, n)

Drop(n) == queue' = SubSeq(queue, n + 1, Len(queue)) /\ UNCHANGED capacity

Read(n) ==
  \/ n = 0 /\ Refused("kErrorEmpty")
  \/ n > Len(queue) /\ Refused("kErrorFull")
  \/ n \in 1..Len(queue) /\ Drop(n) /\ Reply("kSuccess", n, Front(n))

(* A count that is not one of whole elements, or of too many. *)
Misfit == Refused("kErrorInvalidSize")

Peek(n) ==
  /\ \/ n > Len(queue) /\ Reply("kErrorFull", 0, <<>>)
     \/ n <= Len(queue) /\ Reply("kSuccess", n, Front(n))
  /\ UNCHANGED <<queue, capacity>>

ReadSpace ==
  /\ \E n \in 0..Len(queue) :
       (n = 0 <=> queue = <<>>) /\ Reply("kSuccess", n, Front(n))
  /\ UNCHANGED <<queue, capacity>>

Discard(n) ==
  \/ n > Len(queue) /\ Refused("kErrorInvalidSize")
  \/ n <= Len(queue) /\ Drop(n) /\ Reply("kSuccess", n, <<>>)

(***************************************************************************)
(* Housekeeping.  Resizing loses nothing.                                  *)
(***************************************************************************)
Clear ==
  /\ queue' = <<>>
  /\ Reply("kSuccess", 0, <<>>)
  /\ UNCHANGED capacity

Resize(c) ==
  /\ Len(queue) <= c
  /\ capacity' = c
  /\ Reply("kSuccess", c, <<>>)
  /\ UNCHANGED queue

Next ==
  \/ \E s \in Transfers : Write(s) \/ Publish(s)
  \/ \E n \in Sizes : Read(n) \/ Peek(n) \/ Discard(n)
  \/ \E c \in Capacities : Resize(c)
  \/ WriteSpace \/ ReadSpace \/ Misfit \/ Clear

Spec == Init /\ [][Next]_vars
=============================================================================
