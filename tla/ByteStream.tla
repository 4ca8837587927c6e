------------------------------ MODULE ByteStream -----------------------------
(***************************************************************************)
(* containers::ByteStream (include/containers/byte_stream.hpp and          *)
(* src/containers/byte_stream.cpp) over the ring, and the ring's templates *)
(* for vectors of elements wider than a byte that it uses.  Its operators  *)
(* drop the answers of Write and Read.  The history variables follow a     *)
(* reader who takes out, with the same types, what went in.                *)
(***************************************************************************)
EXTENDS RingBuffer

CONSTANTS
  Widths,        \* the sizes of the elements of vectors
  MaxElements    \* bound: elements in the stream

ASSUME ByteStreamAssumption ==
  /\ Widths \subseteq Nat \ {0}
  /\ MaxElements \in Nat

VARIABLES
  elements,      \* history: what << put in and >> has not taken out
  in_step,       \* history: the reader kept to the types
  torn           \* history: the last call moved a wide vector across the seam

streamVars == <<vars, elements, in_step, torn>>

StreamInit == Init /\ elements = <<>> /\ in_step = TRUE /\ torn = FALSE

-----------------------------------------------------------------------------
(***************************************************************************)
(* Write and Read of vectors of width-byte elements.  Behind the seam they *)
(* advance the vector's pointer by first_chunk elements when writing, by   *)
(* whole elements when reading: right for bytes, and for wide elements     *)
(* only where StraightIn or StraightOut holds.  Elsewhere Write goes on    *)
(* past the end of the vector, and Read lays the second chunk over the     *)
(* first and leaves the vector's last bytes as they were: bytes that the   *)
(* ring does not determine, and that may be any.                           *)
(***************************************************************************)
StraightIn(n, width)  == width = 1 \/ n <= size - write_index_

StraightOut(n, width) == n <= size - read_index_ \/ (size - read_index_) % width = 0

(* Mutant for StreamImplementsByteQueue: the second chunk starts where the *)
(* first one did.                                                          *)
CopiesInElementsRepeating(w, width) == {CopyInRepeatingSeam(w)}

CopiesInElements(w, width) ==
  LET first  == Lesser(Len(w), size - write_index_)
      beyond == IF first < Len(w) THEN first * (width - 1) ELSE 0
  IN  {[i \in 0..size-1 |->
          IF i < Len(w) - first THEN (w \o past)[first * width + i + 1]
          ELSE IF i \in write_index_ .. write_index_ + first - 1
               THEN w[i - write_index_ + 1]
               ELSE buffer_[i]] : past \in [1..beyond -> Byte]}

Crossing(straight) == torn' = (ret'.code = "kSuccess" /\ ~straight)

WriteVector(w, width) ==
  /\ \/ w = <<>> /\ Refused("kErrorEmpty")
     \/ w # <<>> /\ Len(w) > AvailableToWrite /\ Refused("kErrorFull")
     \/ /\ w # <<>> /\ Len(w) <= AvailableToWrite
        /\ buffer_' \in CopiesInElements(w, width)
        /\ AdvanceWrite(Len(w))
        /\ Reply("kSuccess", Len(w), w)
  /\ Crossing(StraightIn(Len(w), width))

CopiesOutElements(n, width) ==
  LET first  == Lesser(n, size - read_index_)
      second == width * (first \div width)
  IN  {[j \in 1..n |->
          IF j > second /\ j <= second + n - first THEN buffer_[j - second - 1]
          ELSE IF j <= first THEN buffer_[read_index_ + j - 1]
               ELSE old[j]] : old \in [first+1..n -> Byte]}

(* Mutant for RoundTrip: the reader's index moves by elements. *)
ReadVectorByElements(room, n, width) ==
  /\ n # 0 /\ n % width = 0 /\ room >= n /\ n <= AvailableToRead
  /\ AdvanceRead(n \div width)
  /\ \E bytes \in CopiesOutElements(n, width) : Reply("kSuccess", n, bytes)
  /\ Crossing(StraightOut(n, width))

(* room: the bytes of the vector that is read into. *)
ReadVector(room, n, width) ==
  /\ \/ n = 0 /\ Refused("kErrorEmpty")
     \/ n # 0 /\ (n % width # 0 \/ room < n) /\ Refused("kErrorInvalidSize")
     \/ n # 0 /\ n % width = 0 /\ room >= n /\ n > AvailableToRead /\ Refused("kErrorFull")
     \/ /\ n # 0 /\ n % width = 0 /\ room >= n /\ n <= AvailableToRead
        /\ AdvanceRead(n)
        /\ \E bytes \in CopiesOutElements(n, width) : Reply("kSuccess", n, bytes)
  /\ Crossing(StraightOut(n, width))

-----------------------------------------------------------------------------
(* operator<<, of a value or a string, and of a vector.                    *)

(* What is empty or finds no room leaves no trace, and nobody is told.     *)
Given(w, width) ==
  /\ elements' = IF in_step /\ ret'.code = "kSuccess"
                 THEN Append(elements, [bytes |-> w, width |-> width, torn |-> torn'])
                 ELSE elements
  /\ Len(elements') <= MaxElements
  /\ UNCHANGED in_step

InsertBytes(w) == Write(w) /\ torn' = FALSE /\ Given(w, 1)

InsertVector(w, width) ==
  /\ Len(w) % width = 0
  /\ WriteVector(w, width)
  /\ Given(w, width)

(* operator>>, which asks for n bytes. *)

Fits(n, width, e) == n = Len(e.bytes) /\ width = e.width

Asked(n, width) ==
  /\ in_step' = (in_step /\ (n = 0 \/ (elements # <<>> /\ Fits(n, width, Head(elements)))))
  /\ elements' = IF ~in_step' THEN <<>> ELSE IF n = 0 THEN elements ELSE Tail(elements)

ExtractBytes(n) == Read(n) /\ torn' = FALSE /\ Asked(n, 1)

ExtractVector(n, width) ==
  /\ n % width = 0
  /\ ReadVector(n, n, width)
  /\ Asked(n, width)

(* The ring's own calls: what changes the bytes loses the reader.          *)
Direct ==
  /\ \/ Next /\ torn' = FALSE
     \/ \E w \in Transfers, width \in Widths : Len(w) % width = 0 /\ WriteVector(w, width)
     \/ \E n, room \in Sizes, width \in Widths : ReadVector(room, n, width)
  /\ in_step' = (in_step /\ Contents' = Contents)
  /\ elements' = IF in_step' THEN elements ELSE <<>>

StreamNext ==
  \/ \E w \in Transfers : InsertBytes(w)
  \/ \E w \in Transfers, width \in Widths : InsertVector(w, width)
  \/ \E n \in Sizes : ExtractBytes(n)
  \/ \E n \in Sizes, width \in Widths : ExtractVector(n, width)
  \/ Direct

StreamSpec == StreamInit /\ [][StreamNext]_streamVars

-----------------------------------------------------------------------------
(* What a torn call still does: as many bytes as it says enter the queue   *)
(* at its back or leave it at its front, and the others are left alone.    *)
Garbles ==
  /\ torn' /\ ret'.code = "kSuccess" /\ UNCHANGED size
  /\ \/ \E s \in Transfers : Len(s) = ret'.n /\ Contents' = Contents \o s
     \/ Contents' = SubSeq(Contents, ret'.n + 1, Len(Contents))

(***************************************************************************)
(* The typed calls make a bounded FIFO queue of bytes too, except that a   *)
(* wide vector that lies across the seam enters or leaves with other bytes *)
(* than its own.  It damages itself and nothing else: the stored bytes     *)
(* around it keep their values and their places.                           *)
(***************************************************************************)
StreamImplementsByteQueue == BQ!Init /\ [][BQ!Next \/ Garbles]_BQ!vars

(* An element that is taken out in step is the one that went in. *)
Returned(e) == ret'.code = "kSuccess" /\ ret'.bytes = e.bytes

(***************************************************************************)
(* What went in element by element comes out element by element, values,   *)
(* strings and vectors mixed and whatever was refused in between; only a   *)
(* wide vector that lay across the seam when it went in, or lies across it *)
(* now, may come out with other bytes (which is not what >> is documented  *)
(* to do) - as many, so that the reader stays in step and the elements     *)
(* behind it come out as they went in.                                     *)
(***************************************************************************)
RoundTrip ==
  [][in_step' /\ Len(elements') < Len(elements) =>
       /\ ret'.code = "kSuccess" /\ ret'.n = Len(Head(elements).bytes)
       /\ Head(elements).torn \/ torn' \/ Returned(Head(elements))]_streamVars
=============================================================================
