------------------------------- MODULE UnPacker ------------------------------
(***************************************************************************)
(* containers::UnPacker (include/containers/unpacker.hpp): a RingBuffer    *)
(* out of which packets are cut between a head key and the next head key,  *)
(* a head and a tail key, or by the length the packet itself states.  One  *)
(* call pushes bytes and runs the parsing loop over what is stored; the    *)
(* loop's iterations are steps, since each commits its packet and leaves   *)
(* the offsets of the next one behind.  An unpacker is used by one thread  *)
(* (the reactor's), as the loop reads the storage without the lock.        *)
(***************************************************************************)
EXTENDS RingBuffer

CONSTANTS
  Formats        \* the keys and callbacks an unpacker is created with

(* A byte is a number: the packet's length may be one. *)
ASSUME UnPackerAssumption ==
  /\ Byte \subseteq Nat
  /\ Formats \subseteq [head : Seq(Byte), tail : Seq(Byte), callbacks : BOOLEAN]

VARIABLES
  format,        \* head_key_, tail_key_, and whether there are callbacks
  read_data,     \* the packets of the last call
  parse,         \* the parsing loop: its place, current_pos and total_size
  paced          \* whether the peer waits for a packet to be cut (see PacedStream)

unpackerVars == <<vars, format, read_data, parse, paced>>

head_key_ == format.head
tail_key_ == format.tail

unpacker_model_ ==
  IF head_key_ = <<>> THEN "kNone"
  ELSE IF tail_key_ = <<>> THEN "kHead"
  ELSE IF format.callbacks THEN "KHeadTailCb" ELSE "kHeadTail"

OneByteKeys == Len(head_key_) = 1 /\ Len(tail_key_) <= 1

Idle == [at |-> "idle", current_pos |-> 0, total_size |-> 0]

InitUnPacker ==
  /\ Init
  /\ format \in Formats
  /\ read_data = <<>>
  /\ parse = Idle
  /\ paced \in {FALSE, OneByteKeys}

-----------------------------------------------------------------------------
(***************************************************************************)
(* FindKey.  The scan covers the stored bytes up to the end of the storage *)
(* and then those at its start, so that a key that straddles the two is    *)
(* not seen.  With fewer bytes in the first part than in the key,          *)
(* part1_size - key_len wraps around to a huge bound: the scan goes round  *)
(* the whole storage, past what is stored, until it meets the key, or for  *)
(* ever.                                                                   *)
(***************************************************************************)
NotFound == size
Never    == -1

MatchAt(key, at) == \A j \in 1..Len(key) : buffer_[(at + j - 1) % size] = key[j]

LeastOf(S) == CHOOSE i \in S : \A j \in S : i <= j

FindKeyForgettingPart1(key, start_offset) ==
  LET abs_start == (read_index_ + start_offset) % size
      part1 == Lesser(size - abs_start, length_ - start_offset)
      part2 == length_ - start_offset - part1
      found1 == {i \in 0 .. IF part1 < Len(key) THEN size - 1 ELSE part1 - Len(key) :
                   MatchAt(key, abs_start + i)}
      found2 == {i \in 0 .. part2 - Len(key) : MatchAt(key, i)}
  IN  IF key = <<>> \/ Len(key) > length_ \/ start_offset >= length_ THEN NotFound
      ELSE IF found1 # {} THEN start_offset + LeastOf(found1)
      ELSE IF part1 < Len(key) THEN Never
      ELSE IF found2 # {} THEN start_offset + LeastOf(found2)
      ELSE NotFound

FindKey(key, start_offset) ==
  LET abs_start == (read_index_ + start_offset) % size
      part1 == Lesser(size - abs_start, length_ - start_offset)
      part2 == length_ - start_offset - part1
      found1 == {i \in 0 .. IF part1 < Len(key) THEN size - 1 ELSE part1 - Len(key) :
                   MatchAt(key, abs_start + i)}
      found2 == {i \in 0 .. part2 - Len(key) : MatchAt(key, i)}
  IN  IF key = <<>> \/ Len(key) > length_ \/ start_offset >= length_ THEN NotFound
      ELSE IF found1 # {} THEN start_offset + LeastOf(found1)
      ELSE IF part1 < Len(key) THEN Never
      ELSE IF found2 # {} THEN start_offset + part1 + LeastOf(found2)
      ELSE NotFound

(***************************************************************************)
(* The two memcpy calls that cut a packet.  An end that FindKey made up    *)
(* may lie so far off that the second one leaves the storage: what is past *)
(* its end is anything.                                                    *)
(***************************************************************************)
PacketsAtRepeatingSeam(offset, n) ==
  LET abs_head == (read_index_ + offset) % size
      part1 == Lesser(n, size - abs_head)
      cut(past) == [j \in 1..n |-> IF j <= part1 THEN buffer_[abs_head + j - 1]
                                   ELSE IF j <= size THEN buffer_[j - 1]
                                   ELSE past]
  IN  {cut(past) : past \in IF n <= size THEN {Zero} ELSE Byte}

PacketsAt(offset, n) ==
  LET abs_head == (read_index_ + offset) % size
      part1 == Lesser(n, size - abs_head)
      cut(past) == [j \in 1..n |-> IF j <= part1 THEN buffer_[abs_head + j - 1]
                                   ELSE IF j <= part1 + size THEN buffer_[j - part1 - 1]
                                   ELSE past]
  IN  {cut(past) : past \in IF n - part1 <= size THEN {Zero} ELSE Byte}

-----------------------------------------------------------------------------
(***************************************************************************)
(* A peer that waits: it sends whole packets and nothing else, and does    *)
(* not complete a second one while the first is still stored.  Its keys    *)
(* are single bytes that occur nowhere else in a packet.                   *)
(***************************************************************************)
Body(s, from, to) ==
  \A i \in from..to : s[i] # head_key_[1] /\ tail_key_ # <<s[i]>>

IsStart(s) ==
  /\ s # <<>> /\ s[1] = head_key_[1]
  /\ IF format.callbacks THEN Len(s) >= 2 => s[2] # head_key_[1]
                         ELSE Body(s, 2, Len(s) - 1)

IsPacket(s) ==
  /\ IsStart(s)
  /\ format.callbacks =>
       Len(s) >= 3 /\ Len(s) = s[2] + 3 /\ Body(s, 3, Len(s) - 1)
  /\ IF tail_key_ = <<>> THEN Body(s, 2, Len(s)) ELSE s[Len(s)] = tail_key_[1]

IsPart(s) ==
  s # <<>> =>
    /\ IsStart(s)
    /\ IF format.callbacks
       THEN Len(s) >= 2 => Len(s) < s[2] + 3 /\ Body(s, 3, Len(s))
       ELSE Body(s, 2, Len(s))

PacedStream(s) ==
  \E k \in 0..Len(s) :
    /\ k = 0 \/ IsPacket(SubSeq(s, 1, k))
    /\ IsPart(SubSeq(s, k + 1, Len(s)))

Paced(w) == paced => PacedStream(Contents \o w)

-----------------------------------------------------------------------------
(* The two calls.  PushAndGet does not look at Write's answer; without keys *)
(* GetPack refuses.                                                         *)
GetPack ==
  /\ read_data' = <<>>
  /\ parse' = IF unpacker_model_ = "kNone" THEN Idle
              ELSE [at |-> "parsing", current_pos |-> 0, total_size |-> length_']
  /\ UNCHANGED <<format, paced>>

PushAndGet(w) ==
  /\ parse = Idle
  /\ Write(w)
  /\ GetPack

Get ==
  /\ parse = Idle
  /\ UNCHANGED vars
  /\ GetPack

-----------------------------------------------------------------------------
(***************************************************************************)
(* An iteration of the three loops.  A packet runs from a head key to the  *)
(* next one, to the end of the next tail key, or as far as it states.      *)
(***************************************************************************)
Parsing == parse.at = "parsing" /\ parse.current_pos < parse.total_size

Continue(pos) == parse' = [parse EXCEPT !.current_pos = pos]

(* Commits the packet and goes on after where it was. *)
Extract(head_offset, packet_size) ==
  /\ \E packet \in PacketsAt(head_offset, packet_size) :
       read_data' = Append(read_data, packet)
  /\ Continue(head_offset + packet_size)
  /\ CommitReadSize(packet_size)
  /\ UNCHANGED <<format, paced>>

StopParsingInPlace ==
  /\ parse' = [parse EXCEPT !.at = "idle"]
  /\ UNCHANGED <<vars, format, read_data, paced>>

StopParsing ==
  /\ parse' = Idle
  /\ UNCHANGED <<vars, format, read_data, paced>>

(* FindKey does not return. *)
Hang ==
  /\ parse' = [parse EXCEPT !.at = "hung"]
  /\ UNCHANGED <<vars, format, read_data, paced>>

EndOffsetFromHead(head_offset) ==
  FindKey(IF unpacker_model_ = "kHead" THEN head_key_ ELSE tail_key_, head_offset)

EndOffset(head_offset) ==
  FindKey(IF unpacker_model_ = "kHead" THEN head_key_ ELSE tail_key_,
          head_offset + Len(head_key_))

ExtractKeyed(head_offset) ==
  /\ unpacker_model_ \in {"kHead", "kHeadTail"}
  /\ \E end_offset \in {EndOffset(head_offset)} :
       \/ end_offset = NotFound /\ StopParsing
       \/ end_offset = Never /\ Hang
       \/ /\ end_offset \notin {NotFound, Never}
          /\ Extract(head_offset,
                     IF unpacker_model_ = "kHead" THEN end_offset - head_offset
                     ELSE end_offset + Len(tail_key_) - head_offset)

(***************************************************************************)
(* The data_sz_cb_ of the unit test: a length byte after the head key, and *)
(* then that many bytes.  It is read through a pointer into the storage:   *)
(* past its end it may be anything.  So may the answer of check_sz_cb_.    *)
(***************************************************************************)
StatedLengths(head_offset) ==
  LET at == ((read_index_ + head_offset) % size) + Len(head_key_)
  IN  IF at < size THEN {buffer_[at]} ELSE Byte

HeadSize == Len(head_key_) + 1

PacketSize(data_size) == HeadSize + data_size + Len(tail_key_)

RetryHead(head_offset) ==
  /\ Continue(head_offset)
  /\ UNCHANGED <<vars, format, read_data, paced>>

SkipHead(head_offset) ==
  /\ Continue(head_offset + 1)
  /\ UNCHANGED <<vars, format, read_data, paced>>

ExtractStated(head_offset) ==
  /\ unpacker_model_ = "KHeadTailCb"
  /\ \E data_size \in StatedLengths(head_offset) :
       LET expected_tail_offset == head_offset + HeadSize + data_size
           tail_offset == FindKey(tail_key_, expected_tail_offset)
       IN  \/ /\ head_offset + PacketSize(data_size) > parse.total_size
              /\ SkipHead(head_offset)
           \/ /\ head_offset + PacketSize(data_size) <= parse.total_size
              /\ \/ tail_offset = Never /\ Hang
                 \/ tail_offset # Never /\ SkipHead(head_offset)
                 \/ /\ tail_offset = expected_tail_offset
                    /\ Extract(head_offset, PacketSize(data_size))

Iterate ==
  \/ parse.at = "parsing" /\ ~Parsing /\ StopParsing
  \/ /\ Parsing
     /\ \E head_offset \in {FindKey(head_key_, parse.current_pos)} :
          \/ head_offset = NotFound /\ StopParsing
          \/ head_offset = Never /\ Hang
          \/ /\ head_offset \notin {NotFound, Never}
             /\ ExtractKeyed(head_offset) \/ ExtractStated(head_offset)

ScanOn == parse.at = "hung" /\ UNCHANGED unpackerVars

NextUnPacker ==
  \/ \E w \in Transfers : Paced(w) /\ PushAndGet(w)
  \/ Get
  \/ Iterate \/ ScanOn

(* The thread keeps running; nobody need push. *)
SpecUnPacker ==
  InitUnPacker /\ [][NextUnPacker]_unpackerVars /\ WF_unpackerVars(Iterate)

-----------------------------------------------------------------------------
UnPackerTypeOK ==
  /\ TypeOK
  /\ format \in Formats
  /\ read_data \in Seq(Seq(Byte))
  /\ parse \in [at : {"idle", "parsing", "hung"}, current_pos : Nat, total_size : 0..size]
  /\ parse.at = "idle" <=> parse = Idle

StartsWith(s, key) == Len(s) >= Len(key) /\ SubSeq(s, 1, Len(key)) = key

EndsWith(s, key) ==
  Len(s) >= Len(key) /\ SubSeq(s, Len(s) - Len(key) + 1, Len(s)) = key

(***************************************************************************)
(* Whatever was sent, wherever it wraps around, a packet that is handed    *)
(* out starts with the head key; and it ends with the tail key when the    *)
(* keys are single bytes, and for keys of any length when the packet       *)
(* states its length, as the tail is then looked for where it has to be.   *)
(***************************************************************************)
PacketsAreFramed ==
  \A i \in 1..Len(read_data) :
    /\ StartsWith(read_data[i], head_key_)
    /\ OneByteKeys \/ format.callbacks => EndsWith(read_data[i], tail_key_)

(***************************************************************************)
(* FindKey against what it is to compute: the first offset from            *)
(* start_offset on at which the stored bytes s hold the key.               *)
(***************************************************************************)
FirstOccurrence(key, s, start_offset) ==
  LET found == {i \in start_offset .. Len(s) - Len(key) :
                  \A j \in 1..Len(key) : s[i + j] = key[j]}
  IN  IF found = {} THEN NotFound ELSE LeastOf(found)

(* A key of one byte is found wherever the data wraps around. *)
FindKeyFindsOneByte ==
  LET stored == Contents
  IN  \A b \in Byte : \A start \in 0..length_ :
        FindKey(<<b>>, start) = FirstOccurrence(<<b>>, stored, start)

(***************************************************************************)
(* A peer that waits gets what it sent: the packet that is cut is the one  *)
(* that is committed, from its first byte to its last.                     *)
(***************************************************************************)
Cuts == Len(read_data') = Len(read_data) + 1

CutIsCommitted == Cuts => Contents = read_data'[Len(read_data')] \o Contents'

PacedCutsAreCommitted == [][paced => CutIsCommitted]_unpackerVars

(* With keys of one byte a call returns, whatever was sent. *)
CallReturns == parse.at = "parsing" /\ OneByteKeys ~> parse.at = "idle"

-----------------------------------------------------------------------------
(* unpacker.hpp:145: FindKey answers the relative position of the key, or    *)
(* the size of the buffer when it is not there.                              *)
FindKeyFinds ==
  LET stored == Contents
  IN  \A key \in {head_key_, tail_key_} \ {<<>>} : \A start \in 0..length_ :
        FindKey(key, start) = FirstOccurrence(key, stored, start)

(* unpacker.hpp:240 and 287: the packet that was cut is committed.           *)
CutsAreCommitted == [][CutIsCommitted]_unpackerVars
=============================================================================
