------------------------------- MODULE Handlers ------------------------------
(***************************************************************************)
(* net::TcpHandler and net::UdpHandler (include/net/transport/             *)
(* protocol_handler.hpp), with the sockets they read and the tasks they    *)
(* leave to the timer scheduler.  A peer's stream is a count of units of   *)
(* data; Ends tells where its packets end.  The ring of the handler's      *)
(* UnPacker holds the numbers of the units stored in it, and an iteration  *)
(* of a read loop is one step.  The event loop is in module Reactor.       *)
(***************************************************************************)
EXTENDS Integers, Sequences, SequencesExt

CONSTANTS
  Clients,       \* TCP peers
  UdpSockets,    \* UDP sockets, each with its handler
  Ends,          \* where the packets of each peer end
  Capacity,      \* the size of an unpacker's ring
  Paced,         \* clients that wait for a packet's callback (see MaySend)
  Throwing,      \* clients on whose data the size and check callbacks throw
  HeadOnly,      \* peers whose unpackers have a head key and no tail key
  LongKeys       \* peers whose unpackers have keys of more than one byte

Peers == Clients \cup UdpSockets

ASSUME HandlersAssumption ==
  /\ Clients \cap UdpSockets = {}
  /\ Ends \in [Peers -> SUBSET (Nat \ {0})]
  /\ Capacity \in Nat \ {0}
  /\ Paced \subseteq Clients /\ Throwing \subseteq Clients \ Paced
  /\ HeadOnly \subseteq Peers /\ LongKeys \subseteq Peers
  /\ HeadOnly \cap Throwing = {}

VARIABLES
  peer,          \* the far end: "absent", "open", "fin", or "reset" (an error is pending)
  sent,          \* units a peer has sent
  got,           \* units the handler has taken out of the socket
  handler,       \* the handler's members, and whether it exists
  tasks,         \* tasks handed to the scheduler that have not run
  delivered      \* what the callbacks of paced clients were given

handlerVars == <<peer, sent, got, handler, tasks, delivered>>

Unread(s) == sent[s] - got[s]

Alive(s) == handler[s].life = "live"

BufferFull(s) == Len(handler[s].ring) = Capacity

EmptyHandler(life, keys) ==
  [life |-> life, keys |-> keys, should_close |-> FALSE, ring |-> <<>>, packs_ |-> {}]

NewHandler(keys) == EmptyHandler("live", keys)
NoHandler == EmptyHandler("none", FALSE)
FreedHandler == EmptyHandler("freed", FALSE)

InitHandlers ==
  /\ peer = [s \in Peers |-> IF s \in UdpSockets THEN "open" ELSE "absent"]
  /\ sent = [s \in Peers |-> 0]
  /\ got = [s \in Peers |-> 0]
  /\ handler = [s \in Peers |-> NoHandler]
  /\ tasks = <<>>
  /\ delivered = [s \in Paced |-> <<>>]

-----------------------------------------------------------------------------
(***************************************************************************)
(* What UnPacker::Get cuts out of a ring.  The end of a packet is its tail *)
(* key; without one it is the head of the packet behind it, which has to   *)
(* be stored too (Lookahead).  With keys of one byte, as module UnPacker   *)
(* shows: nothing without keys or without the end of a packet; one packet  *)
(* that lies whole at the front is cut and committed; with anything ahead  *)
(* of it, or a second one behind it, any packets may be cut and any front  *)
(* be committed.  With longer keys FindKey misses and invents matches, so  *)
(* that this holds of every ring.                                          *)
(***************************************************************************)
Lookahead(s) == IF s \in HeadOnly THEN 1 ELSE 0

Complete(s, ring) ==
  {end \in Ends[s] : end + Lookahead(s) \in Range(ring) /\ ring[1] <= end}

NextEnds(s, from) ==
  {end \in Ends[s] : end > from /\ \A e \in Ends[s] : e <= from \/ e >= end}

(* How many units there are from the front of the ring up to end. *)
UpTo(ring, end) == end - ring[1] + 1

WholeAtFront(s, ring) ==
  {end \in Complete(s, ring) :
     /\ Complete(s, ring) = {end}
     /\ ring[1] - 1 \in Ends[s] \cup {0} /\ end \in NextEnds(s, ring[1] - 1)
     /\ UpTo(ring, end) + Lookahead(s) <= Len(ring)
     /\ \A i \in 1..UpTo(ring, end) + Lookahead(s) : ring[i] = ring[1] + i - 1}

Cut(packs, ring, n) == [packs |-> packs, ring |-> SubSeq(ring, n + 1, Len(ring))]

Cuts(s, ring) ==
  IF ~handler[s].keys THEN {Cut({}, ring, 0)}
  ELSE IF s \in LongKeys THEN {Cut(packs, ring, n) : packs \in SUBSET Ends[s], n \in 0..Len(ring)}
  ELSE IF Complete(s, ring) = {} THEN {Cut({}, ring, 0)}
  ELSE IF WholeAtFront(s, ring) # {}
       THEN {Cut({end}, ring, UpTo(ring, end)) : end \in WholeAtFront(s, ring)}
       ELSE {Cut(packs, ring, n) : packs \in SUBSET Complete(s, ring), n \in 0..Len(ring)}

(* Mutant for TypeOK: a write space that does not count what is stored. *)
LinearSpacesWhole(s) == 1..Capacity

(* The linear write space: it ends where the storage does, so that any     *)
(* part of the free space may be it.                                       *)
LinearSpaces(s) == 1..Capacity - Len(handler[s].ring)

Units(s, n) == [i \in 1..n |-> got[s] + i]

Task(s, packs) == [of |-> s, got |-> got'[s], packs |-> packs]

(* Get into packs_, which it clears first. *)
Parse(s, cut, close) ==
  handler' = [handler EXCEPT ![s].ring = cut.ring, ![s].packs_ = cut.packs,
                             ![s].should_close = @ \/ close]

-----------------------------------------------------------------------------
(* TcpHandler: an iteration that reads, and the one that ends the loop.    *)

(* Mutant for PacedGetEachPacketOnce: a task for every read, as for UDP. *)
TcpReadAlwaysScheduling(s) ==
  /\ ~BufferFull(s)
  /\ \E space \in LinearSpaces(s) : \E n \in {IF space < Unread(s) THEN space ELSE Unread(s)} :
       /\ n > 0
       /\ got' = [got EXCEPT ![s] = @ + n]
       /\ \E cut \in Cuts(s, handler[s].ring \o Units(s, n)) :
            /\ Parse(s, cut, FALSE)
            /\ tasks' = Append(tasks, Task(s, cut.packs))
  /\ UNCHANGED <<peer, sent, delivered>>

(* Mutant for PacedPacketIsDelivered: no task while another is pending. *)
TcpReadUnlessScheduled(s) ==
  /\ ~BufferFull(s)
  /\ \E space \in LinearSpaces(s) : \E n \in {IF space < Unread(s) THEN space ELSE Unread(s)} :
       /\ n > 0
       /\ got' = [got EXCEPT ![s] = @ + n]
       /\ \E cut \in Cuts(s, handler[s].ring \o Units(s, n)) :
            /\ Parse(s, cut, FALSE)
            /\ tasks' = IF cut.packs = {} \/ tasks # <<>> THEN tasks
                        ELSE Append(tasks, Task(s, cut.packs))
  /\ UNCHANGED <<peer, sent, delivered>>

TcpRead(s) ==
  /\ ~BufferFull(s)
  /\ \E space \in LinearSpaces(s) : \E n \in {IF space < Unread(s) THEN space ELSE Unread(s)} :
       /\ n > 0
       /\ got' = [got EXCEPT ![s] = @ + n]
       /\ \E cut \in Cuts(s, handler[s].ring \o Units(s, n)) :
            /\ Parse(s, cut, FALSE)
            /\ tasks' = IF cut.packs = {} THEN tasks ELSE Append(tasks, Task(s, cut.packs))
  /\ UNCHANGED <<peer, sent, delivered>>

(* Get calls the size and check callbacks, which throw. *)
TcpThrow(s) ==
  /\ s \in Throwing /\ handler[s].keys /\ ~BufferFull(s) /\ Unread(s) > 0
  /\ \E n \in 1..Unread(s) : n \in LinearSpaces(s) /\ got' = [got EXCEPT ![s] = @ + n]
  /\ UNCHANGED <<peer, sent, tasks, delivered>>

(* The search for a key of several bytes does not come back.               *)
TcpHang(s) ==
  /\ s \in LongKeys /\ handler[s].keys /\ ~BufferFull(s) /\ Unread(s) > 0
  /\ \E n \in 1..Unread(s) :
       /\ n \in LinearSpaces(s) /\ got' = [got EXCEPT ![s] = @ + n]
       /\ \E cut \in Cuts(s, handler[s].ring \o Units(s, n)) : Parse(s, cut, FALSE)
  /\ UNCHANGED <<peer, sent, tasks, delivered>>

(* Mutant for NothingForgotten: one read for one event. *)
TcpReadEndsEarly(s) ==
  /\ handler' = [handler EXCEPT ![s].should_close =
                    @ \/ (~BufferFull(s) /\ Unread(s) = 0 /\ peer[s] # "open")]
  /\ UNCHANGED <<peer, sent, got, tasks, delivered>>

(* Mutant for PacedTasksSeeTheirPackets: a loop that ends without packets. *)
TcpReadEndsClearing(s) ==
  /\ BufferFull(s) \/ Unread(s) = 0
  /\ handler' = [handler EXCEPT ![s].packs_ = {},
                                ![s].should_close = @ \/ (~BufferFull(s) /\ peer[s] # "open")]
  /\ UNCHANGED <<peer, sent, got, tasks, delivered>>

(* Mutant for ClosesWhenDrained: a full ring taken for the stream's end. *)
TcpReadEndsClosing(s) ==
  /\ BufferFull(s) \/ Unread(s) = 0
  /\ handler' = [handler EXCEPT ![s].should_close = @ \/ peer[s] # "open"]
  /\ UNCHANGED <<peer, sent, got, tasks, delivered>>

(* Mutant for DepartedIsClosed: the stream's end taken for EAGAIN. *)
TcpReadEndsKeeping(s) ==
  /\ BufferFull(s) \/ Unread(s) = 0
  /\ handler' = [handler EXCEPT ![s].should_close = @ \/ (~BufferFull(s) /\ peer[s] = "reset")]
  /\ UNCHANGED <<peer, sent, got, tasks, delivered>>

(* A full ring, no data (EAGAIN), the peer's end of the stream, or an error. *)
TcpReadEnds(s) ==
  /\ BufferFull(s) \/ Unread(s) = 0
  /\ handler' = [handler EXCEPT ![s].should_close = @ \/ (~BufferFull(s) /\ peer[s] # "open")]
  /\ UNCHANGED <<peer, sent, got, tasks, delivered>>

(***************************************************************************)
(* UdpHandler: recvfrom takes a whole datagram and drops what the space    *)
(* does not hold.  A task is scheduled whatever Get has cut.  An error     *)
(* falls through to a commit of -1, which is refused, and the loop goes on.*)
(***************************************************************************)
UdpRead(s) ==
  /\ ~BufferFull(s) /\ peer[s] # "reset" /\ Unread(s) > 0
  /\ \E end \in NextEnds(s, got[s]) :
       /\ got' = [got EXCEPT ![s] = end]
       /\ \E space \in LinearSpaces(s) : \E n \in {IF space < end - got[s] THEN space ELSE end - got[s]} :
            \E cut \in Cuts(s, handler[s].ring \o Units(s, n)) :
              /\ Parse(s, cut, FALSE)
              /\ tasks' = Append(tasks, Task(s, cut.packs))
  /\ UNCHANGED <<peer, sent, delivered>>

UdpError(s) ==
  /\ ~BufferFull(s) /\ peer[s] = "reset"
  /\ peer' = [peer EXCEPT ![s] = "open"]
  /\ UNCHANGED got
  /\ \E cut \in Cuts(s, handler[s].ring) :
       /\ Parse(s, cut, TRUE)
       /\ tasks' = Append(tasks, Task(s, cut.packs))
  /\ UNCHANGED <<sent, delivered>>

UdpHang(s) ==
  /\ s \in LongKeys /\ handler[s].keys /\ ~BufferFull(s)
  /\ \/ /\ peer[s] # "reset" /\ Unread(s) > 0 /\ UNCHANGED peer
        /\ \E end \in NextEnds(s, got[s]) :
             /\ got' = [got EXCEPT ![s] = end]
             /\ \E n \in 1..end - got[s] : \E cut \in Cuts(s, handler[s].ring \o Units(s, n)) :
                  n \in LinearSpaces(s) /\ Parse(s, cut, FALSE)
     \/ /\ peer[s] = "reset" /\ peer' = [peer EXCEPT ![s] = "open"] /\ UNCHANGED got
        /\ \E cut \in Cuts(s, handler[s].ring) : Parse(s, cut, TRUE)
  /\ UNCHANGED <<sent, tasks, delivered>>

UdpReadEnds(s) ==
  /\ BufferFull(s) \/ (peer[s] # "reset" /\ Unread(s) = 0)
  /\ UNCHANGED handlerVars

-----------------------------------------------------------------------------
(* A pool thread runs a task: the callback reads packs_ of the handler the *)
(* task points to.  Once that handler is freed, it reads anything.         *)
SeesItsPackets(t) ==
  Alive(t.of) /\ got[t.of] = t.got /\ handler[t.of].packs_ = t.packs

RunTask(i) ==
  LET s == tasks[i].of
  IN  /\ tasks' = RemoveAt(tasks, i)
      /\ \E packs \in IF Alive(s) THEN {handler[s].packs_} ELSE SUBSET Ends[s] :
           delivered' = IF s \in Paced THEN [delivered EXCEPT ![s] = Append(@, packs)]
                                       ELSE delivered
      /\ UNCHANGED <<peer, sent, got, handler>>

-----------------------------------------------------------------------------
(***************************************************************************)
(* The peers.  A paced client sends nothing more, and does not leave, once *)
(* it has sent what a packet is cut by (its end, or the head behind it)    *)
(* and until the callback has had that packet.                             *)
(***************************************************************************)
Delivered(s, end) == \E i \in 1..Len(delivered[s]) : end \in delivered[s][i]

MaySend(s) ==
  s \in Paced => \A end \in Ends[s] : end + Lookahead(s) <= sent[s] => Delivered(s, end)

SendStream(s) ==
  /\ peer[s] = "open" /\ handler[s].life # "freed"
  /\ \E end \in NextEnds(s, sent[s]) :
       sent' = [sent EXCEPT ![s] = IF s \in Clients THEN @ + 1 ELSE end]
  /\ MaySend(s)
  /\ UNCHANGED <<peer, got, handler, tasks, delivered>>

(* A client shuts its end or is cut off; an error is left at a UDP socket  *)
(* (bound: not a second one before the first has closed it).               *)
Leave(s, how) ==
  /\ peer[s] = "open" /\ handler[s].life # "freed"
  /\ MaySend(s)
  /\ s \in UdpSockets => how = "reset" /\ ~handler[s].should_close
  /\ peer' = [peer EXCEPT ![s] = how]
  /\ UNCHANGED <<sent, got, handler, tasks, delivered>>

-----------------------------------------------------------------------------
HandlerRecords ==
  [life : {"none", "live", "freed"}, keys : BOOLEAN, should_close : BOOLEAN,
   ring : Seq(Nat), packs_ : SUBSET Nat]

HandlersTypeOK ==
  /\ peer \in [Peers -> {"absent", "open", "fin", "reset"}]
  /\ sent \in [Peers -> Nat] /\ got \in [Peers -> Nat]
  /\ handler \in [Peers -> HandlerRecords]
  /\ \A s \in Peers :
       /\ got[s] <= sent[s]
       /\ s \in UdpSockets => sent[s] \in Ends[s] \cup {0}
       /\ Len(handler[s].ring) <= Capacity /\ Range(handler[s].ring) \subseteq 1..got[s]
       /\ handler[s].packs_ \subseteq Ends[s]
=============================================================================
