---------------------------- MODULE ReactorProofs ----------------------------
(***************************************************************************)
(* What is proved of the reactor and its handlers for any sets of clients, *)
(* UDP sockets and descriptors.                                            *)
(***************************************************************************)
EXTENDS Reactor, SequenceTheorems, TLAPS

SameLives == \A s \in Peers : handler'[s].life = handler[s].life

-----------------------------------------------------------------------------
(***************************************************************************)
(* The inductive invariant.  Besides the properties it keeps:              *)
(* a client nobody has accepted has no descriptor; while the owner binds a *)
(* socket it is the only one not registered; outside the events of a batch *)
(* none are left; what is read is a handler's, not the listener's.         *)
(***************************************************************************)
Strangers ==
  /\ \A c \in backlog : peer[c] # "absent"
  /\ \A c \in Clients : (c \in backlog \/ peer[c] = "absent") => \A fd \in Fds : file[fd] # c

OneCreated ==
  at \in {"bind", "bound"} =>
    \A fd, fe \in Fds \ Registered : file[fd] # NoSocket /\ file[fe] # NoSocket => fd = fe

BatchEmpty ==
  at \in {"setup", "bind", "bound", "loop", "wait", "returned", "thrown", "destroyed"} => events = {}

Dispatched == at \in {"read", "check"} => ev.fd \in Registered \ listeners_

IInv ==
  /\ TypeOK /\ DescriptorsAgree /\ EventsAreFresh
  /\ Strangers /\ OneCreated /\ BatchEmpty /\ Dispatched

-----------------------------------------------------------------------------
(* The handlers' types. *)

LEMMA LookaheadNat ==
  ASSUME NEW s
  PROVE  Lookahead(s) \in Nat
BY DEF Lookahead

(* The cut of a packet that lies whole at the front.                         *)
LEMMA WholeCut ==
  ASSUME NEW s, NEW ring, NEW cut \in Cuts(s, ring),
         handler[s].keys, s \notin LongKeys, Complete(s, ring) # {}, WholeAtFront(s, ring) # {}
  PROVE  \E end \in WholeAtFront(s, ring) : cut = Cut({end}, ring, UpTo(ring, end))
<1>1. cut \in {Cut({end}, ring, UpTo(ring, end)) : end \in WholeAtFront(s, ring)}
  BY DEF Cuts
<1> QED BY <1>1

(* What Get leaves in a ring is some end of it.                              *)
LEMMA CutTypes ==
  ASSUME NEW s \in Peers, NEW ring \in Seq(Nat), NEW hi \in Nat,
         Range(ring) \subseteq 1..hi, NEW cut \in Cuts(s, ring)
  PROVE  /\ cut.ring \in Seq(Nat) /\ Len(cut.ring) <= Len(ring)
         /\ Range(cut.ring) \subseteq 1..hi
         /\ cut.packs \subseteq Ends[s]
<1>1. ASSUME NEW packs, packs \subseteq Ends[s], NEW n \in 0..Len(ring), cut = Cut(packs, ring, n)
      PROVE  /\ cut.ring \in Seq(Nat) /\ Len(cut.ring) <= Len(ring)
             /\ Range(cut.ring) \subseteq 1..hi
             /\ cut.packs \subseteq Ends[s]
  <2>1. cut.packs = packs /\ cut.ring = SubSeq(ring, n + 1, Len(ring))
    BY <1>1 DEF Cut
  <2>2. /\ Len(ring) \in Nat /\ n \in Nat
        /\ \A i \in n + 1 .. Len(ring) : ring[i] \in Nat /\ ring[i] \in 1..hi
    BY DEF Range
  <2>3. /\ cut.ring \in Seq(Nat)
        /\ Len(cut.ring) = Len(ring) - n
        /\ \A i \in 1..Len(ring) - n : cut.ring[i] = ring[i + n]
    <3> DEFINE rest == SubSeq(ring, n + 1, Len(ring))
    <3>1. n + 1 \in Int /\ Len(ring) \in Int /\ \A i \in n + 1 .. Len(ring) : ring[i] \in Nat
      BY <2>2
    <3>2. /\ rest \in Seq(Nat)
          /\ Len(rest) = IF n + 1 <= Len(ring) THEN Len(ring) - (n + 1) + 1 ELSE 0
          /\ \A i \in 1 .. Len(ring) - (n + 1) + 1 : rest[i] = ring[n + 1 + i - 1]
      BY <3>1, SubSeqProperties
    <3>3. cut.ring = rest
      BY <2>1
    <3> HIDE DEF rest
    <3>4. Len(rest) = Len(ring) - n
      BY <2>2, <3>2
    <3>5. ASSUME NEW i \in 1..Len(ring) - n PROVE rest[i] = ring[i + n]
      <4>1. i \in 1 .. Len(ring) - (n + 1) + 1 /\ n + 1 + i - 1 = i + n
        BY <2>2
      <4> QED BY <3>2, <4>1
    <3> QED BY <3>2, <3>3, <3>4, <3>5
  <2>4. ASSUME NEW i \in 1..Len(cut.ring) PROVE cut.ring[i] \in 1..hi
    <3>1. i + n \in n + 1 .. Len(ring)
      BY <2>2, <2>3
    <3>2. i \in 1..Len(ring) - n
      BY <2>3
    <3> QED BY <2>2, <2>3, <3>1, <3>2
  <2> QED BY <1>1, <2>1, <2>2, <2>3, <2>4 DEF Range
<1>2. CASE ~handler[s].keys \/ (s \notin LongKeys /\ Complete(s, ring) = {})
  <2>1. cut = Cut({}, ring, 0)
    BY <1>2 DEF Cuts
  <2>2. {} \subseteq Ends[s] /\ 0 \in 0..Len(ring)
    OBVIOUS
  <2> QED BY <1>1, <2>1, <2>2
<1>3. CASE handler[s].keys /\ s \notin LongKeys /\ Complete(s, ring) # {} /\ WholeAtFront(s, ring) # {}
  <2>1. PICK end \in WholeAtFront(s, ring) : cut = Cut({end}, ring, UpTo(ring, end))
    BY <1>3, WholeCut
  <2>2. /\ end \in Ends[s] /\ end + Lookahead(s) \in Range(ring) /\ ring[1] <= end
        /\ UpTo(ring, end) + Lookahead(s) <= Len(ring)
    BY DEF WholeAtFront, Complete
  <2>3. ring[1] \in Nat /\ end \in Nat /\ Len(ring) \in Nat
    <3>1. end \in Nat
      BY <2>2, HandlersAssumption
    <3>2. 1 \in DOMAIN ring
      BY <2>2 DEF Range
    <3> QED BY <3>1, <3>2
  <2>4. UpTo(ring, end) \in 0..Len(ring)
    <3>1. UpTo(ring, end) \in Nat
      BY <2>2, <2>3 DEF UpTo
    <3> HIDE DEF UpTo
    <3> QED BY <2>2, <2>3, <3>1, LookaheadNat
  <2> QED BY <1>1, <2>1, <2>2, <2>4
<1>4. CASE handler[s].keys /\ s \in LongKeys
  <2>1. PICK packs \in SUBSET Ends[s], n \in 0..Len(ring) : cut = Cut(packs, ring, n)
    BY <1>4 DEF Cuts
  <2> QED BY <1>1, <2>1
<1>5. CASE handler[s].keys /\ s \notin LongKeys /\ Complete(s, ring) # {} /\ WholeAtFront(s, ring) = {}
  <2>1. PICK packs \in SUBSET Complete(s, ring), n \in 0..Len(ring) : cut = Cut(packs, ring, n)
    BY <1>5 DEF Cuts
  <2> QED BY <1>1, <2>1 DEF Complete
<1> QED BY <1>2, <1>3, <1>4, <1>5

(* What a read puts behind the stored units.                                 *)
LEMMA ReadExtends ==
  ASSUME HandlersTypeOK, NEW s \in Peers, NEW n \in Nat
  PROVE  /\ handler[s].ring \o Units(s, n) \in Seq(Nat)
         /\ Len(handler[s].ring \o Units(s, n)) = Len(handler[s].ring) + n
         /\ Range(handler[s].ring \o Units(s, n)) \subseteq 1..got[s] + n
<1>1. /\ handler[s].ring \in Seq(Nat) /\ got[s] \in Nat
      /\ Range(handler[s].ring) \subseteq 1..got[s]
  BY DEF HandlersTypeOK, HandlerRecords
<1>2. Units(s, n) \in Seq(Nat) /\ Len(Units(s, n)) = n
      /\ \A i \in 1..n : Units(s, n)[i] = got[s] + i
  BY <1>1 DEF Units
<1> DEFINE r == handler[s].ring
           u == Units(s, n)
<1>3. /\ r \o u \in Seq(Nat) /\ Len(r \o u) = Len(r) + n
      /\ \A i \in 1..Len(r) + n : (r \o u)[i] = IF i <= Len(r) THEN r[i] ELSE u[i - Len(r)]
  <2>1. r \in Seq(Nat) /\ u \in Seq(Nat) /\ Len(u) = n
    BY <1>1, <1>2
  <2> HIDE DEF r, u
  <2> QED BY <2>1, ConcatProperties
<1>4. \A i \in 1..Len(r) + n : (r \o u)[i] \in 1..got[s] + n
  <2>1. \A i \in 1..Len(r) : r[i] \in 1..got[s]
    BY <1>1 DEF Range
  <2>2. Len(r) \in Nat /\ got[s] \in Nat /\ \A i \in 1..n : u[i] = got[s] + i
    BY <1>1, <1>2
  <2> HIDE DEF r, u
  <2>3. ASSUME NEW i \in 1..Len(r) + n PROVE (r \o u)[i] \in 1..got[s] + n
    <3>1. CASE i <= Len(r)
      BY <1>3, <2>1, <2>2, <3>1
    <3>2. CASE ~(i <= Len(r))
      <4>1. i - Len(r) \in 1..n /\ (r \o u)[i] = u[i - Len(r)]
        BY <1>3, <2>2, <3>2
      <4> QED BY <2>2, <4>1
    <3> QED BY <3>1, <3>2
  <2> QED BY <2>3
<1>5. Range(r \o u) \subseteq 1..got[s] + n
  <2>1. DOMAIN (r \o u) = 1..Len(r) + n
    BY <1>3
  <2> HIDE DEF r, u
  <2> QED BY <1>4, <2>1 DEF Range
<1> QED BY <1>3, <1>5

(* Parsing a well-typed cut of such a ring.                                  *)
LEMMA ParseTypes ==
  ASSUME HandlersTypeOK, NEW s \in Peers, NEW close \in BOOLEAN, NEW n \in Nat,
         NEW cut \in Cuts(s, handler[s].ring \o Units(s, n)),
         Len(handler[s].ring) + n <= Capacity,
         Parse(s, cut, close),
         got' \in [Peers -> Nat], got'[s] >= got[s] + n,
         \A t \in Peers \ {s} : got'[t] = got[t],
         \A t \in Peers : got'[t] <= sent'[t] /\ (t \in UdpSockets => sent'[t] \in Ends[t] \cup {0}),
         sent' \in [Peers -> Nat],
         peer' \in [Peers -> {"absent", "open", "fin", "reset"}]
  PROVE  HandlersTypeOK' /\ SameLives
<1>1. got[s] \in Nat /\ got[s] + n \in Nat /\ Len(handler[s].ring) \in Nat /\ Capacity \in Nat
  BY HandlersAssumption DEF HandlersTypeOK, HandlerRecords
<1>2. /\ cut.ring \in Seq(Nat) /\ Len(cut.ring) <= Len(handler[s].ring) + n
      /\ Range(cut.ring) \subseteq 1..got[s] + n
      /\ cut.packs \subseteq Ends[s]
  <2> DEFINE read == handler[s].ring \o Units(s, n)
  <2>1. /\ read \in Seq(Nat) /\ Len(read) = Len(handler[s].ring) + n
        /\ Range(read) \subseteq 1..got[s] + n
    BY ReadExtends
  <2>2. cut \in Cuts(s, read)
    OBVIOUS
  <2> HIDE DEF read
  <2>3. /\ cut.ring \in Seq(Nat) /\ Len(cut.ring) <= Len(read)
        /\ Range(cut.ring) \subseteq 1..got[s] + n
        /\ cut.packs \subseteq Ends[s]
    BY <1>1, <2>1, <2>2, CutTypes
  <2> QED BY <2>1, <2>3
<1>3. Len(cut.ring) <= Capacity /\ Range(cut.ring) \subseteq 1..got'[s]
  <2>1. Len(cut.ring) \in Nat /\ Len(cut.ring) <= Len(handler[s].ring) + n
    BY <1>2
  <2>2. Len(cut.ring) <= Capacity
    BY <1>1, <2>1
  <2>3. got'[s] \in Nat /\ 1..got[s] + n \subseteq 1..got'[s]
    BY <1>1
  <2> QED BY <1>2, <2>2, <2>3
<1>4. Ends[s] \subseteq Nat
  BY HandlersAssumption
<1> DEFINE h == [handler[s] EXCEPT !.ring = cut.ring, !.packs_ = cut.packs,
                                   !.should_close = @ \/ close]
<1>5. handler' = [handler EXCEPT ![s] = h]
  BY DEF Parse
<1>6. handler[s] \in HandlerRecords
  BY DEF HandlersTypeOK
<1>7. h \in HandlerRecords /\ h.life = handler[s].life /\ h.ring = cut.ring /\ h.packs_ = cut.packs
  BY <1>2, <1>4, <1>6 DEF HandlerRecords
<1> HIDE DEF h
<1>8. handler' \in [Peers -> HandlerRecords] /\ SameLives
  BY <1>5, <1>7 DEF HandlersTypeOK, SameLives
<1>9. ASSUME NEW t \in Peers
      PROVE  /\ Len(handler'[t].ring) <= Capacity /\ Range(handler'[t].ring) \subseteq 1..got'[t]
             /\ handler'[t].packs_ \subseteq Ends[t]
  <2>1. CASE t = s
    BY <1>2, <1>3, <1>5, <1>7, <2>1 DEF HandlersTypeOK
  <2>2. CASE t # s
    BY <1>5, <2>2 DEF HandlersTypeOK
  <2> QED BY <2>1, <2>2
<1> QED BY <1>8, <1>9 DEF HandlersTypeOK

(* What a step of a handler, or of the far end, leaves to the reactor.       *)
HandlersKept ==
  /\ HandlersTypeOK'
  /\ SameLives
  /\ \A c \in Clients : peer'[c] = "absent" => peer[c] = "absent"

(* Units up to end are taken out of the socket, and n of them stored.        *)
LEMMA ReceivingKeeps ==
  ASSUME HandlersTypeOK, NEW s \in Peers, NEW n \in LinearSpaces(s), NEW end \in Nat,
         got[s] + n <= end, end <= sent[s],
         got' = [got EXCEPT ![s] = end],
         \E cut \in Cuts(s, handler[s].ring \o Units(s, n)) : Parse(s, cut, FALSE),
         UNCHANGED <<peer, sent>>
  PROVE  HandlersKept
<1>1. /\ got[s] \in Nat /\ sent[s] \in Nat /\ Len(handler[s].ring) \in Nat /\ Capacity \in Nat
      /\ Len(handler[s].ring) <= Capacity
  BY HandlersAssumption DEF HandlersTypeOK, HandlerRecords
<1>2. n \in Nat /\ Len(handler[s].ring) + n <= Capacity
  BY <1>1 DEF LinearSpaces
<1>3. PICK cut \in Cuts(s, handler[s].ring \o Units(s, n)) : Parse(s, cut, FALSE)
  OBVIOUS
<1>4. /\ got' \in [Peers -> Nat] /\ got'[s] = end
      /\ \A t \in Peers \ {s} : got'[t] = got[t]
  BY <1>1 DEF HandlersTypeOK
<1>5. \A t \in Peers : got'[t] <= sent'[t] /\ (t \in UdpSockets => sent'[t] \in Ends[t] \cup {0})
  BY <1>1, <1>4 DEF HandlersTypeOK
<1>6. HandlersTypeOK' /\ SameLives
  <2>1. got'[s] >= got[s] + n
    BY <1>1, <1>2, <1>4
  <2>2. sent' \in [Peers -> Nat] /\ peer' \in [Peers -> {"absent", "open", "fin", "reset"}]
    BY DEF HandlersTypeOK
  <2> QED BY <1>2, <1>3, <1>4, <1>5, <2>1, <2>2, ParseTypes
<1> QED BY <1>6 DEF HandlersKept

LEMMA TcpReadKeeps ==
  ASSUME HandlersTypeOK, NEW s \in Peers, TcpRead(s)
  PROVE  HandlersKept
<1>1. /\ got[s] \in Nat /\ sent[s] \in Nat /\ got[s] <= sent[s]
      /\ Capacity \in Nat /\ Len(handler[s].ring) \in Nat
  BY HandlersAssumption DEF HandlersTypeOK, HandlerRecords
<1>2. PICK space \in LinearSpaces(s) :
        \E n \in {IF space < Unread(s) THEN space ELSE Unread(s)} :
          /\ n > 0
          /\ got' = [got EXCEPT ![s] = @ + n]
          /\ \E cut \in Cuts(s, handler[s].ring \o Units(s, n)) : Parse(s, cut, FALSE)
  BY DEF TcpRead
<1>3. PICK n \in {IF space < Unread(s) THEN space ELSE Unread(s)} :
        /\ n > 0
        /\ got' = [got EXCEPT ![s] = @ + n]
        /\ \E cut \in Cuts(s, handler[s].ring \o Units(s, n)) : Parse(s, cut, FALSE)
  BY <1>2
<1>4. PICK end \in Nat : end = got[s] + n /\ got[s] + n <= end /\ end <= sent[s] /\ n \in LinearSpaces(s)
  BY <1>1, <1>3 DEF LinearSpaces, Unread
<1>5. got' = [got EXCEPT ![s] = end] /\ UNCHANGED <<peer, sent>>
  BY <1>3, <1>4 DEF TcpRead
<1> QED BY <1>1, <1>3, <1>4, <1>5, ReceivingKeeps

LEMMA TcpHangKeeps ==
  ASSUME HandlersTypeOK, NEW s \in Peers, TcpHang(s)
  PROVE  HandlersKept
<1>1. got[s] \in Nat /\ sent[s] \in Nat /\ got[s] <= sent[s]
  BY DEF HandlersTypeOK
<1>2. PICK n \in 1..Unread(s) :
        /\ n \in LinearSpaces(s) /\ got' = [got EXCEPT ![s] = @ + n]
        /\ \E cut \in Cuts(s, handler[s].ring \o Units(s, n)) : Parse(s, cut, FALSE)
  BY DEF TcpHang
<1>3. PICK end \in Nat : end = got[s] + n /\ got[s] + n <= end /\ end <= sent[s]
  BY <1>1, <1>2 DEF Unread
<1>4. got' = [got EXCEPT ![s] = end] /\ UNCHANGED <<peer, sent>>
  BY <1>2, <1>3 DEF TcpHang
<1> QED BY <1>1, <1>2, <1>3, <1>4, ReceivingKeeps

(* A datagram that begins after what was taken lies within what was sent.    *)
LEMMA DatagramSent ==
  ASSUME HandlersTypeOK, NEW s \in UdpSockets, Unread(s) > 0, NEW end \in NextEnds(s, got[s])
  PROVE  got[s] \in Nat /\ end \in Nat /\ got[s] < end /\ end <= sent[s]
<1>1. /\ got[s] \in Nat /\ sent[s] \in Nat /\ s \in Peers
      /\ sent[s] \in Ends[s] \cup {0} /\ Ends[s] \subseteq Nat
  BY HandlersAssumption DEF HandlersTypeOK, Peers
<1> QED BY <1>1 DEF NextEnds, Unread

LEMMA UdpReadKeeps ==
  ASSUME HandlersTypeOK, NEW s \in UdpSockets, UdpRead(s)
  PROVE  HandlersKept
<1>1. /\ Capacity \in Nat /\ Len(handler[s].ring) \in Nat /\ s \in Peers
  BY HandlersAssumption DEF HandlersTypeOK, HandlerRecords, Peers
<1>2. PICK end \in NextEnds(s, got[s]) :
        /\ got' = [got EXCEPT ![s] = end]
        /\ \E space \in LinearSpaces(s) :
             \E n \in {IF space < end - got[s] THEN space ELSE end - got[s]} :
               \E cut \in Cuts(s, handler[s].ring \o Units(s, n)) : Parse(s, cut, FALSE)
  BY DEF UdpRead
<1>3. got[s] \in Nat /\ end \in Nat /\ got[s] < end /\ end <= sent[s]
  BY DatagramSent DEF UdpRead
<1>4. PICK space \in LinearSpaces(s) :
        \E n \in {IF space < end - got[s] THEN space ELSE end - got[s]} :
          \E cut \in Cuts(s, handler[s].ring \o Units(s, n)) : Parse(s, cut, FALSE)
  BY <1>2
<1>5. PICK n \in {IF space < end - got[s] THEN space ELSE end - got[s]} :
        \E cut \in Cuts(s, handler[s].ring \o Units(s, n)) : Parse(s, cut, FALSE)
  BY <1>4
<1>6. n \in LinearSpaces(s) /\ got[s] + n <= end
  BY <1>1, <1>3, <1>5 DEF LinearSpaces
<1>7. UNCHANGED <<peer, sent>>
  BY DEF UdpRead
<1> QED BY <1>1, <1>2, <1>3, <1>5, <1>6, <1>7, ReceivingKeeps

LEMMA UdpErrorKeeps ==
  ASSUME HandlersTypeOK, NEW s \in UdpSockets,
         \E cut \in Cuts(s, handler[s].ring) : Parse(s, cut, TRUE),
         peer' = [peer EXCEPT ![s] = "open"], UNCHANGED <<got, sent>>
  PROVE  HandlersKept
<1>1. /\ got[s] \in Nat /\ Len(handler[s].ring) \in Nat /\ Len(handler[s].ring) <= Capacity
      /\ Capacity \in Nat /\ handler[s].ring \in Seq(Nat) /\ s \in Peers /\ s \notin Clients
  BY HandlersAssumption DEF HandlersTypeOK, HandlerRecords, Peers
<1>2. handler[s].ring \o Units(s, 0) = handler[s].ring
  <2> DEFINE r == handler[s].ring
  <2>1. Units(s, 0) = << >>
    BY <1>1 DEF Units
  <2>2. r \in Seq(Nat)
    BY <1>1
  <2> HIDE DEF r
  <2>3. r \o << >> = r
    BY <2>2
  <2> QED BY <2>1, <2>3 DEF r
<1>3. PICK cut \in Cuts(s, handler[s].ring \o Units(s, 0)) : Parse(s, cut, TRUE)
  BY <1>2
<1>4. peer' = [peer EXCEPT ![s] = "open"] /\ got' = got /\ sent' = sent
  OBVIOUS
<1>5. HandlersTypeOK' /\ SameLives
  <2>1. got' \in [Peers -> Nat] /\ got'[s] >= got[s] + 0 /\ \A t \in Peers \ {s} : got'[t] = got[t]
    BY <1>1, <1>4 DEF HandlersTypeOK
  <2>2. \A t \in Peers : got'[t] <= sent'[t] /\ (t \in UdpSockets => sent'[t] \in Ends[t] \cup {0})
    BY <1>4 DEF HandlersTypeOK
  <2>3. sent' \in [Peers -> Nat] /\ peer' \in [Peers -> {"absent", "open", "fin", "reset"}]
    BY <1>4 DEF HandlersTypeOK
  <2>4. Len(handler[s].ring) + 0 <= Capacity
    BY <1>1
  <2> QED BY <1>1, <1>3, <2>1, <2>2, <2>3, <2>4, ParseTypes
<1>6. \A c \in Clients : peer'[c] = peer[c]
  BY <1>1, <1>4 DEF HandlersTypeOK, Peers
<1> QED BY <1>5, <1>6 DEF HandlersKept

LEMMA UdpHangKeeps ==
  ASSUME HandlersTypeOK, NEW s \in UdpSockets, UdpHang(s)
  PROVE  HandlersKept
<1>1. s \in Peers /\ sent' = sent
  BY DEF Peers, UdpHang
<1>2. CASE peer[s] # "reset" /\ Unread(s) > 0 /\ UNCHANGED peer /\
           \E end \in NextEnds(s, got[s]) :
             /\ got' = [got EXCEPT ![s] = end]
             /\ \E n \in 1..end - got[s] : \E cut \in Cuts(s, handler[s].ring \o Units(s, n)) :
                  n \in LinearSpaces(s) /\ Parse(s, cut, FALSE)
  <2>1. PICK end \in NextEnds(s, got[s]) :
          /\ got' = [got EXCEPT ![s] = end]
          /\ \E n \in 1..end - got[s] : \E cut \in Cuts(s, handler[s].ring \o Units(s, n)) :
               n \in LinearSpaces(s) /\ Parse(s, cut, FALSE)
    BY <1>2
  <2>2. got[s] \in Nat /\ end \in Nat /\ got[s] < end /\ end <= sent[s]
    BY <1>2, DatagramSent
  <2>3. PICK n \in 1..end - got[s] : \E cut \in Cuts(s, handler[s].ring \o Units(s, n)) :
          n \in LinearSpaces(s) /\ Parse(s, cut, FALSE)
    BY <2>1
  <2>4. n \in LinearSpaces(s) /\ got[s] + n <= end
    BY <2>2, <2>3
  <2> QED BY <1>1, <1>2, <2>1, <2>2, <2>3, <2>4, ReceivingKeeps
<1>3. CASE peer[s] = "reset" /\ peer' = [peer EXCEPT ![s] = "open"] /\ UNCHANGED got /\
           \E cut \in Cuts(s, handler[s].ring) : Parse(s, cut, TRUE)
  BY <1>1, <1>3, UdpErrorKeeps
<1> QED BY <1>2, <1>3 DEF UdpHang

(* Setting should_close, and leaving everything as it is.                    *)
LEMMA FlagKeeps ==
  ASSUME HandlersTypeOK, NEW s \in Peers, NEW b \in BOOLEAN,
         handler' = [handler EXCEPT ![s].should_close = b], UNCHANGED <<peer, sent, got>>
  PROVE  HandlersKept
<1>1. handler' \in [Peers -> HandlerRecords]
  BY DEF HandlersTypeOK, HandlerRecords
<1>2. \A t \in Peers : /\ handler'[t].ring = handler[t].ring /\ handler'[t].packs_ = handler[t].packs_
                        /\ handler'[t].life = handler[t].life
  BY DEF HandlersTypeOK, HandlerRecords
<1> QED BY <1>1, <1>2 DEF HandlersKept, HandlersTypeOK, SameLives

LEMMA QuietKeeps ==
  ASSUME HandlersTypeOK, UNCHANGED <<peer, sent, got, handler>>
  PROVE  HandlersKept
BY DEF HandlersKept, HandlersTypeOK, SameLives

LEMMA TcpReadEndsKeeps ==
  ASSUME HandlersTypeOK, NEW s \in Peers, TcpReadEnds(s)
  PROVE  HandlersKept
<1> DEFINE b == handler[s].should_close \/ (~BufferFull(s) /\ peer[s] # "open")
<1>1. handler' = [handler EXCEPT ![s].should_close = b] /\ UNCHANGED <<peer, sent, got>>
  BY DEF TcpReadEnds
<1>2. b \in BOOLEAN
  BY DEF HandlersTypeOK, HandlerRecords
<1> HIDE DEF b
<1> QED BY <1>1, <1>2, FlagKeeps

(* What the peers send and how they leave.                                   *)
LEMMA SendKeeps ==
  ASSUME HandlersTypeOK, NEW s \in Peers, SendStream(s)
  PROVE  HandlersKept
<1>1. sent[s] \in Nat /\ got[s] \in Nat /\ got[s] <= sent[s] /\ Ends[s] \subseteq Nat
  BY HandlersAssumption DEF HandlersTypeOK
<1>2. PICK end \in NextEnds(s, sent[s]) :
        sent' = [sent EXCEPT ![s] = IF s \in Clients THEN @ + 1 ELSE end]
  BY DEF SendStream
<1>3. end \in Ends[s] /\ end > sent[s]
  BY <1>1, <1>2 DEF NextEnds
<1>4. sent' \in [Peers -> Nat] /\ sent'[s] >= sent[s] /\ \A t \in Peers \ {s} : sent'[t] = sent[t]
  BY <1>1, <1>2, <1>3 DEF HandlersTypeOK
<1>5. s \in UdpSockets => sent'[s] = end
  BY <1>2, HandlersAssumption DEF HandlersTypeOK
<1>6. \A t \in Peers : got[t] <= sent'[t] /\ (t \in UdpSockets => sent'[t] \in Ends[t] \cup {0})
  <2>1. got[s] <= sent'[s]
    BY <1>1, <1>4
  <2>2. \A t \in Peers \ {s} : got[t] <= sent'[t] /\ (t \in UdpSockets => sent'[t] \in Ends[t] \cup {0})
    BY <1>4 DEF HandlersTypeOK
  <2> QED BY <1>3, <1>5, <2>1, <2>2
<1>7. UNCHANGED <<peer, got, handler>>
  BY DEF SendStream
<1>8. HandlersTypeOK'
  <2>1. sent' \in [Peers -> Nat] /\ \A t \in Peers :
           got'[t] <= sent'[t] /\ (t \in UdpSockets => sent'[t] \in Ends[t] \cup {0})
    BY <1>4, <1>6, <1>7
  <2> QED BY <2>1, <1>7 DEF HandlersTypeOK
<1> QED BY <1>7, <1>8 DEF HandlersKept, SameLives

LEMMA LeaveKeeps ==
  ASSUME HandlersTypeOK, NEW s \in Peers, NEW how \in {"fin", "reset"}, Leave(s, how)
  PROVE  HandlersKept
<1>1. peer' = [peer EXCEPT ![s] = how] /\ UNCHANGED <<sent, got, handler>> /\ peer[s] = "open"
  BY DEF Leave
<1>2. peer' \in [Peers -> {"absent", "open", "fin", "reset"}]
  BY <1>1 DEF HandlersTypeOK
<1>3. \A c \in Clients : peer'[c] = "absent" => peer[c] = "absent"
  BY <1>1 DEF HandlersTypeOK, Peers
<1> QED BY <1>1, <1>2, <1>3 DEF HandlersKept, HandlersTypeOK, SameLives

LEMMA HandlerValues ==
  /\ NoHandler \in HandlerRecords /\ NoHandler.ring = << >> /\ NoHandler.packs_ = {}
  /\ NoHandler.life = "none"
  /\ FreedHandler \in HandlerRecords /\ FreedHandler.ring = << >> /\ FreedHandler.packs_ = {}
  /\ FreedHandler.life = "freed"
  /\ \A b \in BOOLEAN :
       /\ NewHandler(b) \in HandlerRecords /\ NewHandler(b).ring = << >> /\ NewHandler(b).packs_ = {}
       /\ NewHandler(b).life = "live"
<1>1. << >> \in Seq(Nat) /\ {} \in SUBSET Nat
  OBVIOUS
<1>2. ASSUME NEW b \in BOOLEAN
      PROVE  /\ NewHandler(b) \in HandlerRecords /\ NewHandler(b).ring = << >>
             /\ NewHandler(b).packs_ = {} /\ NewHandler(b).life = "live"
  BY <1>1 DEF NewHandler, EmptyHandler, HandlerRecords
<1>3. /\ NoHandler \in HandlerRecords /\ NoHandler.ring = << >> /\ NoHandler.packs_ = {}
      /\ NoHandler.life = "none"
  BY <1>1 DEF NoHandler, EmptyHandler, HandlerRecords
<1>4. /\ FreedHandler \in HandlerRecords /\ FreedHandler.ring = << >> /\ FreedHandler.packs_ = {}
      /\ FreedHandler.life = "freed"
  BY <1>1 DEF FreedHandler, EmptyHandler, HandlerRecords
<1> QED BY <1>2, <1>3, <1>4

(* A handler that is made or freed.                                          *)
LEMMA FreshKeeps ==
  ASSUME HandlersTypeOK, UNCHANGED <<peer, sent>>,
         got' \in [Peers -> Nat], \A t \in Peers : got[t] <= got'[t] /\ got'[t] <= sent[t],
         NEW S \in SUBSET Peers, NEW h \in HandlerRecords, h.ring = << >>, h.packs_ = {},
         handler' = [t \in Peers |-> IF t \in S THEN h ELSE handler[t]]
  PROVE  HandlersTypeOK'
<1>1. handler' \in [Peers -> HandlerRecords]
  BY DEF HandlersTypeOK
<1>2. Capacity \in Nat /\ Len(<< >>) = 0 /\ Range(<< >>) = {}
  BY HandlersAssumption DEF Range
<1>3. ASSUME NEW t \in Peers
      PROVE  /\ Len(handler'[t].ring) <= Capacity /\ Range(handler'[t].ring) \subseteq 1..got'[t]
             /\ handler'[t].packs_ \subseteq Ends[t]
  <2>1. CASE t \in S
    <3>1. handler'[t].ring = << >> /\ handler'[t].packs_ = {}
      BY <2>1
    <3> QED BY <1>2, <3>1
  <2>2. CASE t \notin S
    <3>1. handler'[t] = handler[t]
      BY <2>2
    <3>2. 1..got[t] \subseteq 1..got'[t]
      BY DEF HandlersTypeOK
    <3> QED BY <3>1, <3>2 DEF HandlersTypeOK
  <2> QED BY <2>1, <2>2
<1> QED BY <1>1, <1>3 DEF HandlersTypeOK

-----------------------------------------------------------------------------
(* The reactor. *)

LEMMA SocketsApart ==
  /\ NoSocket \notin Sockets /\ Listener \notin Peers /\ Clients \cap UdpSockets = {}
  /\ NoEvent \notin Events
BY ReactorAssumption, HandlersAssumption DEF Sockets, Events, NoEvent

LEMMA InitIInv == Init => IInv
<1> SUFFICES ASSUME Init PROVE IInv
  OBVIOUS
<1> USE DEF Init, InitHandlers
<1>1. HandlersTypeOK
  <2>1. NoHandler \in HandlerRecords /\ NoHandler.ring = << >> /\ NoHandler.packs_ = {}
    BY HandlerValues
  <2>2. Capacity \in Nat /\ Len(<< >>) = 0 /\ Range(<< >>) = {}
    BY HandlersAssumption DEF Range
  <2>3. handler = [s \in Peers |-> NoHandler] /\ got = [s \in Peers |-> 0] /\ sent = [s \in Peers |-> 0]
    OBVIOUS
  <2>a. peer = [s \in Peers |-> IF s \in UdpSockets THEN "open" ELSE "absent"]
    OBVIOUS
  <2> HIDE DEF Init, InitHandlers
  <2>4. peer \in [Peers -> {"absent", "open", "fin", "reset"}]
    BY <2>a
  <2>5. ASSUME NEW s \in Peers
        PROVE  /\ got[s] <= sent[s] /\ (s \in UdpSockets => sent[s] \in Ends[s] \cup {0})
               /\ Len(handler[s].ring) <= Capacity /\ Range(handler[s].ring) \subseteq 1..got[s]
               /\ handler[s].packs_ \subseteq Ends[s]
    <3>1. handler[s].ring = << >> /\ handler[s].packs_ = {} /\ got[s] = 0 /\ sent[s] = 0
      BY <2>1, <2>3
    <3> QED BY <2>2, <3>1
  <2> QED BY <2>1, <2>3, <2>4, <2>5 DEF HandlersTypeOK
<1>2. TypeOK
  BY <1>1, SocketsApart DEF TypeOK, ThreadPlaces
<1>3. DescriptorsAgree
  <2>1. Registered = {}
    BY DEF Registered
  <2>2. \A s \in Peers : ~Alive(s)
    BY HandlerValues DEF Alive
  <2> QED BY <2>1, <2>2 DEF DescriptorsAgree
<1>4. EventsAreFresh /\ BatchEmpty /\ Dispatched /\ OneCreated
  BY DEF EventsAreFresh, Outstanding, BatchEmpty, Dispatched, OneCreated
<1>5. Strangers
  BY SocketsApart DEF Strangers, Peers, Sockets
<1> QED BY <1>2, <1>3, <1>4, <1>5 DEF IInv

(* Steps that register and close nothing.                                    *)
LEMMA DescriptorsQuiet ==
  ASSUME DescriptorsAgree, SameLives, UNCHANGED <<file, interest, protocol_handlers_, listeners_>>,
         at' \in {"bind", "bound", "thrown", "destroyed"} \/ at \notin {"bind", "bound", "thrown", "destroyed"}
  PROVE  DescriptorsAgree'
BY DEF DescriptorsAgree, SameLives, Alive, Registered

LEMMA StrangersQuiet ==
  ASSUME Strangers, backlog \subseteq Clients, UNCHANGED <<file, backlog>>,
         \A c \in Clients : peer'[c] = "absent" => peer[c] = "absent"
  PROVE  Strangers'
BY DEF Strangers

(* The steps of the thread, the handlers, the peers and the owner that only  *)
(* move the thread on, outside the events of a batch or at one of them.      *)
LEMMA OnwardKeeps ==
  ASSUME IInv, HandlersKept,
         UNCHANGED <<file, backlog, interest, protocol_handlers_, listeners_, events, ev>>,
         ready' \subseteq interest, running_' \in BOOLEAN, head_key_' \in BOOLEAN,
         \/ at' = at
         \/ at = "read" /\ at' \in {"check", "hung"}
         \/ at = "check_freed" /\ at' = "crashed"
         \/ at = "bind" /\ at' = "bound"
         \/ at \in {"setup", "wait"} /\ at' = "loop"
         \/ at = "loop" /\ at' \in {"wait", "returned"}
  PROVE  IInv'
<1>1. TypeOK'
  BY DEF IInv, TypeOK, HandlersKept, ThreadPlaces
<1>2. DescriptorsAgree'
  BY DescriptorsQuiet DEF IInv, HandlersKept
<1>3. EventsAreFresh'
  BY DEF IInv, EventsAreFresh, Outstanding, Registered
<1>4. Strangers'
  BY StrangersQuiet DEF IInv, HandlersKept, TypeOK
<1>5. OneCreated' /\ BatchEmpty' /\ Dispatched'
  BY DEF IInv, OneCreated, BatchEmpty, Dispatched, Registered
<1> QED BY <1>1, <1>2, <1>3, <1>4, <1>5 DEF IInv

LEMMA GoKeeps ==
  ASSUME IInv, NEW place, Go(place), UNCHANGED handlerVars,
         \/ at = "bind" /\ place = "bound"
         \/ at \in {"setup", "wait"} /\ place = "loop"
         \/ at = "loop" /\ place \in {"wait", "returned"}
  PROVE  IInv'
<1>1. HandlersKept
  BY QuietKeeps DEF IInv, TypeOK, handlerVars
<1>2. ready' \subseteq interest /\ running_' \in BOOLEAN /\ head_key_' \in BOOLEAN
  BY DEF IInv, TypeOK, Go
<1> QED BY <1>1, <1>2, OnwardKeeps DEF Go

(* An iteration of a read loop, one that is never done, or the loop's end.   *)
LEMMA ReadLeaves ==
  ASSUME IInv, Read \/ Hang \/ ReadEnds
  PROVE  at = "read" /\ This \in Peers /\ HandlersKept
<1>1. at = "read" /\ This \in Peers
  BY DEF IInv, Dispatched, DescriptorsAgree, TypeOK, Registered, Read, Hang, ReadEnds, This, Sockets
<1>2. HandlersTypeOK /\ This \in Clients \cup UdpSockets
  BY <1>1 DEF IInv, TypeOK, Peers
<1>3. HandlersKept
  <2>1. CASE Read
    <3>1. CASE UdpError(This) /\ This \notin Clients
      <4>1. This \in UdpSockets /\ UNCHANGED <<got, sent>>
        BY <1>2, <3>1 DEF UdpError
      <4> QED BY <1>2, <3>1, <4>1, UdpErrorKeeps DEF UdpError
    <3> QED BY <1>1, <1>2, <2>1, <3>1, TcpReadKeeps, UdpReadKeeps DEF Read
  <2>2. CASE ReadEnds
    <3>1. CASE This \in Clients
      BY <1>1, <1>2, <2>2, <3>1, TcpReadEndsKeeps DEF ReadEnds
    <3>2. CASE This \notin Clients
      BY <1>2, <2>2, <3>2, QuietKeeps DEF ReadEnds, UdpReadEnds, handlerVars
    <3> QED BY <3>1, <3>2
  <2>3. CASE Hang
    BY <1>1, <1>2, <2>3, TcpHangKeeps, UdpHangKeeps DEF Hang
  <2> QED BY <2>1, <2>2, <2>3
<1> QED BY <1>1, <1>3

LEMMA ReadKeeps ==
  ASSUME IInv, Read \/ Hang \/ ReadEnds
  PROVE  IInv'
<1>1. at = "read" /\ HandlersKept
  BY ReadLeaves
<1>2. /\ UNCHANGED <<file, backlog, interest, protocol_handlers_, listeners_, events, ev>>
      /\ ready' = ready /\ running_' = running_ /\ head_key_' = head_key_
      /\ at' \in {at, "check", "hung"}
  BY DEF Read, Hang, ReadEnds, Go, reactorVars
<1>3. ready' \subseteq interest /\ running_' \in BOOLEAN /\ head_key_' \in BOOLEAN
  BY <1>2 DEF IInv, TypeOK
<1> QED BY <1>1, <1>2, <1>3, OnwardKeeps

LEMMA EpollWaitKeeps ==
  ASSUME IInv, EpollWait
  PROVE  IInv'
<1>1. PICK taken \in SUBSET ready :
        /\ ready' = ready \ taken
        /\ events' = {[fd |-> fd, socket |-> file[fd], flags |-> Flags(file[fd])] :
                         fd \in {fd \in taken : Flags(file[fd]) # {}}}
  BY DEF EpollWait
<1>2. /\ at = "wait" /\ at' = IF events' = {} THEN "wait" ELSE "dispatch"
      /\ UNCHANGED <<peer, sent, got, handler, file, backlog, interest, protocol_handlers_,
                     listeners_, head_key_, running_, ev>>
  BY DEF EpollWait, handlerVars
<1>3. HandlersKept
  BY <1>2, QuietKeeps DEF IInv, TypeOK
<1>4. /\ taken \subseteq Registered /\ Registered \subseteq Fds /\ ready \subseteq interest
      /\ \A fd \in taken : file[fd] \in Sockets
  BY DEF IInv, TypeOK, DescriptorsAgree, Registered
<1>5. \A s : Flags(s) \subseteq {"kReadable", "kError", "kHangUp"}
  BY DEF Flags
<1>6. ASSUME NEW e \in events'
      PROVE  /\ e.fd \in Registered /\ file[e.fd] = e.socket
             /\ e = [fd |-> e.fd, socket |-> file[e.fd], flags |-> Flags(file[e.fd])]
             /\ e \in Events
  <2>1. PICK fd \in taken : e = [fd |-> fd, socket |-> file[fd], flags |-> Flags(file[fd])]
    BY <1>1
  <2> QED BY <1>4, <1>5, <2>1 DEF Events
<1>7. ev = NoEvent
  BY <1>2 DEF IInv, TypeOK
<1>8. TypeOK'
  BY <1>1, <1>2, <1>3, <1>4, <1>6, <1>7 DEF IInv, TypeOK, HandlersKept, ThreadPlaces
<1>9. DescriptorsAgree'
  BY <1>2, <1>3, DescriptorsQuiet DEF IInv, HandlersKept
<1>10. EventsAreFresh'
  <2>1. Outstanding' = events' /\ Registered' = Registered
    BY <1>2 DEF Outstanding, Registered
  <2>2. ev' \notin events'
    BY <1>2, <1>6, <1>7, SocketsApart
  <2>3. \A e, f \in events' : e.fd = f.fd => e = f
    BY <1>6
  <2> QED BY <1>2, <1>6, <2>1, <2>2, <2>3 DEF EventsAreFresh
<1>11. Strangers'
  BY <1>2, <1>3, StrangersQuiet DEF IInv, HandlersKept, TypeOK
<1>12. OneCreated' /\ BatchEmpty' /\ Dispatched'
  BY <1>2 DEF OneCreated, BatchEmpty, Dispatched
<1> QED BY <1>8, <1>9, <1>10, <1>11, <1>12 DEF IInv

(* An event is taken out of the batch and dealt with.                        *)
LEMMA DispatchKeeps ==
  ASSUME IInv, at = "dispatch", HandlersKept,
         NEW e \in events, NEW place \in {"accept", "read", "check"}, DispatchTo(e, place),
         place # "accept" => e.fd \in Registered \ listeners_
  PROVE  IInv'
<1>1. /\ at' = place /\ ev' = e /\ events' = events \ {e}
      /\ UNCHANGED <<file, backlog, interest, ready, protocol_handlers_, listeners_, head_key_,
                     running_>>
  BY DEF DispatchTo
<1>2. e \in Events /\ e # NoEvent
  BY SocketsApart DEF IInv, TypeOK
<1>3. TypeOK'
  BY <1>1, <1>2 DEF IInv, TypeOK, HandlersKept, ThreadPlaces
<1>4. DescriptorsAgree'
  BY <1>1, DescriptorsQuiet DEF IInv, HandlersKept
<1>5. EventsAreFresh'
  <2>1. Outstanding' = events /\ events \subseteq Outstanding /\ Registered' = Registered
    BY <1>1 DEF Outstanding, Registered
  <2> QED BY <1>1, <2>1 DEF IInv, EventsAreFresh
<1>6. Strangers'
  BY <1>1, StrangersQuiet DEF IInv, HandlersKept, TypeOK
<1>7. OneCreated' /\ BatchEmpty' /\ Dispatched'
  BY <1>1 DEF IInv, OneCreated, BatchEmpty, Dispatched, Registered
<1> QED BY <1>3, <1>4, <1>5, <1>6, <1>7 DEF IInv

LEMMA DispatchListenerKeeps ==
  ASSUME IInv, DispatchListener
  PROVE  IInv'
<1>1. HandlersKept
  BY QuietKeeps DEF IInv, TypeOK, DispatchListener, handlerVars
<1> QED BY <1>1, DispatchKeeps DEF DispatchListener, handlerVars

LEMMA HandleEventKeeps ==
  ASSUME IInv, HandleEvent
  PROVE  IInv'
<1>1. PICK e \in events, s \in Peers :
        /\ e.fd \in DOMAIN protocol_handlers_ \ listeners_
        /\ handler' = [handler EXCEPT ![s].should_close = @ \/ Refuses(s, e.flags)]
        /\ DispatchTo(e, IF ~Refuses(s, e.flags) /\ "kReadable" \in e.flags THEN "read"
                                                                            ELSE "check")
  BY DEF HandleEvent
<1>2. at = "dispatch" /\ UNCHANGED <<peer, sent, got>>
  BY DEF HandleEvent
<1>3. HandlersKept
  <2> DEFINE b == handler[s].should_close \/ Refuses(s, e.flags)
  <2>1. b \in BOOLEAN
    BY DEF IInv, TypeOK, HandlersTypeOK, HandlerRecords
  <2>2. handler' = [handler EXCEPT ![s].should_close = b]
    BY <1>1
  <2> HIDE DEF b
  <2> QED BY <1>2, <2>1, <2>2, FlagKeeps DEF IInv, TypeOK
<1>4. PICK place \in {"read", "check"} : DispatchTo(e, place)
  BY <1>1
<1> QED BY <1>1, <1>2, <1>3, <1>4, DispatchKeeps DEF Registered

(* The loop comes to the next event, or goes round.                          *)
LEMMA NextEventKeeps ==
  ASSUME IInv, HandlersKept, at \in {"accept", "check", "check_freed"}, NextEvent,
         UNCHANGED <<file, backlog, interest, ready, protocol_handlers_, listeners_, head_key_,
                     running_>>
  PROVE  IInv'
<1>1. /\ at' = IF events = {} THEN "loop" ELSE "dispatch"
      /\ ev' = NoEvent /\ events' = events
  BY DEF NextEvent
<1>2. TypeOK'
  BY <1>1 DEF IInv, TypeOK, HandlersKept, ThreadPlaces
<1>3. DescriptorsAgree'
  BY <1>1, DescriptorsQuiet DEF IInv, HandlersKept
<1>4. EventsAreFresh'
  <2>1. Outstanding' = events /\ events \subseteq Outstanding /\ Registered' = Registered
    BY <1>1 DEF Outstanding, Registered
  <2>2. ev' \notin events'
    BY <1>1, SocketsApart DEF IInv, TypeOK
  <2> QED BY <1>1, <2>1, <2>2 DEF IInv, EventsAreFresh
<1>5. Strangers'
  BY StrangersQuiet DEF IInv, HandlersKept, TypeOK
<1>6. OneCreated' /\ BatchEmpty' /\ Dispatched'
  BY <1>1 DEF OneCreated, BatchEmpty, Dispatched
<1> QED BY <1>2, <1>3, <1>4, <1>5, <1>6 DEF IInv

LEMMA CheckFreedKeeps ==
  ASSUME IInv, CheckFreed
  PROVE  IInv'
<1>1. HandlersKept
  BY QuietKeeps DEF IInv, TypeOK, CheckFreed, handlerVars
<1>2. CASE NextEvent
  BY <1>1, <1>2, NextEventKeeps DEF CheckFreed
<1>3. CASE at' = "crashed" /\ UNCHANGED <<events, ev>>
  <2>1. ready' \subseteq interest /\ running_' \in BOOLEAN /\ head_key_' \in BOOLEAN
    BY DEF IInv, TypeOK, CheckFreed
  <2> QED BY <1>1, <1>3, <2>1, OnwardKeeps DEF CheckFreed
<1> QED BY <1>2, <1>3 DEF CheckFreed

LEMMA AcceptDoneKeeps ==
  ASSUME IInv, AcceptDone
  PROVE  IInv'
<1>1. HandlersKept
  BY QuietKeeps DEF IInv, TypeOK, AcceptDone, handlerVars
<1> QED BY <1>1, NextEventKeeps DEF AcceptDone

(* Stop, the peers and the tasks leave the thread where it is.               *)
LEMMA StopKeeps ==
  ASSUME IInv, Stop
  PROVE  IInv'
<1>1. HandlersKept
  BY QuietKeeps DEF IInv, TypeOK, Stop, handlerVars
<1>2. ready' \subseteq interest /\ running_' \in BOOLEAN /\ head_key_' \in BOOLEAN
  BY DEF IInv, TypeOK, Stop
<1> QED BY <1>1, <1>2, OnwardKeeps DEF Stop

LEMMA FarKeeps ==
  ASSUME IInv, NEW s \in Peers, Far(s)
  PROVE  IInv'
<1>1. HandlersKept
  BY SendKeeps, LeaveKeeps DEF IInv, TypeOK, Far
<1>2. ready' \subseteq interest /\ running_' \in BOOLEAN /\ head_key_' \in BOOLEAN
  BY DEF IInv, TypeOK, Far, Wake
<1> QED BY <1>1, <1>2, OnwardKeeps DEF Far

LEMMA TaskKeeps ==
  ASSUME IInv, NEW i \in 1..Len(tasks), Task_(i)
  PROVE  IInv'
<1>1. HandlersKept
  BY QuietKeeps DEF IInv, TypeOK, Task_, RunTask
<1>2. ready' \subseteq interest /\ running_' \in BOOLEAN /\ head_key_' \in BOOLEAN
  BY DEF IInv, TypeOK, Task_, reactorVars
<1> QED BY <1>1, <1>2, OnwardKeeps DEF Task_, reactorVars

LEMMA ConnectKeeps ==
  ASSUME IInv, NEW c \in Clients, Connect(c)
  PROVE  IInv'
<1>1. /\ peer[c] = "absent" /\ peer' = [peer EXCEPT ![c] = "open"] /\ backlog' = backlog \cup {c}
      /\ UNCHANGED <<sent, got, handler, file, interest, protocol_handlers_, listeners_, head_key_,
                     running_, at, events, ev>>
  BY DEF Connect
<1>2. HandlersKept
  BY <1>1 DEF IInv, TypeOK, HandlersTypeOK, HandlersKept, SameLives, Peers
<1>3. TypeOK'
  <2>1. ready' \subseteq interest
    BY DEF IInv, TypeOK, Connect, Wake
  <2> QED BY <1>1, <1>2, <2>1 DEF IInv, TypeOK, HandlersKept
<1>4. DescriptorsAgree'
  BY <1>1, <1>2, DescriptorsQuiet DEF IInv, HandlersKept
<1>5. EventsAreFresh' /\ OneCreated' /\ BatchEmpty' /\ Dispatched'
  BY <1>1 DEF IInv, EventsAreFresh, Outstanding, Registered, OneCreated, BatchEmpty, Dispatched
<1>6. Strangers'
  <2>1. peer'[c] = "open" /\ \A d \in Clients \ {c} : peer'[d] = peer[d]
    BY <1>1 DEF IInv, TypeOK, HandlersTypeOK, Peers
  <2> QED BY <1>1, <2>1 DEF IInv, TypeOK, Strangers
<1> QED BY <1>3, <1>4, <1>5, <1>6 DEF IInv

(* The owner's socket: made, refused, and registered.                        *)
LEMMA OpenSocketKeeps ==
  ASSUME IInv, NEW fd \in NewFds, NEW s \in UdpSockets \cup {Listener}, OpenSocket(fd, s)
  PROVE  IInv'
<1>1. /\ at = "setup" /\ at' = "bind" /\ s \notin Range(file) /\ file' = [file EXCEPT ![fd] = s]
      /\ UNCHANGED <<peer, sent, got, handler, backlog, interest, ready, protocol_handlers_,
                     listeners_, head_key_, running_, events, ev>>
  BY DEF OpenSocket, handlerVars
<1>2. /\ fd \in Fds /\ file[fd] = NoSocket /\ s \in Sockets /\ s \notin Clients
      /\ file \in [Fds -> Sockets \cup {NoSocket}]
      /\ \A fe \in Fds : file[fe] # s
  BY <1>1, SocketsApart DEF NewFds, FreeFds, Sockets, Peers, IInv, TypeOK, Range
<1>3. fd \notin Registered
  BY <1>2, SocketsApart DEF IInv, DescriptorsAgree, TypeOK, Registered
<1>4. HandlersTypeOK'
  BY <1>1 DEF IInv, TypeOK, HandlersTypeOK
<1>5. TypeOK'
  BY <1>1, <1>2, <1>4 DEF IInv, TypeOK, ThreadPlaces
<1>6. file'[fd] = s /\ \A fe \in Fds \ {fd} : file'[fe] = file[fe]
  BY <1>1, <1>2
<1>7. DescriptorsAgree'
  <2>1. Registered' = Registered /\ Registered \subseteq Fds
    BY <1>1 DEF Registered, IInv, TypeOK
  <2>2. \A t \in Peers : Alive(t)' <=> Alive(t)
    BY <1>1 DEF Alive
  <2> QED BY <1>1, <1>2, <1>3, <1>6, <2>1, <2>2 DEF IInv, DescriptorsAgree
<1>8. EventsAreFresh' /\ BatchEmpty' /\ Dispatched'
  <2>1. events = {} /\ events' = {} /\ Outstanding' = {}
    BY <1>1 DEF IInv, BatchEmpty, Outstanding
  <2> QED BY <1>1, <2>1 DEF EventsAreFresh, BatchEmpty, Dispatched
<1>9. OneCreated'
  BY <1>1, <1>6 DEF IInv, OneCreated, DescriptorsAgree, Registered
<1>10. Strangers'
  BY <1>1, <1>2, <1>6 DEF IInv, Strangers
<1> QED BY <1>5, <1>7, <1>8, <1>9, <1>10 DEF IInv

LEMMA BindFailsKeeps ==
  ASSUME IInv, NEW fd \in Fds, BindFails(fd)
  PROVE  IInv'
<1>1. /\ at = "bind" /\ at' = "setup" /\ file' = [file EXCEPT ![fd] = NoSocket]
      /\ file[fd] # NoSocket /\ fd \notin Registered
      /\ UNCHANGED <<peer, sent, got, handler, backlog, interest, ready, protocol_handlers_,
                     listeners_, head_key_, running_, events, ev>>
  BY DEF BindFails, handlerVars, Created, Registered
<1>2. HandlersTypeOK'
  BY <1>1 DEF IInv, TypeOK, HandlersTypeOK
<1>3. TypeOK'
  BY <1>1, <1>2 DEF IInv, TypeOK, ThreadPlaces
<1>4. file'[fd] = NoSocket /\ \A fe \in Fds \ {fd} : file'[fe] = file[fe]
  BY <1>1 DEF IInv, TypeOK
<1>5. \A fe \in Fds \ Registered : file'[fe] = NoSocket
  BY <1>1, <1>4 DEF IInv, OneCreated
<1>6. DescriptorsAgree'
  <2>1. Registered' = Registered /\ Registered \subseteq Fds
    BY <1>1 DEF Registered, IInv, TypeOK
  <2>2. \A t \in Peers : Alive(t)' <=> Alive(t)
    BY <1>1 DEF Alive
  <2> QED BY <1>1, <1>4, <1>5, <2>1, <2>2 DEF IInv, DescriptorsAgree
<1>7. EventsAreFresh' /\ BatchEmpty' /\ Dispatched' /\ OneCreated'
  <2>1. events = {} /\ events' = {} /\ Outstanding' = {}
    BY <1>1 DEF IInv, BatchEmpty, Outstanding
  <2> QED BY <1>1, <2>1 DEF EventsAreFresh, BatchEmpty, Dispatched, OneCreated
<1>8. Strangers'
  <2>1. \A c \in Clients : c # NoSocket
    BY SocketsApart DEF Sockets, Peers
  <2> QED BY <1>1, <1>4, <2>1 DEF IInv, Strangers
<1> QED BY <1>3, <1>6, <1>7, <1>8 DEF IInv

(* Registration of an open descriptor, whose socket no other one refers to.  *)
LEMMA RegisterAgrees ==
  ASSUME IInv, NEW fd \in Fds \ Registered, NEW s \in Sockets, RegisterProtocol(fd, s),
         file' \in [Fds -> Sockets \cup {NoSocket}], file'[fd] = s,
         \A fe \in Fds \ {fd} : file'[fe] = file[fe] /\ file[fe] # s,
         \A fe \in Fds \ Registered : fe # fd => file[fe] = NoSocket,
         s \in Peers => handler'[s].life = "live",
         \A t \in Peers \ {s} : handler'[t].life = handler[t].life
  PROVE  /\ DescriptorsAgree' /\ Registered' = Registered \cup {fd}
         /\ ready' \subseteq interest' /\ interest' \subseteq Fds /\ listeners_' \subseteq Fds
         /\ Registered' \subseteq Fds /\ protocol_handlers_' \in [Registered' -> Sockets]
<1>1. /\ protocol_handlers_' = WithHandler(fd, s) /\ interest' = interest \cup {fd}
      /\ listeners_' = IF s = Listener THEN listeners_ \cup {fd} ELSE listeners_
      /\ ready' \subseteq ready \cup {fd}
  BY DEF RegisterProtocol, AddToEpoll
<1>2. /\ Registered' = Registered \cup {fd}
      /\ protocol_handlers_'[fd] = s
      /\ \A f \in Registered : protocol_handlers_'[f] = protocol_handlers_[f] /\ f # fd
  BY <1>1 DEF Registered, WithHandler
<1>3. /\ Registered \subseteq Fds /\ interest = Registered /\ ready \subseteq interest
      /\ listeners_ = {f \in Registered : protocol_handlers_[f] = Listener}
      /\ \A f \in Registered : file[f] = protocol_handlers_[f] /\ protocol_handlers_[f] \in Sockets
  BY DEF IInv, TypeOK, DescriptorsAgree, Registered
<1>4. protocol_handlers_' \in [Registered' -> Sockets]
  BY <1>1, <1>2, <1>3 DEF WithHandler, Registered
<1>5. /\ interest' = Registered'
      /\ \A f \in Registered' : file'[f] = protocol_handlers_'[f]
      /\ listeners_' = {f \in Registered' : protocol_handlers_'[f] = Listener}
  BY <1>1, <1>2, <1>3
<1>6. ASSUME NEW t \in Peers
      PROVE  Alive(t)' <=> \E f \in Registered' : protocol_handlers_'[f] = t
  <2>1. CASE t = s
    BY <1>2, <2>1 DEF Alive
  <2>2. CASE t # s
    <3>1. Alive(t)' <=> Alive(t)
      BY <2>2 DEF Alive
    <3>2. Alive(t) <=> \E f \in Registered : protocol_handlers_[f] = t
      BY DEF IInv, DescriptorsAgree
    <3> QED BY <1>2, <2>2, <3>1, <3>2
  <2> QED BY <2>1, <2>2
<1>7. \A f, g \in Fds : file'[f] = file'[g] /\ file'[f] # NoSocket => f = g
  BY DEF IInv, DescriptorsAgree
<1>8. \A f \in Fds \ Registered' : file'[f] = NoSocket
  BY <1>2
<1>9. DescriptorsAgree'
  BY <1>5, <1>6, <1>7, <1>8 DEF DescriptorsAgree
<1> QED BY <1>1, <1>2, <1>3, <1>4, <1>9

LEMMA SetUpKeeps ==
  ASSUME IInv, NEW fd \in Fds, NEW s \in UdpSockets \cup {Listener}, SetUp(fd, s)
  PROVE  IInv'
<1>1. /\ at = "bound" /\ at' = "setup" /\ file[fd] = s /\ fd \notin Registered
      /\ file[fd] # NoSocket /\ RegisterProtocol(fd, s)
      /\ handler' = IF s = Listener THEN handler ELSE [handler EXCEPT ![s] = NewHandler(TRUE)]
      /\ UNCHANGED <<peer, sent, got, file, backlog, head_key_, running_, events, ev>>
  BY DEF SetUp, Created, Registered
<1>2. s \in Sockets /\ (s # Listener => s \in Peers)
  BY SocketsApart DEF Sockets, Peers
<1>3. handler \in [Peers -> HandlerRecords]
  BY DEF IInv, TypeOK, HandlersTypeOK
<1>4. /\ s \in Peers => handler'[s].life = "live"
      /\ \A t \in Peers \ {s} : handler'[t].life = handler[t].life
  BY <1>1, <1>2, <1>3, SocketsApart, HandlerValues
<1>5. /\ file' \in [Fds -> Sockets \cup {NoSocket}] /\ file'[fd] = s
      /\ \A fe \in Fds \ {fd} : file'[fe] = file[fe] /\ file[fe] # s
      /\ \A fe \in Fds \ Registered : fe # fd => file[fe] = NoSocket
  BY <1>1 DEF IInv, TypeOK, DescriptorsAgree, OneCreated
<1>6. /\ DescriptorsAgree' /\ Registered' = Registered \cup {fd}
      /\ ready' \subseteq interest' /\ interest' \subseteq Fds /\ listeners_' \subseteq Fds
      /\ Registered' \subseteq Fds /\ protocol_handlers_' \in [Registered' -> Sockets]
  BY <1>1, <1>2, <1>4, <1>5, RegisterAgrees
<1>7. HandlersTypeOK'
  <2>1. CASE s = Listener
    BY <1>1, <2>1 DEF IInv, TypeOK, HandlersTypeOK
  <2>2. CASE s # Listener
    <3>1. handler' = [t \in Peers |-> IF t \in {s} THEN NewHandler(TRUE) ELSE handler[t]]
      BY <1>1, <1>3, <2>2
    <3>2. /\ got' \in [Peers -> Nat] /\ HandlersTypeOK
          /\ \A t \in Peers : got[t] <= got'[t] /\ got'[t] <= sent[t]
      BY <1>1 DEF IInv, TypeOK, HandlersTypeOK
    <3>3. {s} \in SUBSET Peers /\ UNCHANGED <<peer, sent>>
      BY <1>1, <1>2, <2>2
    <3> QED BY <3>1, <3>2, <3>3, FreshKeeps, HandlerValues
  <2> QED BY <2>1, <2>2
<1>8. TypeOK'
  BY <1>1, <1>6, <1>7 DEF IInv, TypeOK, ThreadPlaces, Registered
<1>9. EventsAreFresh' /\ BatchEmpty' /\ Dispatched' /\ OneCreated'
  <2>1. events = {} /\ events' = {} /\ Outstanding' = {}
    BY <1>1 DEF IInv, BatchEmpty, Outstanding
  <2> QED BY <1>1, <2>1 DEF EventsAreFresh, BatchEmpty, Dispatched, OneCreated
<1>10. Strangers'
  BY <1>1, StrangersQuiet DEF IInv, TypeOK
<1> QED BY <1>6, <1>8, <1>9, <1>10 DEF IInv

LEMMA AcceptKeeps ==
  ASSUME IInv, Accept
  PROVE  IInv'
<1>1. PICK fd \in NewFds, c \in backlog :
        /\ file' = [file EXCEPT ![fd] = c]
        /\ backlog' = backlog \ {c}
        /\ \/ /\ RegisterProtocol(fd, c)
              /\ handler' = [handler EXCEPT ![c] = NewHandler(head_key_)]
              /\ UNCHANGED <<at, events, ev>>
           \/ RegisterThrows /\ UNCHANGED handler
  BY DEF Accept
<1>2. at = "accept" /\ head_key_' = FALSE /\ UNCHANGED <<peer, sent, got, running_>>
  BY DEF Accept
<1>3. /\ fd \in Fds /\ file[fd] = NoSocket /\ c \in Clients /\ c \in Peers /\ c \in Sockets
      /\ c # Listener /\ peer[c] # "absent" /\ \A fe \in Fds : file[fe] # c
      /\ file \in [Fds -> Sockets \cup {NoSocket}]
  BY SocketsApart DEF NewFds, FreeFds, IInv, TypeOK, Strangers, Sockets, Peers
<1>4. fd \notin Registered
  BY <1>3, SocketsApart DEF IInv, DescriptorsAgree, TypeOK, Registered
<1>5. /\ file'[fd] = c /\ \A fe \in Fds \ {fd} : file'[fe] = file[fe] /\ file[fe] # c
      /\ file' \in [Fds -> Sockets \cup {NoSocket}]
  BY <1>1, <1>3
<1>6. \A fe \in Fds \ Registered : fe # fd => file[fe] = NoSocket
  BY <1>2 DEF IInv, DescriptorsAgree
<1>7. Strangers'
  BY <1>1, <1>2, <1>3, <1>5 DEF IInv, Strangers
<1>8. CASE /\ RegisterProtocol(fd, c)
           /\ handler' = [handler EXCEPT ![c] = NewHandler(head_key_)]
           /\ UNCHANGED <<at, events, ev>>
  <2>1. handler \in [Peers -> HandlerRecords] /\ head_key_ \in BOOLEAN
    BY DEF IInv, TypeOK, HandlersTypeOK
  <2>2. /\ handler'[c].life = "live"
        /\ \A t \in Peers \ {c} : handler'[t].life = handler[t].life
    BY <1>3, <1>8, <2>1, HandlerValues
  <2>3. /\ DescriptorsAgree' /\ Registered' = Registered \cup {fd}
        /\ ready' \subseteq interest' /\ interest' \subseteq Fds /\ listeners_' \subseteq Fds
        /\ Registered' \subseteq Fds /\ protocol_handlers_' \in [Registered' -> Sockets]
    BY <1>3, <1>4, <1>5, <1>6, <1>8, <2>2, RegisterAgrees
  <2>4. HandlersTypeOK'
    <3>1. handler' = [t \in Peers |-> IF t \in {c} THEN NewHandler(head_key_) ELSE handler[t]]
      BY <1>3, <1>8, <2>1
    <3>2. /\ got' \in [Peers -> Nat] /\ HandlersTypeOK
          /\ \A t \in Peers : got[t] <= got'[t] /\ got'[t] <= sent[t]
      BY <1>2 DEF IInv, TypeOK, HandlersTypeOK
    <3>3. {c} \in SUBSET Peers /\ UNCHANGED <<peer, sent>>
      BY <1>2, <1>3
    <3> QED BY <2>1, <3>1, <3>2, <3>3, FreshKeeps, HandlerValues
  <2>5. TypeOK'
    BY <1>1, <1>2, <1>5, <1>8, <2>3, <2>4 DEF IInv, TypeOK, Registered
  <2>6. EventsAreFresh'
    <3>1. Outstanding' = Outstanding
      BY <1>8 DEF Outstanding
    <3>2. ASSUME NEW e \in Outstanding PROVE e.fd \in Registered' /\ file'[e.fd] = e.socket
      <4>1. e.fd \in Registered /\ file[e.fd] = e.socket /\ Registered \subseteq Fds
        BY DEF IInv, EventsAreFresh, TypeOK, Registered
      <4> QED BY <1>4, <1>5, <2>3, <4>1
    <3> QED BY <1>8, <3>1, <3>2 DEF IInv, EventsAreFresh
  <2>7. OneCreated' /\ BatchEmpty' /\ Dispatched'
    BY <1>2, <1>8 DEF OneCreated, BatchEmpty, Dispatched
  <2> QED BY <1>7, <2>3, <2>5, <2>6, <2>7 DEF IInv
<1>9. CASE RegisterThrows /\ UNCHANGED handler
  <2>1. /\ at' = "thrown" /\ events' = {} /\ ev' = NoEvent
        /\ UNCHANGED <<interest, ready, protocol_handlers_, listeners_, handler>>
    BY <1>9 DEF RegisterThrows
  <2>2. HandlersTypeOK'
    BY <1>2, <2>1 DEF IInv, TypeOK, HandlersTypeOK
  <2>3. TypeOK'
    BY <1>1, <1>2, <1>5, <2>1, <2>2 DEF IInv, TypeOK, ThreadPlaces
  <2>4. DescriptorsAgree'
    <3>1. Registered' = Registered /\ Registered \subseteq Fds
      BY <2>1 DEF Registered, IInv, TypeOK
    <3>2. \A t \in Peers : Alive(t)' <=> Alive(t)
      BY <2>1 DEF Alive
    <3> QED BY <1>3, <1>4, <1>5, <2>1, <3>1, <3>2 DEF IInv, DescriptorsAgree
  <2>5. EventsAreFresh' /\ OneCreated' /\ BatchEmpty' /\ Dispatched'
    <3>1. Outstanding' = {}
      BY <2>1 DEF Outstanding
    <3> QED BY <2>1, <3>1 DEF EventsAreFresh, OneCreated, BatchEmpty, Dispatched
  <2> QED BY <1>7, <2>3, <2>4, <2>5 DEF IInv
<1> QED BY <1>1, <1>8, <1>9

(* The descriptor of the event is closed, and its handler freed.             *)
LEMMA UnregisterKeeps ==
  ASSUME IInv, at \in {"read", "check"}, UnregisterFd(ev.fd),
         UNCHANGED <<peer, sent, backlog, head_key_, running_>>,
         got' \in [Peers -> Nat], \A t \in Peers : got[t] <= got'[t] /\ got'[t] <= sent[t],
         \/ at' = "check_freed" /\ UNCHANGED <<events, ev>>
         \/ NextEvent
  PROVE  IInv'
<1> DEFINE fd == ev.fd
           s == protocol_handlers_[fd]
<1>1. /\ interest' = interest \ {fd} /\ ready' = ready \ {fd}
      /\ protocol_handlers_' = Without(fd) /\ listeners_' = listeners_ \ {fd}
      /\ file' = [file EXCEPT ![fd] = NoSocket]
      /\ handler' = [handler EXCEPT ![s] = FreedHandler]
  BY DEF UnregisterFd
<1>2. /\ fd \in Registered /\ fd \in Fds /\ s \in Peers /\ file[fd] = s /\ ev \in Outstanding
      /\ Registered \subseteq Fds /\ interest = Registered /\ ready \subseteq interest
      /\ listeners_ = {f \in Registered : protocol_handlers_[f] = Listener}
      /\ file \in [Fds -> Sockets \cup {NoSocket}]
      /\ \A f \in Registered : file[f] = protocol_handlers_[f] /\ protocol_handlers_[f] \in Sockets
  BY DEF IInv, TypeOK, Dispatched, DescriptorsAgree, Outstanding, Registered, Sockets
<1> HIDE DEF fd, s
<1>3. /\ Registered' = Registered \ {fd}
      /\ \A f \in Registered' : protocol_handlers_'[f] = protocol_handlers_[f]
      /\ protocol_handlers_' \in [Registered' -> Sockets]
  BY <1>1, <1>2 DEF Registered, Without
<1>4. /\ file' \in [Fds -> Sockets \cup {NoSocket}] /\ file'[fd] = NoSocket
      /\ \A f \in Fds \ {fd} : file'[f] = file[f]
  BY <1>1, <1>2
<1>5. \A f \in Registered' : protocol_handlers_[f] # s
  BY <1>2, <1>3, SocketsApart DEF IInv, DescriptorsAgree, Sockets
<1>6. handler \in [Peers -> HandlerRecords]
  BY DEF IInv, TypeOK, HandlersTypeOK
<1>7. /\ events' = events /\ at' \in {"check_freed", "loop", "dispatch"}
      /\ at' = "loop" => events = {}
      /\ ev' = IF at' = "check_freed" THEN ev ELSE NoEvent
  BY DEF NextEvent
<1>8. ev \in Events /\ NoEvent \notin Events
  BY SocketsApart DEF IInv, TypeOK
<1>9. HandlersTypeOK'
  <2>1. handler' = [t \in Peers |-> IF t \in {s} THEN FreedHandler ELSE handler[t]]
    BY <1>1, <1>6
  <2>2. {s} \in SUBSET Peers /\ HandlersTypeOK
    BY <1>2 DEF IInv, TypeOK
  <2> QED BY <2>1, <2>2, FreshKeeps, HandlerValues
<1>10. TypeOK'
  <2>1. /\ ready' \subseteq interest' /\ interest' \subseteq Fds /\ listeners_' \subseteq Fds
        /\ Registered' \subseteq Fds
    BY <1>1, <1>2, <1>3
  <2> QED BY <1>3, <1>4, <1>7, <1>8, <1>9, <2>1 DEF IInv, TypeOK, ThreadPlaces, Registered
<1>11. DescriptorsAgree'
  <2>1. /\ interest' = Registered'
        /\ \A f \in Registered' : file'[f] = protocol_handlers_'[f]
        /\ listeners_' = {f \in Registered' : protocol_handlers_'[f] = Listener}
    BY <1>1, <1>2, <1>3, <1>4
  <2>2. ASSUME NEW t \in Peers
        PROVE  Alive(t)' <=> \E f \in Registered' : protocol_handlers_'[f] = t
    <3>1. CASE t = s
      <4>1. ~Alive(t)'
        BY <1>1, <1>2, <1>6, <3>1, HandlerValues DEF Alive
      <4> QED BY <1>3, <1>5, <3>1, <4>1
    <3>2. CASE t # s
      <4>1. Alive(t)' <=> Alive(t)
        BY <1>1, <1>6, <3>2 DEF Alive
      <4>2. Alive(t) <=> \E f \in Registered : protocol_handlers_[f] = t
        BY DEF IInv, DescriptorsAgree
      <4>3. protocol_handlers_[fd] # t
        BY <3>2 DEF s
      <4> QED BY <1>3, <4>1, <4>2, <4>3
    <3> QED BY <3>1, <3>2
  <2>3. \A f, g \in Fds : file'[f] = file'[g] /\ file'[f] # NoSocket => f = g
    BY <1>4 DEF IInv, DescriptorsAgree
  <2>4. \A f \in Fds \ Registered' : file'[f] = NoSocket
    BY <1>3, <1>4 DEF IInv, DescriptorsAgree
  <2> QED BY <2>1, <2>2, <2>3, <2>4 DEF DescriptorsAgree
<1>12. EventsAreFresh'
  <2>1. Outstanding' = events /\ events \subseteq Outstanding
    BY <1>7 DEF Outstanding
  <2>2. ASSUME NEW e \in events PROVE e.fd \in Registered' /\ file'[e.fd] = e.socket
    <3>1. e.fd # fd
      BY <1>2, <2>1 DEF IInv, EventsAreFresh, fd
    <3>2. e.fd \in Registered /\ file[e.fd] = e.socket
      BY <2>1 DEF IInv, EventsAreFresh
    <3> QED BY <1>2, <1>3, <1>4, <3>1, <3>2
  <2>3. ev' \notin events'
    BY <1>7, <1>8 DEF IInv, EventsAreFresh, TypeOK
  <2> QED BY <2>1, <2>2, <2>3 DEF IInv, EventsAreFresh
<1>13. Strangers'
  <2>1. \A c \in Clients : c # NoSocket
    BY SocketsApart DEF Sockets, Peers
  <2> QED BY <1>4, <2>1 DEF IInv, Strangers
<1>14. OneCreated' /\ BatchEmpty' /\ Dispatched'
  BY <1>7 DEF OneCreated, BatchEmpty, Dispatched
<1> QED BY <1>10, <1>11, <1>12, <1>13, <1>14 DEF IInv

LEMMA CatchKeeps ==
  ASSUME IInv, Catch
  PROVE  IInv'
<1>1. /\ at = "read" /\ at' = "check_freed" /\ UnregisterFd(ev.fd) /\ This \in Peers
      /\ UNCHANGED <<peer, sent, backlog, head_key_, running_, events, ev>>
  BY DEF Catch, TcpThrow, Peers
<1>2. PICK n \in 1..Unread(This) : got' = [got EXCEPT ![This] = @ + n]
  BY DEF Catch, TcpThrow
<1>3. got \in [Peers -> Nat] /\ sent \in [Peers -> Nat] /\ \A t \in Peers : got[t] <= sent[t]
  BY DEF IInv, TypeOK, HandlersTypeOK
<1>4. n \in Nat /\ got[This] + n <= sent[This]
  BY <1>1, <1>2, <1>3 DEF Unread
<1>5. got' \in [Peers -> Nat] /\ \A t \in Peers : got[t] <= got'[t] /\ got'[t] <= sent[t]
  BY <1>1, <1>2, <1>3, <1>4
<1> QED BY <1>1, <1>5, UnregisterKeeps

LEMMA CheckKeeps ==
  ASSUME IInv, Check
  PROVE  IInv'
<1>1. at = "check" /\ NextEvent /\ UNCHANGED <<peer, sent, got, backlog, head_key_, running_>>
  BY DEF Check
<1>2. CASE UnregisterFd(ev.fd)
  <2>1. got' \in [Peers -> Nat] /\ \A t \in Peers : got[t] <= got'[t] /\ got'[t] <= sent[t]
    BY <1>1 DEF IInv, TypeOK, HandlersTypeOK
  <2> QED BY <1>1, <1>2, <2>1, UnregisterKeeps
<1>3. CASE UNCHANGED <<interest, ready, protocol_handlers_, listeners_, file, handler>>
  <2>1. HandlersKept
    BY <1>1, <1>3, QuietKeeps DEF IInv, TypeOK
  <2> QED BY <1>1, <1>3, <2>1, NextEventKeeps
<1> QED BY <1>2, <1>3 DEF Check

LEMMA DestroyKeeps ==
  ASSUME IInv, Destroy
  PROVE  IInv'
<1>1. /\ at \in {"setup", "returned", "thrown"} /\ at' = "destroyed"
      /\ file' = [fd \in Fds |-> IF fd \in DOMAIN protocol_handlers_ THEN NoSocket ELSE file[fd]]
      /\ interest' = {} /\ ready' = {} /\ listeners_' = {}
      /\ protocol_handlers_' = [fd \in {} |-> NoSocket]
      /\ handler' = [s \in Peers |-> IF Alive(s) THEN FreedHandler ELSE handler[s]]
      /\ UNCHANGED <<peer, sent, got, backlog, head_key_, running_, events, ev>>
  BY DEF Destroy
<1>2. HandlersTypeOK'
  <2> DEFINE S == {s \in Peers : Alive(s)}
  <2>1. handler' = [t \in Peers |-> IF t \in S THEN FreedHandler ELSE handler[t]]
    BY <1>1
  <2>2. S \in SUBSET Peers /\ HandlersTypeOK
    BY DEF IInv, TypeOK
  <2>3. got' \in [Peers -> Nat] /\ \A t \in Peers : got[t] <= got'[t] /\ got'[t] <= sent[t]
    BY <1>1 DEF IInv, TypeOK, HandlersTypeOK
  <2> HIDE DEF S
  <2> QED BY <1>1, <2>1, <2>2, <2>3, FreshKeeps, HandlerValues
<1>3. Registered' = {} /\ protocol_handlers_' \in [Registered' -> Sockets]
  BY <1>1 DEF Registered
<1>4. file' \in [Fds -> Sockets \cup {NoSocket}] /\ \A fd \in Fds : file'[fd] \in {file[fd], NoSocket}
  BY <1>1 DEF IInv, TypeOK
<1>5. events = {} /\ events' = {} /\ ev' = NoEvent /\ Outstanding' = {}
  BY <1>1 DEF IInv, BatchEmpty, TypeOK, Outstanding
<1>6. TypeOK'
  BY <1>1, <1>2, <1>3, <1>4, <1>5 DEF IInv, TypeOK, ThreadPlaces, Registered
<1>7. DescriptorsAgree'
  <2>1. \A s \in Peers : ~Alive(s)'
    BY <1>1, HandlerValues DEF Alive
  <2>2. \A f, g \in Fds : file'[f] = file'[g] /\ file'[f] # NoSocket => f = g
    BY <1>4 DEF IInv, DescriptorsAgree
  <2> QED BY <1>1, <1>3, <2>1, <2>2 DEF DescriptorsAgree
<1>8. EventsAreFresh' /\ OneCreated' /\ BatchEmpty' /\ Dispatched'
  BY <1>1, <1>5 DEF EventsAreFresh, OneCreated, BatchEmpty, Dispatched
<1>9. Strangers'
  <2>1. \A c \in Clients : c # NoSocket
    BY SocketsApart DEF Sockets, Peers
  <2> QED BY <1>1, <1>4, <2>1 DEF IInv, Strangers
<1> QED BY <1>6, <1>7, <1>8, <1>9 DEF IInv

LEMMA StepKeeps == IInv /\ Step => IInv'
<1> SUFFICES ASSUME IInv, Step PROVE IInv'
  OBVIOUS
<1>1. CASE Loop
  <2>1. PICK place \in {"wait", "returned"} : Go(place)
    BY <1>1 DEF Loop
  <2> QED BY <1>1, <2>1, GoKeeps DEF Loop
<1>2. CASE EpollWait
  BY <1>2, EpollWaitKeeps
<1>3. CASE DispatchListener
  BY <1>3, DispatchListenerKeeps
<1>4. CASE HandleEvent
  BY <1>4, HandleEventKeeps
<1>5. CASE Read \/ Hang \/ ReadEnds
  BY <1>5, ReadKeeps
<1>6. CASE Catch
  BY <1>6, CatchKeeps
<1>7. CASE CheckFreed
  BY <1>7, CheckFreedKeeps
<1>8. CASE Check
  BY <1>8, CheckKeeps
<1>9. CASE Accept
  BY <1>9, AcceptKeeps
<1>10. CASE AcceptDone
  BY <1>10, AcceptDoneKeeps
<1> QED BY <1>1, <1>2, <1>3, <1>4, <1>5, <1>6, <1>7, <1>8, <1>9, <1>10 DEF Step

LEMMA StutterKeeps ==
  ASSUME IInv, UNCHANGED vars
  PROVE  IInv'
<1>1. HandlersKept
  BY QuietKeeps DEF IInv, TypeOK, vars, handlerVars
<1>2. ready' \subseteq interest /\ running_' \in BOOLEAN /\ head_key_' \in BOOLEAN
  BY DEF IInv, TypeOK, vars, reactorVars
<1> QED BY <1>1, <1>2, OnwardKeeps DEF vars, reactorVars

LEMMA NextKeeps == IInv /\ [Next]_vars => IInv'
<1> SUFFICES ASSUME IInv, [Next]_vars PROVE IInv'
  OBVIOUS
<1>1. ASSUME NEW fd \in NewFds, NEW s \in UdpSockets \cup {Listener}, OpenSocket(fd, s)
      PROVE  IInv'
  BY <1>1, OpenSocketKeeps
<1>2. ASSUME NEW fd \in Fds, BindFails(fd) PROVE IInv'
  BY <1>2, BindFailsKeeps
<1>3. ASSUME NEW fd \in Fds, NEW s \in UdpSockets \cup {Listener}, SetUp(fd, s) PROVE IInv'
  BY <1>3, SetUpKeeps
<1>4. CASE Bind
  BY <1>4, GoKeeps DEF Bind
<1>5. CASE Run
  BY <1>5, GoKeeps DEF Run
<1>6. CASE Step
  BY <1>6, StepKeeps
<1>7. CASE Interrupted
  BY <1>7, GoKeeps DEF Interrupted
<1>8. CASE AcceptFails \/ Asleep \/ UNCHANGED vars
  BY <1>8, StutterKeeps DEF AcceptFails, Asleep
<1>9. CASE Stop
  BY <1>9, StopKeeps
<1>10. CASE Destroy
  BY <1>10, DestroyKeeps
<1>11. ASSUME NEW c \in Clients, Connect(c) PROVE IInv'
  BY <1>11, ConnectKeeps
<1>12. ASSUME NEW s \in Peers, Far(s) PROVE IInv'
  BY <1>12, FarKeeps
<1>13. ASSUME NEW i \in 1..Len(tasks), Task_(i) PROVE IInv'
  BY <1>13, TaskKeeps
<1> QED BY <1>1, <1>2, <1>3, <1>4, <1>5, <1>6, <1>7, <1>8, <1>9, <1>10, <1>11, <1>12, <1>13 DEF Next

(* The strengthening of the three theorems below, which the loop, its owner,  *)
(* the peers and the pool's threads all keep.                                *)
THEOREM Invariance == Spec => []IInv
<1> QED BY InitIInv, NextKeeps, PTL DEF Spec

(* The types of the reactor's and the handlers' state: no ring holds more    *)
(* than it has room for, and no handler takes more than was sent to it.      *)
THEOREM TypeCorrect == Spec => []TypeOK
<1>1. IInv => TypeOK
  BY DEF IInv
<1> QED BY <1>1, Invariance, PTL

(* For any number of descriptors, clients and events in a batch: the kernel, *)
(* the epoll set and the reactor's two records never disagree on what a      *)
(* descriptor is, whatever is accepted, closed and given out again.          *)
THEOREM DescriptorsStayAgreed == Spec => []DescriptorsAgree
<1>1. IInv => DescriptorsAgree
  BY DEF IInv
<1> QED BY <1>1, Invariance, PTL

(* For batches of any size: no event is dealt with for a descriptor that was *)
(* closed, or closed and reused, by the events dealt with before it.         *)
THEOREM EventsStayFresh == Spec => []EventsAreFresh
<1>1. IInv => EventsAreFresh
  BY DEF IInv
<1> QED BY <1>1, Invariance, PTL
=============================================================================
