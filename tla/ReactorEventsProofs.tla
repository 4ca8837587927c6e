------------------------- MODULE ReactorEventsProofs -------------------------
(***************************************************************************)
(* That the reactor, which is told of everything once, forgets nothing,    *)
(* that it closes no connection with something left to read, and that a    *)
(* client that waits for its callbacks gets every packet once.             *)
(***************************************************************************)
EXTENDS ReactorProofs, FiniteSetTheorems

(***************************************************************************)
(* The rest of the invariant: what is reported is to be read or refused,   *)
(* and is refused for good reason; accept is left with the backlog empty,  *)
(* and a handler that is not to be closed with nothing more to notice; the *)
(* one that is to be closed has nothing left.                              *)
(***************************************************************************)
Reported ==
  \A e \in events :
    /\ "kReadable" \in e.flags \/ "kError" \in e.flags
    /\ e.socket \in Clients /\ Refuses(e.socket, e.flags) => peer[e.socket] = "reset"

(* Flags(file[fd]) # {}. *)
Told(fd) ==
  \/ file[fd] = Listener /\ backlog # {}
  \/ /\ file[fd] # Listener
     /\ \/ Unread(file[fd]) > 0
        \/ peer[file[fd]] = "reset"
        \/ file[fd] \in Clients /\ peer[file[fd]] # "open"

Noticed(fd) ==
  Told(fd) => fd \in ready \/ (\E e \in Outstanding : e.fd = fd) \/ Stalled(file[fd])

Handled ==
  /\ at = "accept" => ev.fd \in listeners_
  /\ at = "check" /\ ~handler[This].should_close =>
       (Told(ev.fd) => ev.fd \in ready \/ Stalled(file[ev.fd]))

Drained ==
  \A s \in Clients : Alive(s) /\ handler[s].should_close =>
    peer[s] = "reset" \/ (peer[s] = "fin" /\ Unread(s) = 0)

JInv ==
  /\ IInv
  /\ at # "thrown" => \A fd \in interest : Noticed(fd)
  /\ Reported /\ Handled /\ Drained

-----------------------------------------------------------------------------
LEMMA ToldFlags == \A fd : Told(fd) <=> Flags(file[fd]) # {}
BY DEF Told, Flags

LEMMA NoticedForgotten ==
  (at # "thrown" => \A fd \in interest : Noticed(fd)) => NothingForgotten
BY ToldFlags DEF Noticed, NothingForgotten

(* A descriptor that stays what it is, and whose socket has no news.         *)
LEMMA StillNoticed ==
  ASSUME NEW fd, Noticed(fd), file'[fd] = file[fd], file[fd] \in Sockets,
         file[fd] = Listener => (backlog' # {} => backlog # {}),
         file[fd] \in Peers =>
           /\ peer'[file[fd]] = peer[file[fd]] /\ sent'[file[fd]] = sent[file[fd]]
           /\ got'[file[fd]] = got[file[fd]]
           /\ handler'[file[fd]].life = handler[file[fd]].life
           /\ handler'[file[fd]].ring = handler[file[fd]].ring,
         fd \in ready => fd \in ready' \/ (\E e \in Outstanding' : e.fd = fd),
         (\E e \in Outstanding : e.fd = fd) => \E e \in Outstanding' : e.fd = fd
  PROVE  Noticed(fd)'
<1>1. Told(fd)' => Told(fd)
  BY SocketsApart DEF Told, Unread, Sockets
<1>2. Stalled(file[fd]) => Stalled(file[fd])'
  BY DEF Stalled, Alive, BufferFull
<1> QED BY <1>1, <1>2 DEF Noticed

LEMMA InitJInv == Init => JInv
<1> SUFFICES ASSUME Init PROVE JInv
  OBVIOUS
<1>1. IInv
  BY InitIInv
<1>2. interest = {} /\ events = {} /\ at = "setup"
  BY DEF Init
<1>3. \A s \in Peers : ~Alive(s)
  BY HandlerValues DEF Init, InitHandlers, Alive
<1> QED BY <1>1, <1>2, <1>3 DEF JInv, Reported, Handled, Drained, Peers

(* Steps that leave the handlers, the peers and what is registered alone.    *)
LEMMA CalmKeeps ==
  ASSUME JInv, IInv', UNCHANGED <<peer, sent, got, handler, backlog, interest, listeners_>>,
         ready \subseteq ready', at' # "thrown" => at # "thrown", events' \subseteq events,
         \A fd \in interest : file'[fd] = file[fd],
         \A fd \in interest : (\E e \in Outstanding : e.fd = fd) =>
                               (\E e \in Outstanding' : e.fd = fd),
         at' = "accept" => ev'.fd \in listeners_,
         at' = "check" => at = "check" /\ UNCHANGED <<ev, file, protocol_handlers_>>
  PROVE  JInv'
<1>1. ASSUME at' # "thrown", NEW fd \in interest PROVE Noticed(fd)'
  <2>1. file[fd] \in Sockets /\ Noticed(fd)
    BY <1>1 DEF JInv, IInv, DescriptorsAgree, TypeOK, Registered
  <2> QED BY <1>1, <2>1, StillNoticed
<1>2. Reported' /\ Drained'
  BY DEF JInv, Reported, Drained, Alive, Unread
<1>3. Handled'
  <2>1. CASE at' = "check"
    BY <2>1 DEF JInv, Handled, Told, Stalled, Alive, BufferFull, This, Unread
  <2>2. CASE at' # "check"
    BY <2>2 DEF Handled
  <2> QED BY <2>1, <2>2
<1> QED BY <1>1, <1>2, <1>3 DEF JInv

LEMMA GoCalm ==
  ASSUME JInv, NEW place, Go(place), UNCHANGED handlerVars,
         \/ at = "bind" /\ place = "bound"
         \/ at \in {"setup", "wait"} /\ place = "loop"
         \/ at = "loop" /\ place \in {"wait", "returned"}
  PROVE  JInv'
<1>1. IInv'
  BY GoKeeps DEF JInv
<1>2. /\ UNCHANGED <<peer, sent, got, handler, file, backlog, interest, ready, listeners_, events, ev>>
      /\ at' = place
  BY DEF Go, handlerVars
<1>3. events = {} /\ Outstanding = {}
  BY DEF JInv, IInv, BatchEmpty, Outstanding
<1> QED BY <1>1, <1>2, <1>3, CalmKeeps

LEMMA OwnerCalm ==
  ASSUME JInv,
         \/ \E fd \in NewFds, s \in UdpSockets \cup {Listener} : OpenSocket(fd, s)
         \/ \E fd \in Fds : BindFails(fd)
  PROVE  JInv'
<1>1. IInv'
  BY OpenSocketKeeps, BindFailsKeeps DEF JInv
<1>2. /\ UNCHANGED <<peer, sent, got, handler, backlog, interest, ready, listeners_, events, ev>>
      /\ at \in {"setup", "bind"} /\ at' \in {"bind", "setup"}
      /\ \E fd \in Fds : \E s \in Sockets \cup {NoSocket} :
           fd \notin Registered /\ file' = [file EXCEPT ![fd] = s]
  <2>1. \A fd \in Registered : file[fd] # NoSocket
    BY SocketsApart DEF JInv, IInv, DescriptorsAgree, TypeOK, Registered
  <2>2. ASSUME NEW fd \in NewFds, NEW s \in UdpSockets \cup {Listener}, OpenSocket(fd, s)
        PROVE  <1>2!:
    BY <2>1, <2>2 DEF OpenSocket, handlerVars, NewFds, FreeFds, Sockets, Peers
  <2>3. ASSUME NEW fd \in Fds, BindFails(fd) PROVE <1>2!:
    BY <2>3 DEF BindFails, handlerVars, Created, Registered
  <2> QED BY <2>2, <2>3
<1>3. Outstanding = {}
  BY <1>2 DEF JInv, IInv, BatchEmpty, Outstanding
<1>4. \A fd \in interest : file'[fd] = file[fd]
  BY <1>2 DEF JInv, IInv, DescriptorsAgree, TypeOK
<1> QED BY <1>1, <1>2, <1>3, <1>4, CalmKeeps

LEMMA DispatchListenerCalm ==
  ASSUME JInv, DispatchListener
  PROVE  JInv'
<1>1. IInv'
  BY DispatchListenerKeeps DEF JInv
<1>2. PICK e \in events : e.fd \in listeners_ /\ DispatchTo(e, "accept")
  BY DEF DispatchListener
<1>3. /\ at = "dispatch" /\ at' = "accept" /\ ev' = e /\ events' = events \ {e}
      /\ UNCHANGED <<peer, sent, got, handler, file, backlog, interest, ready, listeners_>>
  BY <1>2 DEF DispatchListener, DispatchTo, handlerVars
<1>4. Outstanding' = Outstanding
  BY <1>3 DEF Outstanding
<1> QED BY <1>1, <1>2, <1>3, <1>4, CalmKeeps

LEMMA CheckFreedCalm ==
  ASSUME JInv, CheckFreed
  PROVE  JInv'
<1>1. IInv'
  BY CheckFreedKeeps DEF JInv
<1>2. /\ at = "check_freed" /\ at' \in {"loop", "dispatch", "crashed"} /\ events' = events
      /\ UNCHANGED <<peer, sent, got, handler, file, backlog, interest, ready, listeners_>>
  BY DEF CheckFreed, NextEvent, handlerVars
<1>3. Outstanding' = Outstanding
  BY <1>2 DEF Outstanding
<1> QED BY <1>1, <1>2, <1>3, CalmKeeps

LEMMA BesideCalm ==
  ASSUME JInv, Stop \/ (\E i \in 1..Len(tasks) : Task_(i)) \/ UNCHANGED vars
  PROVE  JInv'
<1>1. IInv'
  BY StopKeeps, TaskKeeps, StutterKeeps DEF JInv
<1>2. UNCHANGED <<peer, sent, got, handler, file, backlog, interest, ready, protocol_handlers_,
                  listeners_, at, events, ev>>
  BY DEF Stop, Task_, RunTask, vars, handlerVars, reactorVars
<1>3. Outstanding' = Outstanding
  BY <1>2 DEF Outstanding
<1>4. at' = "accept" => ev'.fd \in listeners_
  BY <1>2 DEF JInv, Handled
<1> QED BY <1>1, <1>2, <1>3, <1>4, CalmKeeps

(* A step of the handler of descriptor fd that leaves the others alone.      *)
LEMMA OthersNoticed ==
  ASSUME JInv, NEW fd \in Registered, NEW fe \in Registered, fe # fd, at # "thrown",
         UNCHANGED <<file, backlog, interest>>, ready \subseteq ready',
         \A t \in Peers : t # file[fd] =>
           /\ peer'[t] = peer[t] /\ sent'[t] = sent[t] /\ got'[t] = got[t]
           /\ handler'[t].life = handler[t].life /\ handler'[t].ring = handler[t].ring,
         (\E e \in Outstanding : e.fd = fe) => \E e \in Outstanding' : e.fd = fe
  PROVE  Noticed(fe)'
<1>1. file[fe] \in Sockets /\ Noticed(fe) /\ file[fe] # file[fd]
  BY SocketsApart DEF JInv, IInv, DescriptorsAgree, TypeOK, Registered
<1> QED BY <1>1, StillNoticed

(* A handler that only marks itself to be closed.                            *)
LEMMA MarkKeepsNoticed ==
  ASSUME JInv, NEW s \in Peers, NEW b,
         handler' = [handler EXCEPT ![s].should_close = b],
         UNCHANGED <<peer, sent, got, file, backlog, interest>>, ready \subseteq ready',
         at # "thrown",
         \A fd \in interest : (\E e \in Outstanding : e.fd = fd) =>
                               (\E e \in Outstanding' : e.fd = fd)
  PROVE  \A fd \in interest' : Noticed(fd)'
<1>1. \A t \in Peers : handler'[t].life = handler[t].life /\ handler'[t].ring = handler[t].ring
  BY DEF JInv, IInv, TypeOK, HandlersTypeOK, HandlerRecords
<1>2. ASSUME NEW fd \in interest PROVE Noticed(fd)'
  <2>1. file[fd] \in Sockets /\ Noticed(fd)
    BY DEF JInv, IInv, DescriptorsAgree, TypeOK, Registered
  <2> QED BY <1>1, <2>1, StillNoticed
<1> QED BY <1>2

LEMMA HandleEventTells ==
  ASSUME JInv, HandleEvent
  PROVE  JInv'
<1>1. IInv'
  BY HandleEventKeeps DEF JInv
<1>2. PICK e \in events, s \in Peers :
        /\ e.fd \in DOMAIN protocol_handlers_ \ listeners_ /\ s = protocol_handlers_[e.fd]
        /\ handler' = [handler EXCEPT ![s].should_close = @ \/ Refuses(s, e.flags)]
        /\ DispatchTo(e, IF ~Refuses(s, e.flags) /\ "kReadable" \in e.flags THEN "read"
                                                                            ELSE "check")
  BY DEF HandleEvent
<1>3. /\ at = "dispatch" /\ ev' = e /\ events' = events \ {e}
      /\ at' = IF ~Refuses(s, e.flags) /\ "kReadable" \in e.flags THEN "read" ELSE "check"
      /\ UNCHANGED <<peer, sent, got, file, backlog, interest, ready, protocol_handlers_, listeners_>>
  BY <1>2 DEF HandleEvent, DispatchTo
<1>4. Outstanding' = Outstanding
  BY <1>2, <1>3 DEF Outstanding
<1>5. e.socket = s /\ file[e.fd] = s
  BY <1>2 DEF JInv, IInv, DescriptorsAgree, EventsAreFresh, Outstanding, Registered
<1> DEFINE b == handler[s].should_close \/ Refuses(s, e.flags)
<1>a. handler \in [Peers -> HandlerRecords] /\ handler' = [handler EXCEPT ![s].should_close = b]
  BY <1>2 DEF JInv, IInv, TypeOK, HandlersTypeOK
<1>b. /\ Refuses(s, e.flags) => b
      /\ b => handler[s].should_close \/ Refuses(s, e.flags)
  OBVIOUS
<1> HIDE DEF b
<1>c. \A t \in Peers : handler'[t].life = handler[t].life
  BY <1>2, <1>a DEF HandlerRecords
<1>6. /\ handler'[s].should_close = b
      /\ \A t \in Peers \ {s} : handler'[t] = handler[t]
  BY <1>2, <1>a DEF HandlerRecords
<1>7. \A fd \in interest' : Noticed(fd)'
  BY <1>2, <1>3, <1>4, <1>a, MarkKeepsNoticed
<1>8. Reported'
  BY <1>3 DEF JInv, Reported
<1>9. Handled'
  <2>1. at' = "check" => Refuses(s, e.flags)
    BY <1>2, <1>3 DEF JInv, Reported, Refuses
  <2>2. This' = s
    BY <1>2, <1>3 DEF This
  <2>3. Refuses(s, e.flags) => handler'[s].should_close
    BY <1>b, <1>6
  <2> QED BY <1>3, <2>1, <2>2, <2>3 DEF Handled
<1>10. Drained'
  <2>1. s \in Clients /\ Refuses(s, e.flags) => peer[s] = "reset"
    BY <1>2, <1>5 DEF JInv, Reported
  <2>2. ASSUME NEW t \in Clients, Alive(t)', handler'[t].should_close
        PROVE  peer'[t] = "reset" \/ (peer'[t] = "fin" /\ Unread(t)' = 0)
    <3>0. t \in Peers
      BY DEF Peers
    <3>1. Alive(t)
      BY <1>c, <2>2, <3>0 DEF Alive
    <3>2. handler[t].should_close => peer[t] = "reset" \/ (peer[t] = "fin" /\ Unread(t) = 0)
      BY <3>1 DEF JInv, Drained
    <3>3. peer'[t] = peer[t] /\ Unread(t)' = Unread(t)
      BY <1>3 DEF Unread
    <3>4. CASE t = s
      <4>1. b
        BY <1>6, <2>2, <3>4
      <4> QED BY <1>b, <2>1, <3>2, <3>3, <3>4, <4>1
    <3>5. CASE t # s
      BY <1>6, <2>2, <3>0, <3>2, <3>3, <3>5
    <3> QED BY <3>4, <3>5
  <2> QED BY <2>2 DEF Drained
<1> QED BY <1>1, <1>7, <1>8, <1>9, <1>10 DEF JInv

(* A read loop ends with a full ring or an empty socket.                     *)
LEMMA ReadEndsTells ==
  ASSUME JInv, ReadEnds
  PROVE  JInv'
<1>1. IInv'
  BY ReadKeeps DEF JInv
<1>2. /\ at = "read" /\ at' = "check"
      /\ UNCHANGED <<file, backlog, interest, ready, protocol_handlers_, listeners_, events, ev>>
  BY DEF ReadEnds, Go
<1>3. /\ This \in Peers /\ file[ev.fd] = This /\ This # Listener /\ ev.fd \in interest
      /\ handler \in [Peers -> HandlerRecords] /\ Alive(This)
      /\ sent[This] \in Nat /\ got[This] \in Nat /\ got[This] <= sent[This]
  BY <1>2 DEF JInv, IInv, Dispatched, DescriptorsAgree, TypeOK, HandlersTypeOK, Registered, This, Sockets
<1> DEFINE c == IF This \in Clients
                THEN handler[This].should_close \/ (~BufferFull(This) /\ peer[This] # "open")
                ELSE handler[This].should_close
<1>4. /\ handler' = [handler EXCEPT ![This].should_close = c]
      /\ UNCHANGED <<peer, sent, got>>
      /\ BufferFull(This) \/ (Unread(This) = 0 /\ (This \notin Clients => peer[This] # "reset"))
  <2>1. CASE This \in Clients
    BY <2>1 DEF ReadEnds, TcpReadEnds
  <2>2. CASE This \notin Clients
    BY <1>3, <2>2 DEF ReadEnds, UdpReadEnds, handlerVars, HandlerRecords
  <2> QED BY <2>1, <2>2
<1>a. /\ This \in Clients /\ ~BufferFull(This) /\ peer[This] # "open" => c
      /\ c => handler[This].should_close \/ (This \in Clients => ~BufferFull(This) /\ peer[This] # "open")
  OBVIOUS
<1> HIDE DEF c
<1>5. Outstanding' = Outstanding
  BY <1>2 DEF Outstanding
<1>6. \A fd \in interest' : Noticed(fd)'
  BY <1>2, <1>3, <1>4, <1>5, MarkKeepsNoticed
<1>7. Reported'
  BY <1>2, <1>4 DEF JInv, Reported
<1>8. /\ \A t \in Peers : handler'[t].life = handler[t].life /\ handler'[t].ring = handler[t].ring
      /\ \A t \in Peers \ {This} : handler'[t] = handler[t]
  BY <1>3, <1>4 DEF HandlerRecords
<1>b. handler'[This].should_close = c
  BY <1>3, <1>4 DEF HandlerRecords
<1>9. Handled'
  <2>1. This' = This
    BY <1>2 DEF This
  <2>2. CASE BufferFull(This)
    <3>1. Stalled(file[ev.fd])'
      BY <1>2, <1>3, <1>8, <2>2 DEF Stalled, Alive, BufferFull
    <3> QED BY <1>2, <3>1 DEF Handled
  <2>3. CASE ~BufferFull(This)
    <3>1. CASE c
      <4>1. handler'[This'].should_close
        BY <1>b, <2>1, <3>1
      <4> QED BY <1>2, <4>1 DEF Handled
    <3>2. CASE ~c
      <4>1. This \in Clients => peer[This] = "open"
        BY <1>a, <2>3, <3>2
      <4>2. ~Told(ev.fd)
        BY <1>3, <1>4, <2>3, <4>1 DEF Told
      <4>3. Told(ev.fd)' => Told(ev.fd)
        BY <1>2, <1>4 DEF Told, Unread
      <4> QED BY <1>2, <4>2, <4>3 DEF Handled
    <3> QED BY <3>1, <3>2
  <2> QED BY <2>2, <2>3
<1>10. Drained'
  <2>1. ASSUME NEW t \in Clients, Alive(t)', handler'[t].should_close
        PROVE  peer'[t] = "reset" \/ (peer'[t] = "fin" /\ Unread(t)' = 0)
    <3>0. t \in Peers
      BY DEF Peers
    <3>1. Alive(t)
      BY <1>8, <2>1, <3>0 DEF Alive
    <3>2. handler[t].should_close => peer[t] = "reset" \/ (peer[t] = "fin" /\ Unread(t) = 0)
      BY <3>1 DEF JInv, Drained
    <3>3. peer'[t] = peer[t] /\ Unread(t)' = Unread(t)
      BY <1>4 DEF Unread
    <3>4. CASE t = This
      <4>1. c
        BY <1>b, <2>1, <3>4
      <4>2. handler[t].should_close \/ (~BufferFull(t) /\ peer[t] # "open")
        BY <1>a, <3>4, <4>1
      <4>3. peer[t] \in {"absent", "open", "fin", "reset"} /\ peer[t] # "absent"
        BY <1>3, <3>0, <3>4
          DEF JInv, IInv, TypeOK, HandlersTypeOK, Strangers, DescriptorsAgree
      <4>4. ~BufferFull(t) => Unread(t) = 0
        BY <1>4, <3>4
      <4> QED BY <3>2, <3>3, <4>2, <4>3, <4>4
    <3>5. CASE t # This
      BY <1>8, <2>1, <3>0, <3>2, <3>3, <3>5
    <3> QED BY <3>4, <3>5
  <2> QED BY <2>1 DEF Drained
<1> QED BY <1>1, <1>2, <1>6, <1>7, <1>9, <1>10 DEF JInv

LEMMA ReadsOneSocket ==
  ASSUME HandlersTypeOK, NEW s \in Peers,
         TcpRead(s) \/ UdpRead(s) \/ UdpError(s) \/ TcpHang(s) \/ UdpHang(s)
  PROVE  \A t \in Peers \ {s} :
           /\ handler'[t] = handler[t] /\ got'[t] = got[t] /\ sent'[t] = sent[t] /\ peer'[t] = peer[t]
<1>1. \A t \in Peers \ {s} : got'[t] = got[t] /\ sent'[t] = sent[t] /\ peer'[t] = peer[t]
  BY DEF TcpRead, UdpRead, UdpError, TcpHang, UdpHang, HandlersTypeOK
<1>2. \E cut, close : Parse(s, cut, close)
  BY DEF TcpRead, UdpRead, UdpError, TcpHang, UdpHang
<1>3. \A t \in Peers \ {s} : handler'[t] = handler[t]
  BY <1>2 DEF Parse, HandlersTypeOK
<1> QED BY <1>1, <1>3

LEMMA TcpReadMarksNot ==
  ASSUME HandlersTypeOK, NEW s \in Clients, TcpRead(s) \/ TcpHang(s)
  PROVE  /\ peer' = peer /\ Unread(s) > 0
         /\ handler'[s].life = handler[s].life
         /\ handler'[s].should_close = handler[s].should_close
<1>1. peer' = peer /\ \E cut : Parse(s, cut, FALSE)
  BY DEF TcpRead, TcpHang
<1>2. s \in Peers /\ handler \in [Peers -> HandlerRecords]
  BY DEF HandlersTypeOK, Peers
<1>3. handler'[s].should_close = handler[s].should_close /\ handler'[s].life = handler[s].life
  BY <1>1, <1>2 DEF Parse, HandlerRecords
<1>4. Unread(s) > 0
  <2> SUFFICES ASSUME TcpRead(s) PROVE Unread(s) > 0
    BY DEF TcpHang
  <2>1. got[s] \in Nat /\ sent[s] \in Nat
    BY <1>2 DEF HandlersTypeOK
  <2>2. PICK space \in LinearSpaces(s) : \E n \in {IF space < Unread(s) THEN space ELSE Unread(s)} : n > 0
    BY DEF TcpRead
  <2>3. space \in Int
    BY <1>2, HandlersAssumption DEF LinearSpaces, HandlerRecords
  <2> QED BY <2>1, <2>2, <2>3 DEF Unread
<1> QED BY <1>1, <1>3, <1>4

(* An iteration of a read loop, be it the one that does not come back.       *)
LEMMA ReadTells ==
  ASSUME JInv, Read \/ Hang
  PROVE  JInv'
<1>1. IInv'
  BY ReadKeeps DEF JInv
<1>2. /\ at = "read" /\ at' \in {at, "hung"} /\ HandlersTypeOK
      /\ UNCHANGED <<file, backlog, interest, ready, protocol_handlers_, listeners_, events, ev>>
  BY DEF Read, Hang, Go, reactorVars, JInv, IInv, TypeOK
<1>3. /\ This \in Peers /\ file[ev.fd] = This /\ ev.fd \in Registered /\ interest = Registered
      /\ ev \in Outstanding
  BY <1>2 DEF JInv, IInv, Dispatched, DescriptorsAgree, TypeOK, Registered, This, Sockets, Outstanding
<1>4. TcpRead(This) \/ UdpRead(This) \/ UdpError(This) \/ TcpHang(This) \/ UdpHang(This)
  BY DEF Read, Hang
<1>5. Outstanding' = Outstanding
  BY <1>2 DEF Outstanding
<1>6. \A t \in Peers \ {This} :
        /\ handler'[t] = handler[t] /\ got'[t] = got[t] /\ sent'[t] = sent[t] /\ peer'[t] = peer[t]
  BY <1>2, <1>3, <1>4, ReadsOneSocket
<1>7. ASSUME NEW fe \in interest PROVE Noticed(fe)'
  <2>1. CASE fe = ev.fd
    BY <1>3, <1>5, <2>1 DEF Noticed
  <2>2. CASE fe # ev.fd
    BY <1>2, <1>3, <1>5, <1>6, <2>2, OthersNoticed
  <2> QED BY <2>1, <2>2
<1>8. Reported'
  <2>1. \A c \in Clients : peer'[c] = peer[c]
    <3>1. CASE This \in Clients
      BY <1>2, <3>1, TcpReadMarksNot DEF Read, Hang
    <3>2. CASE This \notin Clients
      BY <1>6, <3>2 DEF Peers
    <3> QED BY <3>1, <3>2
  <2> QED BY <1>2, <2>1 DEF JInv, Reported
<1>9. Drained'
  <2>1. ASSUME NEW t \in Clients, Alive(t)', handler'[t].should_close
        PROVE  peer'[t] = "reset" \/ (peer'[t] = "fin" /\ Unread(t)' = 0)
    <3>1. t \in Peers
      BY DEF Peers
    <3>2. CASE t = This
      <4>1. /\ peer' = peer /\ Unread(t) > 0 /\ handler'[t].life = handler[t].life
            /\ handler'[t].should_close = handler[t].should_close
        BY <1>2, <3>2, TcpReadMarksNot DEF Read, Hang
      <4>2. Alive(t) /\ handler[t].should_close
        BY <2>1, <4>1 DEF Alive
      <4>3. ~(Unread(t) = 0)
        BY <1>2, <3>1, <4>1 DEF HandlersTypeOK, Unread
      <4> QED BY <4>1, <4>2, <4>3 DEF JInv, Drained
    <3>3. CASE t # This
      <4>1. /\ handler'[t] = handler[t] /\ peer'[t] = peer[t] /\ Unread(t)' = Unread(t)
        BY <1>6, <3>1, <3>3 DEF Unread
      <4>2. Alive(t) /\ handler[t].should_close
        BY <2>1, <4>1 DEF Alive
      <4> QED BY <4>1, <4>2 DEF JInv, Drained
    <3> QED BY <3>2, <3>3
  <2> QED BY <2>1 DEF Drained
<1>10. Handled'
  BY <1>2 DEF Handled
<1> QED BY <1>1, <1>2, <1>7, <1>8, <1>9, <1>10 DEF JInv

LEMMA EpollWaitTells ==
  ASSUME JInv, EpollWait
  PROVE  JInv'
<1>1. IInv'
  BY EpollWaitKeeps DEF JInv
<1>2. PICK taken \in SUBSET ready :
        /\ ready' = ready \ taken
        /\ events' = {[fd |-> fd, socket |-> file[fd], flags |-> Flags(file[fd])] :
                         fd \in {fd \in taken : Flags(file[fd]) # {}}}
  BY DEF EpollWait
<1>3. /\ at = "wait" /\ at' \in {"wait", "dispatch"}
      /\ UNCHANGED <<peer, sent, got, handler, file, backlog, interest, protocol_handlers_, listeners_>>
  BY DEF EpollWait, handlerVars
<1>4. Outstanding = {} /\ Outstanding' = events'
  BY <1>3 DEF JInv, IInv, BatchEmpty, Outstanding
<1>5. ASSUME NEW fd \in interest PROVE Noticed(fd)'
  <2>1. Noticed(fd) /\ (Told(fd)' <=> Told(fd)) /\ (Stalled(file[fd])' <=> Stalled(file[fd]))
    BY <1>3 DEF JInv, Told, Unread, Stalled, Alive, BufferFull
  <2>2. CASE fd \in taken /\ Told(fd)
    <3>1. [fd |-> fd, socket |-> file[fd], flags |-> Flags(file[fd])] \in events'
      BY <1>2, <2>2, ToldFlags
    <3> QED BY <1>4, <3>1 DEF Noticed
  <2>3. CASE ~(fd \in taken /\ Told(fd))
    BY <1>2, <1>4, <2>1, <2>3 DEF Noticed
  <2> QED BY <2>2, <2>3
<1>6. Reported'
  <2>1. ASSUME NEW e \in events'
        PROVE  /\ "kReadable" \in e.flags \/ "kError" \in e.flags
               /\ e.socket \in Clients /\ Refuses(e.socket, e.flags) => peer'[e.socket] = "reset"
    <3>1. PICK fd \in taken : /\ e = [fd |-> fd, socket |-> file[fd], flags |-> Flags(file[fd])]
                              /\ Flags(file[fd]) # {}
      BY <1>2
    <3>2. e.socket = file[fd] /\ e.flags = Flags(file[fd])
      BY <3>1
    <3>3. file[fd] \in Clients => file[fd] # Listener
      BY SocketsApart DEF Peers
    <3>4. "kReadable" \in Flags(file[fd]) \/ "kError" \in Flags(file[fd])
      BY <3>1 DEF Flags
    <3>5. file[fd] \in Clients /\ Refuses(file[fd], Flags(file[fd])) => peer[file[fd]] = "reset"
      BY <3>3 DEF Flags, Refuses
    <3> QED BY <1>3, <3>2, <3>4, <3>5
  <2> QED BY <2>1 DEF Reported
<1>7. Drained' /\ Handled'
  BY <1>3 DEF JInv, Drained, Alive, Unread, Handled
<1> QED BY <1>1, <1>3, <1>5, <1>6, <1>7 DEF JInv

(* A descriptor that is closed has nothing more to be noticed.               *)
LEMMA UnregisterTells ==
  ASSUME JInv, IInv', at \in {"read", "check"}, UnregisterFd(ev.fd),
         UNCHANGED <<peer, sent, backlog, events>>,
         \A t \in Peers \ {This} : got'[t] = got[t],
         at' \in {"check_freed", "loop", "dispatch"}
  PROVE  JInv'
<1>1. /\ interest' = interest \ {ev.fd} /\ ready' = ready \ {ev.fd}
      /\ file' = [file EXCEPT ![ev.fd] = NoSocket]
      /\ handler' = [handler EXCEPT ![This] = FreedHandler]
  BY DEF UnregisterFd, This
<1>2. /\ This \in Peers /\ ev.fd \in Fds /\ file[ev.fd] = This /\ interest \subseteq Fds
      /\ handler \in [Peers -> HandlerRecords] /\ file \in [Fds -> Sockets \cup {NoSocket}]
      /\ \A fe \in interest : fe # ev.fd => file[fe] # This /\ file[fe] \in Sockets
  BY SocketsApart
    DEF JInv, IInv, Dispatched, DescriptorsAgree, TypeOK, HandlersTypeOK, Registered, This, Sockets
<1>3. \A t \in Peers \ {This} : handler'[t] = handler[t]
  BY <1>1, <1>2
<1>4. Outstanding \subseteq Outstanding' \cup {ev}
  BY DEF Outstanding
<1>5. ASSUME NEW fe \in interest' PROVE Noticed(fe)'
  <2>1. fe \in interest /\ fe # ev.fd /\ file'[fe] = file[fe]
    BY <1>1, <1>2
  <2>2. Noticed(fe) /\ file[fe] # This /\ file[fe] \in Sockets
    BY <1>2, <2>1 DEF JInv
  <2>3. (\E e \in Outstanding : e.fd = fe) => \E e \in Outstanding' : e.fd = fe
    BY <1>4, <2>1
  <2>4. fe \in ready => fe \in ready'
    BY <1>1, <2>1
  <2> QED BY <1>3, <2>1, <2>2, <2>3, <2>4, StillNoticed
<1>6. Reported' /\ Handled'
  BY DEF JInv, Reported, Handled
<1>7. Drained'
  <2>1. ASSUME NEW t \in Clients, Alive(t)', handler'[t].should_close
        PROVE  peer'[t] = "reset" \/ (peer'[t] = "fin" /\ Unread(t)' = 0)
    <3>1. t # This
      BY <1>1, <1>2, <2>1, HandlerValues DEF Alive
    <3>2. handler'[t] = handler[t] /\ Unread(t)' = Unread(t)
      BY <1>3, <3>1 DEF Unread, Peers
    <3>3. Alive(t) /\ handler[t].should_close
      BY <2>1, <3>2 DEF Alive
    <3> QED BY <3>2, <3>3 DEF JInv, Drained
  <2> QED BY <2>1 DEF Drained
<1> QED BY <1>5, <1>6, <1>7 DEF JInv

LEMMA CatchTells ==
  ASSUME JInv, Catch
  PROVE  JInv'
<1>1. IInv'
  BY CatchKeeps DEF JInv
<1>2. /\ at = "read" /\ at' = "check_freed" /\ UnregisterFd(ev.fd)
      /\ UNCHANGED <<peer, sent, backlog, events>>
      /\ \A t \in Peers \ {This} : got'[t] = got[t]
  BY DEF Catch, TcpThrow, JInv, IInv, TypeOK, HandlersTypeOK
<1> QED BY <1>1, <1>2, UnregisterTells

LEMMA CheckTells ==
  ASSUME JInv, Check
  PROVE  JInv'
<1>1. IInv'
  BY CheckKeeps DEF JInv
<1>2. /\ at = "check" /\ at' \in {"loop", "dispatch"} /\ events' = events
      /\ UNCHANGED <<peer, sent, got, backlog>>
  BY DEF Check, NextEvent
<1>3. CASE handler[This].should_close
  BY <1>1, <1>2, <1>3, UnregisterTells DEF Check
<1>4. CASE ~handler[This].should_close
  <2>1. UNCHANGED <<interest, ready, protocol_handlers_, listeners_, file, handler>>
    BY <1>4 DEF Check
  <2>2. Outstanding \subseteq Outstanding' \cup {ev}
    BY <1>2 DEF Outstanding
  <2>3. ASSUME NEW fd \in interest PROVE Noticed(fd)'
    <3>1. /\ Told(fd)' <=> Told(fd)
          /\ Stalled(file[fd])' <=> Stalled(file[fd])
          /\ Noticed(fd)
      BY <1>2, <2>1 DEF JInv, Told, Unread, Stalled, Alive, BufferFull
    <3>2. CASE fd = ev.fd
      BY <1>2, <1>4, <2>1, <3>1, <3>2 DEF JInv, Handled, Noticed
    <3>3. CASE fd # ev.fd
      BY <2>1, <2>2, <3>1, <3>3 DEF Noticed
    <3> QED BY <3>2, <3>3
  <2>4. Reported' /\ Drained' /\ Handled'
    BY <1>2, <2>1 DEF JInv, Reported, Drained, Handled, Alive, Unread
  <2> QED BY <1>1, <2>1, <2>3, <2>4 DEF JInv
<1> QED BY <1>3, <1>4

(* The last connection has been accepted.                                    *)
LEMMA AcceptDoneTells ==
  ASSUME JInv, AcceptDone
  PROVE  JInv'
<1>1. IInv'
  BY AcceptDoneKeeps DEF JInv
<1>2. /\ at = "accept" /\ backlog = {} /\ at' \in {"loop", "dispatch"} /\ events' = events
      /\ UNCHANGED <<peer, sent, got, handler, file, backlog, interest, ready, protocol_handlers_,
                     listeners_>>
  BY DEF AcceptDone, NextEvent, handlerVars
<1>3. file[ev.fd] = Listener
  BY <1>2 DEF JInv, IInv, DescriptorsAgree, Handled
<1>4. ASSUME NEW fd \in interest PROVE Noticed(fd)'
  <2>1. /\ Told(fd)' <=> Told(fd)
        /\ Stalled(file[fd])' <=> Stalled(file[fd])
        /\ Noticed(fd)
    BY <1>2 DEF JInv, Told, Unread, Stalled, Alive, BufferFull
  <2>2. CASE fd = ev.fd
    BY <1>2, <1>3, <2>1, <2>2 DEF Told, Noticed
  <2>3. CASE fd # ev.fd
    BY <1>2, <2>1, <2>3 DEF Noticed, Outstanding
  <2> QED BY <2>2, <2>3
<1>5. Reported' /\ Drained' /\ Handled'
  BY <1>2 DEF JInv, Reported, Drained, Handled, Alive, Unread
<1> QED BY <1>1, <1>2, <1>4, <1>5 DEF JInv

(* A descriptor that is registered is ready if there is something to tell.   *)
LEMMA RegisterTells ==
  ASSUME JInv, IInv', NEW fd \in Fds \ Registered, NEW s \in Sockets, RegisterProtocol(fd, s),
         file'[fd] = s, \A fe \in Fds \ {fd} : file'[fe] = file[fe] /\ file[fe] # s,
         NEW b \in BOOLEAN,
         handler' = IF s = Listener THEN handler ELSE [handler EXCEPT ![s] = NewHandler(b)],
         UNCHANGED <<peer, sent, got, events, ev>>, backlog' \subseteq backlog,
         at # "thrown", at' \notin {"thrown", "check"}, at' = "accept" => at = "accept",
         Outstanding' = Outstanding
  PROVE  JInv'
<1>1. /\ interest' = interest \cup {fd} /\ listeners_ \subseteq listeners_'
      /\ ready' = IF Flags(s) = {} THEN ready ELSE ready \cup {fd}
  BY DEF RegisterProtocol, AddToEpoll
<1>2. handler \in [Peers -> HandlerRecords] /\ interest = Registered /\ interest \subseteq Fds
  BY DEF JInv, IInv, TypeOK, HandlersTypeOK, DescriptorsAgree, Registered
<1>3. \A t \in Peers \ {s} : handler'[t] = handler[t]
  BY <1>2
<1>4. Noticed(fd)'
  <2>1. Told(fd)' => Flags(s) # {}
    BY DEF Told, Flags, Unread
  <2> QED BY <1>1, <2>1 DEF Noticed
<1>5. ASSUME NEW fe \in interest PROVE Noticed(fe)'
  <2>1. /\ fe # fd /\ file'[fe] = file[fe] /\ file[fe] # s /\ file[fe] \in Sockets
        /\ Noticed(fe)
    BY <1>2 DEF JInv, IInv, TypeOK, DescriptorsAgree, Registered
  <2>2. fe \in ready => fe \in ready'
    BY <1>1
  <2> QED BY <1>3, <2>1, <2>2, StillNoticed
<1>6. Reported' /\ Handled'
  BY <1>1 DEF JInv, Reported, Handled
<1>7. Drained'
  <2>1. ASSUME NEW t \in Clients, Alive(t)', handler'[t].should_close
        PROVE  peer'[t] = "reset" \/ (peer'[t] = "fin" /\ Unread(t)' = 0)
    <3>1. t # s
      <4>1. SUFFICES ASSUME t = s PROVE FALSE
        OBVIOUS
      <4>2. s # Listener /\ t \in Peers
        BY <4>1, SocketsApart DEF Peers
      <4>3. handler'[t] = NewHandler(b)
        BY <1>2, <4>1, <4>2
      <4> QED BY <2>1, <4>3 DEF NewHandler, EmptyHandler
    <3>2. handler'[t] = handler[t] /\ Unread(t)' = Unread(t)
      BY <1>3, <3>1 DEF Unread, Peers
    <3>3. Alive(t) /\ handler[t].should_close
      BY <2>1, <3>2 DEF Alive
    <3> QED BY <3>2, <3>3 DEF JInv, Drained
  <2> QED BY <2>1 DEF Drained
<1> QED BY <1>1, <1>4, <1>5, <1>6, <1>7 DEF JInv

LEMMA SetUpTells ==
  ASSUME JInv, NEW fd \in Fds, NEW s \in UdpSockets \cup {Listener}, SetUp(fd, s)
  PROVE  JInv'
<1>1. IInv'
  BY SetUpKeeps DEF JInv
<1>2. /\ at = "bound" /\ at' = "setup" /\ file[fd] = s /\ fd \notin Registered /\ s \in Sockets
      /\ RegisterProtocol(fd, s) /\ file' = file
      /\ handler' = IF s = Listener THEN handler ELSE [handler EXCEPT ![s] = NewHandler(TRUE)]
      /\ UNCHANGED <<peer, sent, got, backlog, events, ev>>
  BY DEF SetUp, Created, Registered, Sockets, Peers
<1>3. \A fe \in Fds \ {fd} : file[fe] # s
  BY <1>2, SocketsApart DEF JInv, IInv, DescriptorsAgree
<1>4. Outstanding' = Outstanding
  BY <1>2 DEF Outstanding
<1> QED BY <1>1, <1>2, <1>3, <1>4, RegisterTells

LEMMA AcceptTells ==
  ASSUME JInv, Accept
  PROVE  JInv'
<1>1. IInv'
  BY AcceptKeeps DEF JInv
<1>2. PICK fd \in NewFds, c \in backlog :
        /\ file' = [file EXCEPT ![fd] = c]
        /\ backlog' = backlog \ {c}
        /\ \/ /\ RegisterProtocol(fd, c)
              /\ handler' = [handler EXCEPT ![c] = NewHandler(head_key_)]
              /\ UNCHANGED <<at, events, ev>>
           \/ RegisterThrows /\ UNCHANGED handler
  BY DEF Accept
<1>3. at = "accept" /\ UNCHANGED <<peer, sent, got>>
  BY DEF Accept
<1>4. /\ fd \in Fds /\ fd \notin Registered /\ c \in Sockets /\ c # Listener /\ head_key_ \in BOOLEAN
      /\ file'[fd] = c /\ \A fe \in Fds \ {fd} : file'[fe] = file[fe] /\ file[fe] # c
  BY <1>2, SocketsApart
    DEF NewFds, FreeFds, JInv, IInv, TypeOK, Strangers, DescriptorsAgree, Registered, Sockets, Peers
<1>5. CASE /\ RegisterProtocol(fd, c)
           /\ handler' = [handler EXCEPT ![c] = NewHandler(head_key_)]
           /\ UNCHANGED <<at, events, ev>>
  <2>1. Outstanding' = Outstanding
    BY <1>5 DEF Outstanding
  <2> QED BY <1>1, <1>2, <1>3, <1>4, <1>5, <2>1, RegisterTells
<1>6. CASE RegisterThrows /\ UNCHANGED handler
  <2>1. at' = "thrown" /\ events' = {}
    BY <1>6 DEF RegisterThrows
  <2> QED BY <1>1, <1>3, <1>6, <2>1 DEF JInv, Reported, Handled, Drained, Alive, Unread
<1> QED BY <1>2, <1>5, <1>6

(* News wake every descriptor of their socket.                               *)
LEMMA ConnectTells ==
  ASSUME JInv, NEW c \in Clients, Connect(c)
  PROVE  JInv'
<1>1. IInv'
  BY ConnectKeeps DEF JInv
<1>2. /\ peer[c] = "absent" /\ peer' = [peer EXCEPT ![c] = "open"]
      /\ ready' = ready \cup {fd \in interest : file[fd] = Listener}
      /\ UNCHANGED <<sent, got, handler, file, interest, protocol_handlers_, listeners_, at, events, ev>>
  BY DEF Connect, Wake
<1>3. /\ c # Listener /\ interest = Registered /\ Registered \subseteq Fds
      /\ peer \in [Peers -> {"absent", "open", "fin", "reset"}]
      /\ \A fd \in Fds : file[fd] # c
      /\ \A fd \in Registered : file[fd] = protocol_handlers_[fd] /\ file[fd] \in Sockets
  BY <1>2, SocketsApart
    DEF JInv, IInv, TypeOK, HandlersTypeOK, Strangers, DescriptorsAgree, Registered, Peers
<1>4. \A t \in Peers \ {c} : peer'[t] = peer[t]
  BY <1>2, <1>3
<1>5. Outstanding' = Outstanding
  BY <1>2 DEF Outstanding
<1>6. ASSUME at' # "thrown", NEW fd \in interest PROVE Noticed(fd)'
  <2>1. CASE file[fd] = Listener
    BY <1>2, <2>1 DEF Noticed
  <2>2. CASE file[fd] # Listener
    <3>1. file[fd] \in Peers \ {c} /\ file[fd] \in Sockets /\ Noticed(fd)
      BY <1>2, <1>3, <1>6, <2>2 DEF JInv, Sockets
    <3> QED BY <1>2, <1>4, <1>5, <2>2, <3>1, StillNoticed
  <2> QED BY <2>1, <2>2
<1>7. \A t \in Clients : Alive(t) => t # c
  BY <1>3 DEF JInv, IInv, DescriptorsAgree, Peers
<1>8. \A t \in Clients : peer[t] = "reset" => peer'[t] = "reset"
  BY <1>2, <1>4 DEF Peers
<1>9. Reported'
  BY <1>2, <1>8 DEF JInv, Reported
<1>10. Drained'
  <2>1. ASSUME NEW t \in Clients, Alive(t)', handler'[t].should_close
        PROVE  peer'[t] = "reset" \/ (peer'[t] = "fin" /\ Unread(t)' = 0)
    <3>1. Alive(t) /\ handler[t].should_close /\ Unread(t)' = Unread(t)
      BY <1>2, <2>1 DEF Alive, Unread
    <3>2. peer'[t] = peer[t]
      BY <1>4, <1>7, <3>1 DEF Peers
    <3> QED BY <3>1, <3>2 DEF JInv, Drained
  <2> QED BY <2>1 DEF Drained
<1>11. Handled'
  <2>1. CASE at = "check"
    <3>1. This' = This /\ ev.fd \in Registered \ listeners_ /\ file[ev.fd] # Listener
      BY <1>2, <1>3, <2>1 DEF This, JInv, IInv, Dispatched, DescriptorsAgree
    <3>2. file[ev.fd] \in Peers \ {c}
      BY <1>3, <3>1 DEF Sockets
    <3>3. /\ Told(ev.fd)' => Told(ev.fd)
          /\ Stalled(file[ev.fd]) => Stalled(file[ev.fd])'
      BY <1>2, <1>4, <3>1, <3>2 DEF Told, Unread, Stalled, Alive, BufferFull
    <3> QED BY <1>2, <2>1, <3>1, <3>3 DEF JInv, Handled
  <2>2. CASE at # "check"
    BY <1>2, <2>2 DEF JInv, Handled
  <2> QED BY <2>1, <2>2
<1> QED BY <1>1, <1>2, <1>6, <1>9, <1>10, <1>11 DEF JInv

LEMMA FarTells ==
  ASSUME JInv, NEW s \in Peers, Far(s)
  PROVE  JInv'
<1>1. IInv'
  BY FarKeeps DEF JInv
<1>2. /\ peer[s] = "open" /\ ready' = ready \cup {fd \in interest : file[fd] = s}
      /\ UNCHANGED <<got, handler, file, backlog, interest, protocol_handlers_, listeners_, at, events, ev>>
  BY DEF Far, SendStream, Leave, Wake
<1>3. /\ \A fd \in interest : file[fd] \in Sockets
      /\ \A t \in Peers \ {s} : peer'[t] = peer[t] /\ sent'[t] = sent[t]
  BY DEF Far, SendStream, Leave, JInv, IInv, DescriptorsAgree, TypeOK, HandlersTypeOK, Registered
<1>4. Outstanding' = Outstanding
  BY <1>2 DEF Outstanding
<1>5. ASSUME at' # "thrown", NEW fd \in interest PROVE Noticed(fd)'
  <2>1. CASE file[fd] = s
    BY <1>2, <2>1 DEF Noticed
  <2>2. CASE file[fd] # s
    <3>1. Noticed(fd) /\ file[fd] \in Sockets
      BY <1>2, <1>3, <1>5 DEF JInv
    <3> QED BY <1>2, <1>3, <1>4, <2>2, <3>1, StillNoticed
  <2> QED BY <2>1, <2>2
<1>6. Reported'
  BY <1>2, <1>3 DEF JInv, Reported, Peers
<1>7. Drained'
  <2>1. ASSUME NEW t \in Clients, Alive(t)', handler'[t].should_close
        PROVE  peer'[t] = "reset" \/ (peer'[t] = "fin" /\ Unread(t)' = 0)
    <3>1. Alive(t) /\ handler[t].should_close
      BY <1>2, <2>1 DEF Alive
    <3>2. peer[t] = "reset" \/ (peer[t] = "fin" /\ Unread(t) = 0)
      BY <3>1 DEF JInv, Drained
    <3>3. peer'[t] = peer[t] /\ Unread(t)' = Unread(t)
      BY <1>2, <1>3, <3>2 DEF Unread, Peers
    <3> QED BY <3>2, <3>3
  <2> QED BY <2>1 DEF Drained
<1>8. Handled'
  <2>1. CASE at = "check"
    <3>1. This' = This /\ ev.fd \in interest
      BY <1>2, <2>1 DEF This, JInv, IInv, Dispatched, DescriptorsAgree
    <3>2. CASE file[ev.fd] = s
      BY <1>2, <2>1, <3>1, <3>2 DEF Handled
    <3>3. CASE file[ev.fd] # s
      <4>1. /\ Told(ev.fd)' => Told(ev.fd)
            /\ Stalled(file[ev.fd]) => Stalled(file[ev.fd])'
        BY <1>2, <1>3, <3>1, <3>3 DEF Told, Unread, Stalled, Alive, BufferFull, Sockets
      <4> QED BY <1>2, <2>1, <3>1, <4>1 DEF JInv, Handled
    <3> QED BY <3>2, <3>3
  <2>2. CASE at # "check"
    BY <1>2, <2>2 DEF JInv, Handled
  <2> QED BY <2>1, <2>2
<1> QED BY <1>1, <1>2, <1>5, <1>6, <1>7, <1>8 DEF JInv

LEMMA DestroyTells ==
  ASSUME JInv, Destroy
  PROVE  JInv'
<1>1. IInv'
  BY DestroyKeeps DEF JInv
<1>2. /\ at' = "destroyed" /\ interest' = {} /\ events' = {}
      /\ handler' = [s \in Peers |-> IF Alive(s) THEN FreedHandler ELSE handler[s]]
  BY DEF Destroy, JInv, IInv, BatchEmpty
<1>3. \A s \in Clients : ~Alive(s)'
  BY <1>2, HandlerValues DEF Alive, Peers
<1> QED BY <1>1, <1>2, <1>3 DEF JInv, Reported, Handled, Drained

LEMMA NextTells == JInv /\ [Next]_vars => JInv'
<1> SUFFICES ASSUME JInv, [Next]_vars PROVE JInv'
  OBVIOUS
<1>1. CASE \/ \E fd \in NewFds, s \in UdpSockets \cup {Listener} : OpenSocket(fd, s)
           \/ \E fd \in Fds : BindFails(fd)
  BY <1>1, OwnerCalm
<1>2. ASSUME NEW fd \in Fds, NEW s \in UdpSockets \cup {Listener}, SetUp(fd, s) PROVE JInv'
  BY <1>2, SetUpTells
<1>3. CASE Bind \/ Run \/ Interrupted
  BY <1>3, GoCalm DEF Bind, Run, Interrupted
<1>4. CASE Step
  <2>1. CASE Loop
    <3>1. PICK place \in {"wait", "returned"} : Go(place)
      BY <2>1 DEF Loop
    <3> QED BY <2>1, <3>1, GoCalm DEF Loop
  <2>2. CASE EpollWait
    BY <2>2, EpollWaitTells
  <2>3. CASE DispatchListener
    BY <2>3, DispatchListenerCalm
  <2>4. CASE HandleEvent
    BY <2>4, HandleEventTells
  <2>5. CASE Read \/ Hang
    BY <2>5, ReadTells
  <2>6. CASE ReadEnds
    BY <2>6, ReadEndsTells
  <2>7. CASE Catch
    BY <2>7, CatchTells
  <2>8. CASE CheckFreed
    BY <2>8, CheckFreedCalm
  <2>9. CASE Check
    BY <2>9, CheckTells
  <2>10. CASE Accept
    BY <2>10, AcceptTells
  <2>11. CASE AcceptDone
    BY <2>11, AcceptDoneTells
  <2> QED BY <1>4, <2>1, <2>2, <2>3, <2>4, <2>5, <2>6, <2>7, <2>8, <2>9, <2>10, <2>11 DEF Step
<1>5. CASE Stop \/ (\E i \in 1..Len(tasks) : Task_(i)) \/ AcceptFails \/ Asleep \/ UNCHANGED vars
  BY <1>5, BesideCalm DEF AcceptFails, Asleep
<1>6. CASE Destroy
  BY <1>6, DestroyTells
<1>7. ASSUME NEW c \in Clients, Connect(c) PROVE JInv'
  BY <1>7, ConnectTells
<1>8. ASSUME NEW s \in Peers, Far(s) PROVE JInv'
  BY <1>8, FarTells
<1> QED BY <1>1, <1>2, <1>3, <1>4, <1>5, <1>6, <1>7, <1>8 DEF Next

(* Whatever the sockets do and in whatever order events are dealt with: what *)
(* epoll tells once is acted on, or is still to be, unless a full ring stops *)
(* the handler for good.                                                     *)
THEOREM NothingIsForgotten == Spec => []NothingForgotten
<1>1. JInv => NothingForgotten
  BY NoticedForgotten DEF JInv
<1> QED BY <1>1, InitJInv, NextTells, PTL DEF Spec

(* The step that takes a client's handler from it.                           *)
LEMMA OnlyCheckCloses ==
  ASSUME JInv, [Next]_vars, NEW s \in Clients, Alive(s), ~Alive(s)',
         at' \notin {"destroyed", "check_freed"}
  PROVE  at = "check" /\ handler[s].should_close
<1>1. s \in Peers /\ s # Listener /\ HandlersTypeOK
  BY SocketsApart DEF Peers, JInv, IInv, TypeOK
<1>2. handler \in [Peers -> HandlerRecords]
  BY <1>1 DEF HandlersTypeOK
<1>3. handler' # handler /\ handler'[s].life # handler[s].life
  BY DEF Alive
<1>4. CASE Read \/ Hang \/ ReadEnds \/ HandleEvent
  <2>1. CASE Read \/ Hang \/ ReadEnds
    <3>1. SameLives
      BY <2>1, ReadLeaves DEF JInv, HandlersKept
    <3> QED BY <1>1, <1>3, <3>1 DEF SameLives
  <2>2. CASE HandleEvent
    BY <1>1, <1>2, <1>3, <2>2 DEF HandleEvent, HandlerRecords
  <2> QED BY <1>4, <2>1, <2>2
<1>5. CASE Check
  <2>1. at = "check" /\ handler[This].should_close /\ handler' = [handler EXCEPT ![This] = FreedHandler]
    BY <1>3, <1>5 DEF Check, UnregisterFd, This
  <2>2. This = s
    BY <1>1, <1>2, <1>3, <2>1
  <2> QED BY <2>1, <2>2
<1>6. CASE Accept
  BY <1>1, <1>2, <1>3, <1>6, HandlerValues DEF Accept, Alive, JInv, IInv, TypeOK
<1>7. ASSUME NEW fd \in Fds, NEW t \in UdpSockets \cup {Listener}, SetUp(fd, t) PROVE FALSE
  <2>1. t # s
    BY <1>1, SocketsApart
  <2> QED BY <1>1, <1>2, <1>3, <1>7, <2>1 DEF SetUp
<1>8. CASE Catch \/ Destroy
  BY <1>8 DEF Catch, Destroy
<1>9. CASE UNCHANGED handler
  BY <1>3, <1>9
<1> QED
  BY <1>4, <1>5, <1>6, <1>7, <1>8, <1>9
    DEF Next, Step, OpenSocket, BindFails, Bind, Run, Interrupted, Stop, Connect, Far, SendStream, Leave,
        Task_, RunTask, AcceptFails, Asleep, Loop, EpollWait, DispatchListener, CheckFreed, AcceptDone,
        vars, handlerVars

(* A client's connection is closed only when it was cut off, when a callback *)
(* threw, or when the client has ended its stream and all of it was read.    *)
THEOREM ClosesOnlyWhenDrained == Spec => ClosesWhenDrained
<1>1. JInv /\ [Next]_vars =>
        [\A s \in Clients :
           Alive(s) /\ ~Alive(s)' /\ at' \notin {"destroyed", "check_freed"} /\ peer[s] # "reset"
             => peer[s] = "fin" /\ Unread(s) = 0]_vars
  BY OnlyCheckCloses DEF JInv, Drained
<1> QED BY <1>1, InitJInv, NextTells, PTL DEF Spec, ClosesWhenDrained
-----------------------------------------------------------------------------
(***************************************************************************)
(* What a waiting client's packets are at, with keys of one byte.  Of its  *)
(* stream, front is where the last packet ends that its callbacks have     *)
(* had, all of them up to there one by one (HasHad).  Of what lies behind, *)
(* it has sent one packet at most and what that one is cut by (OneAhead):  *)
(* the part that was read is in the ring, from front on, until the packet  *)
(* can be cut; then it is in packs_, and in one task, which nothing is     *)
(* read or sent beside, and the ring holds at most the next head.          *)
(***************************************************************************)
Unscheduled(s) == \A i \in 1..Len(tasks) : tasks[i].of # s

ScheduledOnce(s) ==
  /\ \A i \in 1..Len(tasks) : tasks[i].of = s =>
       tasks[i].got = got[s] /\ tasks[i].packs = handler[s].packs_
  /\ \A i, j \in 1..Len(tasks) : tasks[i].of = s /\ tasks[j].of = s => i = j

HasHad(s, front) ==
  /\ \A i \in 1..Len(delivered[s]) : \E end \in Ends[s] :
       /\ delivered[s][i] = {end} /\ end <= front
       /\ Cardinality({e \in Ends[s] : e <= end}) = i
  /\ Cardinality({e \in Ends[s] : e <= front}) = Len(delivered[s])
  /\ \A e \in Ends[s] : e <= front => Delivered(s, e)

Stretch(from, n) == [i \in 1..n |-> from + i]

OneAhead(s, front) ==
  /\ front <= got[s] /\ \A e \in Ends[s] : e > front => sent[s] <= e + Lookahead(s)
  /\ peer[s] \in {"fin", "reset"} => \A e \in Ends[s] : e > front => sent[s] < e + Lookahead(s)
  /\ handler[s].life = "none" => got[s] = 0
  /\ Alive(s) /\ Unscheduled(s) =>
       /\ handler[s].ring = Stretch(front, got[s] - front)
       /\ handler[s].keys => \A e \in Ends[s] : e > front => e + Lookahead(s) > got[s]
  /\ ~Unscheduled(s) =>
       /\ peer[s] = "open"
       /\ got[s] = sent[s] /\ got[s] - Lookahead(s) \in Ends[s] /\ front < got[s] - Lookahead(s)
       /\ handler[s].ring = Stretch(got[s] - Lookahead(s), Lookahead(s))
       /\ handler[s].packs_ = {got[s] - Lookahead(s)}

Waits(s) ==
  /\ \E front \in Ends[s] \cup {0} :
       /\ HasHad(s, front)
       /\ at # "destroyed" /\ handler[s].life # "freed" => OneAhead(s, front)
  /\ at # "destroyed" => ScheduledOnce(s) /\ (~Alive(s) => Unscheduled(s))
  /\ s \in backlog \/ peer[s] = "absent" => handler[s].life = "none"

TaskRecords == [of : Peers, got : Nat, packs : SUBSET Nat]

TasksTyped == tasks \in Seq(TaskRecords) /\ delivered \in [Paced -> Seq(SUBSET Nat)]

PInv == Paced \cap LongKeys = {} /\ JInv /\ TasksTyped /\ \A s \in Paced : Waits(s)

-----------------------------------------------------------------------------
LEMMA AppendIsLast ==
  ASSUME NEW A, NEW q \in Seq(A), NEW x \in A
  PROVE  /\ Append(q, x) \in Seq(A) /\ Len(Append(q, x)) = Len(q) + 1
         /\ \A i \in 1..Len(q) : Append(q, x)[i] = q[i]
         /\ Append(q, x)[Len(q) + 1] = x
OBVIOUS

LEMMA RemoveAtShifts ==
  ASSUME NEW A, NEW q \in Seq(A), NEW k \in 1..Len(q)
  PROVE  /\ RemoveAt(q, k) \in Seq(A) /\ Len(RemoveAt(q, k)) = Len(q) - 1
         /\ \A i \in 1..Len(q) - 1 : RemoveAt(q, k)[i] = q[IF i < k THEN i ELSE i + 1]
<1> DEFINE head == SubSeq(q, 1, k - 1)
           rest == SubSeq(q, k + 1, Len(q))
<1>1. k \in Int /\ Len(q) \in Nat /\ 1 <= k /\ k <= Len(q)
  OBVIOUS
<1>2. /\ head \in Seq(A) /\ Len(head) = k - 1
      /\ \A i \in 1..k - 1 : head[i] = q[i]
  <2>1. /\ 1 \in Int /\ k - 1 \in Int /\ \A i \in 1..k - 1 : q[i] \in A
    BY <1>1
  <2>2. /\ head \in Seq(A)
        /\ Len(head) = IF 1 <= k - 1 THEN k - 1 - 1 + 1 ELSE 0
        /\ \A i \in 1..k - 1 - 1 + 1 : head[i] = q[1 + i - 1]
    BY <2>1, SubSeqProperties
  <2> HIDE DEF head
  <2> QED BY <1>1, <2>2
<1>3. /\ rest \in Seq(A) /\ Len(rest) = Len(q) - k
      /\ \A i \in 1..Len(q) - k : rest[i] = q[k + i]
  <2>1. /\ k + 1 \in Int /\ Len(q) \in Int /\ \A i \in k + 1 .. Len(q) : q[i] \in A
    BY <1>1
  <2>2. /\ rest \in Seq(A)
        /\ Len(rest) = IF k + 1 <= Len(q) THEN Len(q) - (k + 1) + 1 ELSE 0
        /\ \A i \in 1..Len(q) - (k + 1) + 1 : rest[i] = q[k + 1 + i - 1]
    BY <2>1, SubSeqProperties
  <2> HIDE DEF rest
  <2>3. Len(rest) = Len(q) - k
    BY <1>1, <2>2
  <2>4. ASSUME NEW i \in 1..Len(q) - k PROVE rest[i] = q[k + i]
    <3>1. i \in 1..Len(q) - (k + 1) + 1 /\ k + 1 + i - 1 = k + i
      BY <1>1
    <3> QED BY <2>2, <3>1
  <2> QED BY <2>2, <2>3, <2>4
<1>4. RemoveAt(q, k) = head \o rest
  BY DEF RemoveAt
<1> HIDE DEF head, rest
<1>5. /\ head \o rest \in Seq(A) /\ Len(head \o rest) = Len(head) + Len(rest)
      /\ \A i \in 1..Len(head) + Len(rest) :
           (head \o rest)[i] = IF i <= Len(head) THEN head[i] ELSE rest[i - Len(head)]
  BY <1>2, <1>3, ConcatProperties
<1>6. ASSUME NEW i \in 1..Len(q) - 1
      PROVE  (head \o rest)[i] = q[IF i < k THEN i ELSE i + 1]
  <2>1. CASE i < k
    BY <1>1, <1>2, <1>3, <1>5, <2>1
  <2>2. CASE ~(i < k)
    <3>1. i - (k - 1) \in 1..Len(q) - k /\ k + (i - (k - 1)) = i + 1
      BY <1>1, <2>2
    <3>2. (head \o rest)[i] = rest[i - (k - 1)]
      BY <1>1, <1>2, <1>3, <1>5, <2>2
    <3> QED BY <1>3, <2>2, <3>1, <3>2
  <2> QED BY <2>1, <2>2
<1> QED BY <1>1, <1>2, <1>3, <1>4, <1>5, <1>6

LEMMA StretchIs ==
  ASSUME NEW from \in Nat, NEW n \in Nat
  PROVE  /\ Stretch(from, n) \in Seq(Nat) /\ Len(Stretch(from, n)) = n
         /\ \A i \in 1..n : Stretch(from, n)[i] = from + i
BY DEF Stretch

LEMMA StretchRange ==
  ASSUME NEW from \in Nat, NEW n \in Nat
  PROVE  Range(Stretch(from, n)) = from + 1 .. from + n
<1> DEFINE q == Stretch(from, n)
<1>1. /\ DOMAIN q = 1..n
      /\ \A i \in 1..n : q[i] = from + i
  BY DEF Stretch
<1> HIDE DEF q
<1>2. ASSUME NEW j \in from + 1 .. from + n PROVE j \in Range(q)
  <2>1. j - from \in 1..n /\ from + (j - from) = j
    OBVIOUS
  <2>2. q[j - from] = j
    BY <1>1, <2>1
  <2> QED BY <1>1, <2>1, <2>2 DEF Range
<1>3. ASSUME NEW j \in Range(q) PROVE j \in from + 1 .. from + n
  <2>1. PICK i \in 1..n : j = from + i
    BY <1>1 DEF Range
  <2> QED BY <2>1
<1> QED BY <1>2, <1>3 DEF q

(* What is left of a stretch behind its first m units.                       *)
LEMMA StretchRest ==
  ASSUME NEW from \in Nat, NEW m \in Nat, NEW n \in Nat
  PROVE  SubSeq(Stretch(from, m + n), m + 1, m + n) = Stretch(from + m, n)
<1> DEFINE q == Stretch(from, m + n)
           rest == SubSeq(q, m + 1, m + n)
           c == Stretch(from + m, n)
<1>1. q \in Seq(Nat) /\ Len(q) = m + n /\ \A i \in 1..m + n : q[i] = from + i
  <2>1. m + n \in Nat
    OBVIOUS
  <2> QED BY <2>1, StretchIs
<1>2. c \in Seq(Nat) /\ Len(c) = n /\ \A i \in 1..n : c[i] = from + m + i
  <2>1. from + m \in Nat
    OBVIOUS
  <2> QED BY <2>1, StretchIs
<1> HIDE DEF q, c
<1>3. /\ rest \in Seq(Nat)
      /\ Len(rest) = IF m + 1 <= m + n THEN m + n - (m + 1) + 1 ELSE 0
      /\ \A i \in 1 .. m + n - (m + 1) + 1 : rest[i] = q[m + 1 + i - 1]
  <2>1. m + 1 \in Int /\ m + n \in Int /\ \A i \in m + 1 .. m + n : q[i] \in Nat
    BY <1>1
  <2> QED BY <2>1, SubSeqProperties
<1> HIDE DEF rest
<1>4. Len(rest) = n
  BY <1>3
<1>5. ASSUME NEW i \in 1..n PROVE rest[i] = c[i]
  <2>1. i \in 1 .. m + n - (m + 1) + 1 /\ m + 1 + i - 1 = m + i /\ m + i \in 1..m + n
    OBVIOUS
  <2>2. rest[i] = q[m + i] /\ q[m + i] = from + (m + i)
    BY <1>1, <1>3, <2>1
  <2> QED BY <1>2, <2>2
<1> QED BY <1>2, <1>3, <1>4, <1>5, SeqEqual DEF rest, c, q

(* Two stretches of a stream, one behind the other.                          *)
LEMMA StretchesJoin ==
  ASSUME NEW from \in Nat, NEW m \in Nat, NEW n \in Nat
  PROVE  /\ Stretch(from, m) \o Stretch(from + m, n) = Stretch(from, m + n)
         /\ Stretch(from, m) \in Seq(Nat) /\ Len(Stretch(from, m)) = m
<1> DEFINE a == Stretch(from, m)
           b == Stretch(from + m, n)
           c == Stretch(from, m + n)
<1>1. a \in Seq(Nat) /\ Len(a) = m /\ \A i \in 1..m : a[i] = from + i
  BY StretchIs
<1>2. b \in Seq(Nat) /\ Len(b) = n /\ \A i \in 1..n : b[i] = from + m + i
  <2>1. from + m \in Nat
    OBVIOUS
  <2> QED BY <2>1, StretchIs
<1>3. c \in Seq(Nat) /\ Len(c) = m + n /\ \A i \in 1..m + n : c[i] = from + i
  <2>1. m + n \in Nat
    OBVIOUS
  <2> QED BY <2>1, StretchIs
<1> HIDE DEF a, b, c
<1>4. /\ a \o b \in Seq(Nat) /\ Len(a \o b) = m + n
      /\ \A i \in 1..m + n : (a \o b)[i] = IF i <= m THEN a[i] ELSE b[i - m]
  BY <1>1, <1>2, ConcatProperties
<1>5. ASSUME NEW i \in 1..m + n PROVE (a \o b)[i] = c[i]
  <2>1. CASE i <= m
    BY <1>1, <1>3, <1>4, <2>1
  <2>2. CASE ~(i <= m)
    <3>1. i - m \in 1..n /\ from + m + (i - m) = from + i
      BY <2>2
    <3> QED BY <1>2, <1>3, <1>4, <2>2, <3>1
  <2> QED BY <2>1, <2>2
<1>6. a \o b = c
  BY <1>3, <1>4, <1>5, SeqEqual
<1> QED BY <1>1, <1>6 DEF a, b, c

-----------------------------------------------------------------------------
(* Tasks that come and go beside those of a client.                          *)
SameTasks(s) ==
  /\ Unscheduled(s)' <=> Unscheduled(s)
  /\ ScheduledOnce(s) => ScheduledOnce(s)'

LEMMA OthersScheduled ==
  ASSUME tasks \in Seq(TaskRecords), NEW t \in TaskRecords, tasks' = Append(tasks, t),
         NEW s, t.of # s, got'[s] = got[s], handler'[s].packs_ = handler[s].packs_
  PROVE  SameTasks(s)
<1>1. /\ Len(tasks) \in Nat /\ Len(tasks') = Len(tasks) + 1
      /\ \A i \in 1..Len(tasks) : tasks'[i] = tasks[i]
      /\ tasks'[Len(tasks) + 1] = t
  BY AppendIsLast
<1>2. \A i \in 1..Len(tasks') : i \in 1..Len(tasks) \/ i = Len(tasks) + 1
  BY <1>1
<1>3. \A i \in 1..Len(tasks') : tasks'[i].of = s => i \in 1..Len(tasks) /\ tasks'[i] = tasks[i]
  BY <1>1, <1>2
<1>4. 1..Len(tasks) \subseteq 1..Len(tasks')
  BY <1>1
<1>5. Unscheduled(s)' <=> Unscheduled(s)
  BY <1>1, <1>3, <1>4 DEF Unscheduled
<1>6. ScheduledOnce(s) => ScheduledOnce(s)'
  BY <1>3 DEF ScheduledOnce
<1> QED BY <1>5, <1>6 DEF SameTasks

LEMMA OthersRun ==
  ASSUME tasks \in Seq(TaskRecords), NEW k \in 1..Len(tasks), tasks' = RemoveAt(tasks, k),
         NEW s, tasks[k].of # s, got'[s] = got[s], handler'[s].packs_ = handler[s].packs_
  PROVE  SameTasks(s)
<1> DEFINE from(i) == IF i < k THEN i ELSE i + 1
<1>1. /\ Len(tasks) \in Nat /\ Len(tasks') = Len(tasks) - 1
      /\ \A i \in 1..Len(tasks') : tasks'[i] = tasks[from(i)]
  <2>1. /\ Len(RemoveAt(tasks, k)) = Len(tasks) - 1
        /\ \A i \in 1..Len(tasks) - 1 : RemoveAt(tasks, k)[i] = tasks[IF i < k THEN i ELSE i + 1]
    BY RemoveAtShifts
  <2>2. Len(tasks) \in Nat
    OBVIOUS
  <2> QED BY <2>1, <2>2
<1>2. /\ \A i \in 1..Len(tasks') : from(i) \in 1..Len(tasks)
      /\ \A i, j \in 1..Len(tasks') : from(i) = from(j) => i = j
  BY <1>1
<1>3. \A j \in 1..Len(tasks) : j # k => \E i \in 1..Len(tasks') : from(i) = j
  <2>1. SUFFICES ASSUME NEW j \in 1..Len(tasks), j # k
                 PROVE  \E i \in 1..Len(tasks') : from(i) = j
    OBVIOUS
  <2>2. CASE j < k
    BY <1>1, <2>2
  <2>3. CASE ~(j < k)
    <3>1. j - 1 \in 1..Len(tasks') /\ from(j - 1) = j
      BY <1>1, <2>1, <2>3
    <3> QED BY <3>1
  <2> QED BY <2>2, <2>3
<1> HIDE DEF from
<1>4. Unscheduled(s)' <=> Unscheduled(s)
  <2>1. ASSUME Unscheduled(s), NEW i \in 1..Len(tasks') PROVE tasks'[i].of # s
    BY <1>1, <1>2, <2>1 DEF Unscheduled
  <2>2. ASSUME Unscheduled(s)', NEW j \in 1..Len(tasks) PROVE tasks[j].of # s
    BY <1>1, <1>3, <2>2 DEF Unscheduled
  <2> QED BY <2>1, <2>2 DEF Unscheduled
<1>5. ScheduledOnce(s) => ScheduledOnce(s)'
  BY <1>1, <1>2 DEF ScheduledOnce
<1> QED BY <1>4, <1>5 DEF SameTasks

LEMMA TasksStay ==
  ASSUME tasks' = tasks, NEW s, got'[s] = got[s], handler'[s].packs_ = handler[s].packs_
  PROVE  SameTasks(s)
BY DEF SameTasks, Unscheduled, ScheduledOnce

(* A client that a step leaves alone.                                        *)
LEMMA Undisturbed ==
  ASSUME NEW s \in Paced, Waits(s), SameTasks(s),
         peer'[s] = peer[s], sent'[s] = sent[s], got'[s] = got[s],
         delivered'[s] = delivered[s],
         handler'[s].life = handler[s].life, handler'[s].keys = handler[s].keys,
         handler'[s].ring = handler[s].ring, handler'[s].packs_ = handler[s].packs_,
         at' # "destroyed" => at # "destroyed", s \in backlog' => s \in backlog
  PROVE  Waits(s)'
<1>1. \A front : HasHad(s, front)' <=> HasHad(s, front)
  BY DEF HasHad, Delivered
<1>2. Alive(s)' <=> Alive(s)
  BY DEF Alive
<1>3. \A front : OneAhead(s, front) => OneAhead(s, front)'
  BY <1>2 DEF OneAhead, SameTasks
<1>4. \E front \in Ends[s] \cup {0} :
        /\ HasHad(s, front)'
        /\ at' # "destroyed" /\ handler'[s].life # "freed" => OneAhead(s, front)'
  BY <1>1, <1>3 DEF Waits
<1>5. at' # "destroyed" => ScheduledOnce(s)' /\ (~Alive(s)' => Unscheduled(s)')
  BY <1>2 DEF Waits, SameTasks
<1>6. s \in backlog' \/ peer'[s] = "absent" => handler'[s].life = "none"
  BY DEF Waits
<1> QED BY <1>4, <1>5, <1>6 DEF Waits

(* Steps beside the handlers.                                                *)
LEMMA Beside ==
  ASSUME PInv, JInv', UNCHANGED handlerVars, backlog' \subseteq backlog,
         at' # "destroyed" => at # "destroyed"
  PROVE  PInv'
<1>1. UNCHANGED <<peer, sent, got, handler, tasks, delivered>>
  BY DEF handlerVars
<1>2. \A s \in Paced : Waits(s)'
  BY <1>1, TasksStay, Undisturbed DEF PInv
<1> QED BY <1>1, <1>2 DEF PInv, TasksTyped

(* A step that only marks a handler to be closed.                            *)
LEMMA Marked ==
  ASSUME PInv, JInv', NEW s \in Peers, NEW b, handler' = [handler EXCEPT ![s].should_close = b],
         UNCHANGED <<peer, sent, got, tasks, delivered, backlog>>, at # "destroyed"
  PROVE  PInv'
<1>1. handler \in [Peers -> HandlerRecords]
  BY DEF PInv, JInv, IInv, TypeOK, HandlersTypeOK
<1>2. \A t \in Peers :
        /\ handler'[t].life = handler[t].life /\ handler'[t].keys = handler[t].keys
        /\ handler'[t].ring = handler[t].ring /\ handler'[t].packs_ = handler[t].packs_
  BY <1>1 DEF HandlerRecords
<1>3. \A t \in Paced : t \in Peers
  BY HandlersAssumption DEF Peers
<1>4. \A t \in Paced : Waits(t)'
  BY <1>2, <1>3, TasksStay, Undisturbed DEF PInv
<1> QED BY <1>4 DEF PInv, TasksTyped


-----------------------------------------------------------------------------
(* The next packet that is had is the one after those before it.             *)
LEMMA OneMoreEnd ==
  ASSUME NEW s \in Peers, NEW front \in Nat, NEW end \in Ends[s], front < end,
         \A e \in Ends[s] : e > front => end <= e
  PROVE  Cardinality({e \in Ends[s] : e <= end}) = Cardinality({e \in Ends[s] : e <= front}) + 1
<1> DEFINE upto == {e \in Ends[s] : e <= front}
<1>1. Ends[s] \subseteq Nat
  BY HandlersAssumption
<1>2. {e \in Ends[s] : e <= end} = upto \cup {end} /\ end \notin upto
  BY <1>1
<1>3. IsFiniteSet(upto)
  <2>1. upto \in SUBSET (0..front)
    BY <1>1
  <2>2. IsFiniteSet(0..front)
    BY FS_Interval
  <2> HIDE DEF upto
  <2> QED BY <2>1, <2>2, FS_Subset
<1> HIDE DEF upto
<1>4. Cardinality(upto \cup {end}) = Cardinality(upto) + 1
  BY <1>2, <1>3, FS_AddElement
<1> QED BY <1>2, <1>4 DEF upto

LEMMA HasOneMore ==
  ASSUME TasksTyped, NEW s \in Paced, NEW front \in Nat, HasHad(s, front), NEW end \in Ends[s], front < end,
         \A e \in Ends[s] : e > front => end <= e,
         delivered' = [delivered EXCEPT ![s] = Append(@, {end})]
  PROVE  HasHad(s, end)'
<1> DEFINE had == delivered[s]
<1>1. s \in Peers /\ end \in Nat /\ Ends[s] \subseteq Nat
  BY HandlersAssumption DEF Peers
<1>2. had \in Seq(SUBSET Nat) /\ delivered'[s] = Append(had, {end})
  BY DEF TasksTyped
<1>3. /\ Len(delivered'[s]) = Len(had) + 1 /\ Len(had) \in Nat
      /\ \A i \in 1..Len(had) : delivered'[s][i] = had[i]
      /\ delivered'[s][Len(had) + 1] = {end}
  <2>1. {end} \in SUBSET Nat
    BY <1>1
  <2> HIDE DEF had
  <2> QED BY <1>2, <2>1, AppendIsLast
<1>4. Cardinality({e \in Ends[s] : e <= end}) = Len(had) + 1
  BY <1>1, OneMoreEnd DEF HasHad
<1>5. ASSUME NEW i \in 1..Len(delivered'[s])
      PROVE  \E e \in Ends[s] :
               /\ delivered'[s][i] = {e} /\ e <= end
               /\ Cardinality({f \in Ends[s] : f <= e}) = i
  <2>1. CASE i \in 1..Len(had)
    <3>1. PICK e \in Ends[s] :
            had[i] = {e} /\ e <= front /\ Cardinality({f \in Ends[s] : f <= e}) = i
      BY <2>1 DEF HasHad
    <3>2. e <= end
      BY <1>1, <3>1
    <3> QED BY <1>3, <2>1, <3>1, <3>2
  <2>2. CASE i = Len(had) + 1
    <3>1. delivered'[s][i] = {end}
      BY <1>3, <2>2
    <3>2. end <= end /\ Cardinality({f \in Ends[s] : f <= end}) = i
      BY <1>1, <1>4, <2>2
    <3> QED BY <3>1, <3>2
  <2>3. i \in 1..Len(had) \/ i = Len(had) + 1
    BY <1>3
  <2> QED BY <2>1, <2>2, <2>3
<1>6. ASSUME NEW e \in Ends[s], e <= end PROVE Delivered(s, e)'
  <2>1. CASE e <= front
    <3>1. PICK i \in 1..Len(had) : e \in had[i]
      BY <2>1 DEF HasHad, Delivered
    <3>2. i \in 1..Len(delivered'[s]) /\ e \in delivered'[s][i]
      BY <1>3, <3>1
    <3> QED BY <3>2 DEF Delivered
  <2>2. CASE ~(e <= front)
    <3>1. e = end
      BY <1>1, <1>6, <2>2
    <3>2. Len(had) + 1 \in 1..Len(delivered'[s]) /\ e \in delivered'[s][Len(had) + 1]
      BY <1>3, <3>1
    <3> QED BY <3>2 DEF Delivered
  <2> QED BY <2>1, <2>2
<1> QED BY <1>3, <1>4, <1>5, <1>6 DEF HasHad

LEMMA EmptyStretch == ASSUME NEW from \in Nat PROVE Stretch(from, 0) = << >>
BY DEF Stretch

(* The callback has the packet the client waits for.                         *)
LEMMA TaskHad ==
  ASSUME PInv, NEW k \in 1..Len(tasks), Task_(k), NEW s \in Paced, tasks[k].of = s
  PROVE  TasksTyped' /\ Waits(s)'
<1>1. /\ at # "destroyed" /\ at' = at /\ backlog' = backlog /\ tasks' = RemoveAt(tasks, k)
      /\ UNCHANGED <<peer, sent, got, handler>>
  BY DEF Task_, RunTask, reactorVars
<1>2. s \in Paced /\ s \in Peers /\ Ends[s] \subseteq Nat
  BY HandlersAssumption DEF Peers
<1>3. Waits(s) /\ ~Unscheduled(s)
  BY DEF PInv, Unscheduled
<1>4. Alive(s) /\ ScheduledOnce(s)
  BY <1>1, <1>3 DEF Waits
<1>5. PICK front \in Ends[s] \cup {0} : HasHad(s, front) /\ OneAhead(s, front)
  BY <1>1, <1>3, <1>4 DEF Waits, Alive
<1>e. PICK end \in Ends[s] : end = got[s] - Lookahead(s)
  BY <1>3, <1>5 DEF OneAhead
<1>6. /\ peer[s] = "open" /\ got[s] = end + Lookahead(s) /\ sent[s] = end + Lookahead(s) /\ front < end
      /\ handler[s].ring = Stretch(end, Lookahead(s)) /\ handler[s].packs_ = {end}
      /\ \A e \in Ends[s] : e > front => end <= e
  <2>1. /\ peer[s] = "open" /\ got[s] = sent[s] /\ front < end
        /\ handler[s].ring = Stretch(end, Lookahead(s)) /\ handler[s].packs_ = {end}
        /\ \A e \in Ends[s] : e > front => sent[s] <= e + Lookahead(s)
    BY <1>3, <1>5, <1>e DEF OneAhead
  <2>2. end \in Nat /\ got[s] \in Nat /\ Lookahead(s) \in Nat
    BY <1>2, LookaheadNat DEF PInv, JInv, IInv, TypeOK, HandlersTypeOK
  <2>3. got[s] = end + Lookahead(s)
    BY <1>e, <2>2
  <2>4. \A e \in Ends[s] : e > front => end <= e
    BY <1>2, <2>1, <2>2, <2>3
  <2> QED BY <2>1, <2>3, <2>4
<1>7. delivered' = [delivered EXCEPT ![s] = Append(@, {end})]
  BY <1>2, <1>4, <1>6 DEF Task_, RunTask
<1>8. TasksTyped'
  <2>1. tasks' \in Seq(TaskRecords)
    BY <1>1, RemoveAtShifts DEF PInv, TasksTyped
  <2>2. delivered[s] \in Seq(SUBSET Nat) /\ {end} \in SUBSET Nat
    BY <1>2, <1>6 DEF PInv, TasksTyped
  <2>3. Append(delivered[s], {end}) \in Seq(SUBSET Nat)
    BY <2>2, AppendIsLast
  <2> QED BY <1>2, <1>7, <2>1, <2>3 DEF PInv, TasksTyped
<1>9. HasHad(s, end)'
  <2>1. front \in Nat
    BY <1>2
  <2>2. TasksTyped /\ HasHad(s, front)
    BY <1>5 DEF PInv
  <2>3. front < end /\ \A e \in Ends[s] : e > front => end <= e
    BY <1>6
  <2> QED BY <1>7, <2>1, <2>2, <2>3, HasOneMore
<1>10. Unscheduled(s)' /\ ScheduledOnce(s)'
  <2>0. tasks \in Seq(TaskRecords)
    BY DEF PInv, TasksTyped
  <2>1. /\ Len(tasks) \in Nat /\ Len(tasks') = Len(tasks) - 1
        /\ \A i \in 1..Len(tasks) - 1 : tasks'[i] = tasks[IF i < k THEN i ELSE i + 1]
    BY <1>1, <2>0, RemoveAtShifts
  <2>2. \A i \in 1..Len(tasks) : i # k => tasks[i].of # s
    BY <1>4 DEF ScheduledOnce
  <2>3. ASSUME NEW i \in 1..Len(tasks') PROVE tasks'[i].of # s
    <3>1. CASE i < k
      BY <2>1, <2>2, <3>1
    <3>2. CASE ~(i < k)
      BY <2>1, <2>2, <3>2
    <3> QED BY <3>1, <3>2
  <2> QED BY <2>3 DEF Unscheduled, ScheduledOnce
<1>11. OneAhead(s, end)'
  <2>1. end \in Nat /\ Lookahead(s) \in Nat /\ got[s] - end = Lookahead(s) /\ end <= got[s]
    BY <1>2, <1>6, LookaheadNat
  <2>2. handler[s].ring = Stretch(end, got[s] - end)
    BY <1>6, <2>1
  <2>3. handler[s].life # "none"
    BY <1>4 DEF Alive
  <2>4. \A e \in Ends[s] : e > end => sent[s] <= e + Lookahead(s) /\ e + Lookahead(s) > got[s]
    BY <1>2, <1>6, <2>1
  <2> QED BY <1>1, <1>6, <1>10, <2>1, <2>2, <2>3, <2>4 DEF OneAhead
<1>12. s \in backlog' \/ peer'[s] = "absent" => handler'[s].life = "none"
  BY <1>1, <1>3 DEF Waits
<1>13. Waits(s)'
  BY <1>1, <1>6, <1>9, <1>10, <1>11, <1>12 DEF Waits
<1> QED BY <1>8, <1>13


-----------------------------------------------------------------------------
(* A read of a client that waits, up to where the next packet ends at most.  *)
LEMMA WaitingRead ==
  ASSUME PInv, NEW s \in Paced, Alive(s), TcpRead(s), UNCHANGED reactorVars, at # "destroyed"
  PROVE  TasksTyped' /\ Waits(s)'
<1>1. /\ s \in Peers /\ s \in Clients /\ Ends[s] \subseteq Nat
      /\ got[s] \in Nat /\ sent[s] \in Nat /\ handler \in [Peers -> HandlerRecords]
      /\ handler[s].ring \in Seq(Nat) /\ Len(handler[s].ring) \in Nat /\ Capacity \in Nat
      /\ at' = at /\ backlog' = backlog /\ UNCHANGED <<peer, sent, delivered>>
  BY HandlersAssumption
    DEF Peers, PInv, JInv, IInv, TypeOK, HandlersTypeOK, HandlerRecords, reactorVars, TcpRead
<1>2. Waits(s) /\ ScheduledOnce(s)
  BY DEF PInv, Waits
<1>3. PICK front \in Ends[s] \cup {0} : HasHad(s, front) /\ OneAhead(s, front)
  BY <1>2 DEF Waits, Alive
<1>4. PICK space \in LinearSpaces(s) :
        \E n \in {IF space < Unread(s) THEN space ELSE Unread(s)} :
          /\ n > 0
          /\ got' = [got EXCEPT ![s] = @ + n]
          /\ \E cut \in Cuts(s, handler[s].ring \o Units(s, n)) :
               /\ Parse(s, cut, FALSE)
               /\ tasks' = IF cut.packs = {} THEN tasks ELSE Append(tasks, Task(s, cut.packs))
  BY DEF TcpRead
<1>5. PICK n \in {IF space < Unread(s) THEN space ELSE Unread(s)} :
        /\ n > 0
        /\ got' = [got EXCEPT ![s] = @ + n]
        /\ \E cut \in Cuts(s, handler[s].ring \o Units(s, n)) :
             /\ Parse(s, cut, FALSE)
             /\ tasks' = IF cut.packs = {} THEN tasks ELSE Append(tasks, Task(s, cut.packs))
  BY <1>4
<1>6. n \in Nat /\ n > 0 /\ got[s] + n <= sent[s] /\ got'[s] = got[s] + n
  BY <1>1, <1>4, <1>5 DEF LinearSpaces, Unread, PInv, JInv, IInv, TypeOK, HandlersTypeOK
<1>7. Unscheduled(s) /\ s \notin LongKeys
  BY <1>1, <1>3, <1>6 DEF OneAhead, PInv
<1>l. Lookahead(s) \in Nat
  BY LookaheadNat
<1>8. /\ front \in Nat /\ front <= got[s]
      /\ handler[s].ring = Stretch(front, got[s] - front)
      /\ handler[s].keys => \A e \in Ends[s] : e > front => e + Lookahead(s) > got[s]
      /\ \A e \in Ends[s] : e > front => got[s] + n <= e + Lookahead(s)
      /\ handler[s].life # "none" /\ handler[s].life # "freed"
  <2>1. front \in Nat /\ front <= got[s] /\ \A e \in Ends[s] : e > front => sent[s] <= e + Lookahead(s)
    BY <1>1, <1>3 DEF OneAhead
  <2>2. handler[s].life # "none" /\ handler[s].life # "freed"
    BY DEF Alive
  <2>3. \A e \in Ends[s] : e > front => got[s] + n <= e + Lookahead(s)
    BY <1>1, <1>6, <1>l, <2>1
  <2> QED BY <1>3, <1>7, <2>1, <2>2, <2>3 DEF OneAhead
<1>a. PICK m \in Nat : got[s] = front + m
  <2>1. got[s] \in Nat /\ front \in Nat /\ front <= got[s]
    BY <1>1, <1>8
  <2>2. got[s] - front \in Nat /\ got[s] = front + (got[s] - front)
    BY ONLY <2>1
  <2> QED BY <2>2
<1> DEFINE read == handler[s].ring \o Units(s, n)
<1>9. /\ front \in Nat /\ m \in Nat /\ n \in Nat /\ m + n \in Nat /\ m + n > 0
      /\ got[s] - front = m /\ got'[s] - front = m + n /\ got[s] + n = front + (m + n)
  <2>1. front \in Nat /\ n \in Nat /\ n > 0 /\ got'[s] = got[s] + n
    BY <1>6, <1>8
  <2> QED BY <1>a, <2>1
<1>10. read = Stretch(front, m + n) /\ read \in Seq(Nat) /\ Len(read) = m + n
       /\ \A i \in 1..m + n : read[i] = front + i
  <2>1. Units(s, n) = Stretch(front + m, n)
    BY <1>a DEF Units, Stretch
  <2>2. /\ Stretch(front, m) \o Stretch(front + m, n) = Stretch(front, m + n)
        /\ Stretch(front, m + n) \in Seq(Nat) /\ Len(Stretch(front, m + n)) = m + n
    <3>1. front \in Nat /\ m \in Nat /\ n \in Nat /\ m + n \in Nat
      BY <1>9
    <3>2. Stretch(front, m) \o Stretch(front + m, n) = Stretch(front, m + n)
      BY ONLY <3>1, StretchesJoin
    <3>3. Stretch(front, m + n) \in Seq(Nat) /\ Len(Stretch(front, m + n)) = m + n
      BY ONLY <3>1, StretchIs
    <3> QED BY <3>2, <3>3
  <2>3. read = Stretch(front, m + n)
    BY <1>8, <1>9, <2>1, <2>2
  <2>4. \A i \in 1..m + n : Stretch(front, m + n)[i] = front + i
    BY DEF Stretch
  <2> HIDE DEF read
  <2> QED BY <2>2, <2>3, <2>4
<1>11. PICK cut \in Cuts(s, read) :
         /\ Parse(s, cut, FALSE)
         /\ tasks' = IF cut.packs = {} THEN tasks ELSE Append(tasks, Task(s, cut.packs))
  BY <1>5
<1> HIDE DEF read
<1>12. /\ handler'[s].ring = cut.ring /\ handler'[s].packs_ = cut.packs
       /\ handler'[s].life = handler[s].life /\ handler'[s].keys = handler[s].keys
  BY <1>1, <1>11 DEF Parse, HandlerRecords
<1>b. read[1] = front + 1
  BY <1>9, <1>10
<1>13. Range(read) = front + 1 .. front + (m + n)
  BY ONLY <1>9, <1>10, StretchRange
<1>14. HasHad(s, front)'
  BY <1>1, <1>3 DEF HasHad, Delivered
<1>15. s \in backlog' \/ peer'[s] = "absent" => handler'[s].life = "none"
  BY <1>1, <1>2, <1>12 DEF Waits
<1>16. CASE ~handler[s].keys \/ Complete(s, read) = {}
  <2>1. cut = Cut({}, read, 0)
    BY <1>7, <1>16 DEF Cuts
  <2>2. cut.packs = {} /\ cut.ring = read
    <3>1. SubSeq(read, 1, Len(read)) = read
      BY ONLY <1>10, <1>9, SubSeqProperties, SeqEqual
    <3> QED BY <2>1, <3>1 DEF Cut
  <2>3. tasks' = tasks
    BY <1>11, <2>2
  <2>4. Unscheduled(s)' /\ ScheduledOnce(s)'
    BY <1>7, <2>3 DEF Unscheduled, ScheduledOnce
  <2>5. handler[s].keys => \A e \in Ends[s] : e > front => e + Lookahead(s) > got[s] + n
    <3>1. SUFFICES ASSUME handler[s].keys, NEW e \in Ends[s], e > front, ~(e + Lookahead(s) > got[s] + n)
                   PROVE  FALSE
      OBVIOUS
    <3>2. e + Lookahead(s) \in front + 1 .. front + (m + n) /\ front + 1 <= e
      <4>1. e \in Nat
        BY <1>1
      <4>2. got[s] + n = front + (m + n)
        BY <1>9
      <4> QED BY <1>9, <1>l, <3>1, <4>1, <4>2
    <3> QED BY <1>13, <1>16, <1>b, <3>1, <3>2 DEF Complete
  <2>6. OneAhead(s, front)'
    <3>1. /\ front <= got'[s] /\ \A e \in Ends[s] : e > front => sent'[s] <= e + Lookahead(s)
          /\ peer'[s] \in {"fin", "reset"} =>
               \A e \in Ends[s] : e > front => sent'[s] < e + Lookahead(s)
      BY <1>1, <1>3, <1>6, <1>8 DEF OneAhead
    <3>2. handler'[s].ring = Stretch(front, got'[s] - front)
      BY <1>9, <1>10, <1>12, <2>2
    <3> QED BY <1>1, <1>6, <1>8, <1>12, <2>4, <2>5, <3>1, <3>2 DEF OneAhead
  <2>7. Waits(s)'
    BY <1>14, <1>15, <2>4, <2>6 DEF Waits
  <2> QED BY <1>1, <2>3, <2>7 DEF PInv, TasksTyped
<1>17. CASE handler[s].keys /\ Complete(s, read) # {}
  <2>1. PICK end \in Ends[s] : end + Lookahead(s) \in front + 1 .. front + (m + n) /\ front + 1 <= end
    BY <1>13, <1>17, <1>b DEF Complete
  <2>2. /\ end \in Nat /\ front < end
        /\ end + Lookahead(s) = got[s] + n /\ sent[s] = end + Lookahead(s) /\ end + Lookahead(s) = front + (m + n)
    <3>1. end \in Nat /\ front < end /\ end + Lookahead(s) <= front + (m + n)
      <4>1. end \in Nat /\ front \in Nat /\ m + n \in Nat
        BY <1>1, <1>9
      <4> QED BY <1>l, <2>1, <4>1
    <3>2. sent[s] <= end + Lookahead(s) /\ got[s] + n <= end + Lookahead(s)
      BY <1>3, <1>8, <3>1 DEF OneAhead
    <3>3. got[s] + n = front + (m + n) /\ got[s] + n \in Nat /\ got[s] + n <= sent[s] /\ sent[s] \in Nat
      <4>1. sent[s] \in Nat
        BY ONLY <1>1
      <4>2. got[s] + n <= sent[s]
        BY ONLY <1>6
      <4>3. got[s] + n = front + (m + n) /\ got[s] + n \in Nat
        BY ONLY <1>9
      <4> QED BY <4>1, <4>2, <4>3
    <3> QED BY <1>l, <3>1, <3>2, <3>3
  <2>a. peer[s] = "open"
    <3>1. peer[s] \notin {"fin", "reset"}
      BY <1>1, <1>3, <1>l, <2>2 DEF OneAhead
    <3>2. peer[s] # "absent"
      BY <1>2 DEF Waits, Alive
    <3> QED BY <1>1, <3>1, <3>2 DEF PInv, JInv, IInv, TypeOK, HandlersTypeOK
  <2>b. PICK k \in Nat : front + k = end /\ k + Lookahead(s) = m + n
    <3>1. end - front \in Nat /\ front + (end - front) = end /\ (end - front) + Lookahead(s) = m + n
      BY <1>9, <1>l, <2>2
    <3> QED BY <3>1
  <2>3. Complete(s, read) = {end}
    <3>1. ASSUME NEW e \in Ends[s], e + Lookahead(s) \in Range(read), read[1] <= e PROVE e = end
      <4>1. e \in Nat /\ front < e /\ e + Lookahead(s) <= front + (m + n)
        BY <1>1, <1>9, <1>13, <1>b, <3>1
      <4>2. got[s] + n <= e + Lookahead(s)
        BY <1>8, <4>1
      <4> QED BY <1>9, <1>l, <2>2, <4>1, <4>2
    <3>2. end + Lookahead(s) \in Range(read) /\ read[1] <= end
      BY <1>13, <1>b, <2>1
    <3> QED BY <3>1, <3>2 DEF Complete
  <2>4. UpTo(read, end) = k
    BY <1>8, <1>b, <2>b DEF UpTo
  <2>5. end \in WholeAtFront(s, read)
    <3>1. read[1] - 1 = front
      BY <1>8, <1>b
    <3>2. end \in NextEnds(s, front)
      <4>1. ASSUME NEW e \in Ends[s], ~(e <= front) PROVE e >= end
        <5>1. e \in Nat /\ got[s] + n <= e + Lookahead(s)
          BY <1>1, <1>8, <4>1
        <5> QED BY <1>l, <2>2, <5>1
      <4> QED BY <2>2, <4>1 DEF NextEnds
    <3>3. \A i \in 1..m + n : read[i] = read[1] + i - 1
      BY <1>8, <1>9, <1>10, <1>b
    <3>4. front \in Ends[s] \cup {0}
      OBVIOUS
    <3>5. /\ UpTo(read, end) + Lookahead(s) <= Len(read)
          /\ \A i \in 1..UpTo(read, end) + Lookahead(s) : read[i] = read[1] + i - 1
      BY <1>9, <1>10, <2>4, <2>b, <3>3
    <3> QED BY <2>3, <3>1, <3>2, <3>4, <3>5 DEF WholeAtFront
  <2>6. cut = Cut({end}, read, k)
    <3>1. PICK e \in WholeAtFront(s, read) : cut = Cut({e}, read, UpTo(read, e))
      BY <1>7, <1>17, <2>5, WholeCut
    <3>2. e = end
      BY <2>3, <3>1 DEF WholeAtFront
    <3> QED BY <2>4, <3>1, <3>2
  <2>7. cut.packs = {end} /\ cut.ring = Stretch(end, Lookahead(s))
    <3>0. \A l \in Nat : SubSeq(Stretch(front, k + l), k + 1, k + l) = Stretch(front + k, l)
      BY ONLY <1>9, <2>b, StretchRest
    <3>1. SubSeq(Stretch(front, k + Lookahead(s)), k + 1, k + Lookahead(s)) = Stretch(front + k, Lookahead(s))
      BY ONLY <1>l, <3>0
    <3>2. SubSeq(read, k + 1, Len(read)) = Stretch(end, Lookahead(s))
      BY <1>10, <2>b, <3>1
    <3> QED BY <2>6, <3>2 DEF Cut
  <2>8. tasks' = Append(tasks, [of |-> s, got |-> got'[s], packs |-> {end}])
    BY <1>11, <2>7 DEF Task
  <2> DEFINE t == [of |-> s, got |-> got'[s], packs |-> {end}]
  <2>9. t \in TaskRecords
    BY <1>1, <1>6, <1>9, <2>2 DEF TaskRecords
  <2>10. /\ tasks' \in Seq(TaskRecords) /\ Len(tasks') = Len(tasks) + 1 /\ Len(tasks) \in Nat
         /\ \A i \in 1..Len(tasks) : tasks'[i] = tasks[i]
         /\ tasks'[Len(tasks) + 1] = t
    BY <2>8, <2>9, AppendIsLast DEF PInv, TasksTyped
  <2>11. t.of = s /\ t.got = got'[s] /\ t.packs = {end}
    OBVIOUS
  <2> HIDE DEF t
  <2>12. \A i \in 1..Len(tasks') : tasks'[i].of = s <=> i = Len(tasks) + 1
    <3>1. ASSUME NEW i \in 1..Len(tasks'), i # Len(tasks) + 1 PROVE tasks'[i].of # s
      <4>1. i \in 1..Len(tasks)
        BY <2>10, <3>1
      <4> QED BY <1>7, <2>10, <4>1 DEF Unscheduled
    <3> QED BY <2>10, <2>11, <3>1
  <2>13. ~Unscheduled(s)' /\ ScheduledOnce(s)'
    <3>1. Len(tasks) + 1 \in 1..Len(tasks')
      BY <2>10
    <3>2. handler'[s].packs_ = {end}
      BY <1>12, <2>7
    <3> QED BY <2>10, <2>11, <2>12, <3>1, <3>2 DEF Unscheduled, ScheduledOnce
  <2>14. OneAhead(s, front)'
    <3>1. got'[s] = end + Lookahead(s) /\ sent'[s] = got'[s] /\ got'[s] - Lookahead(s) = end
      BY <1>1, <1>6, <1>l, <2>2
    <3>2. handler'[s].packs_ = {end} /\ handler'[s].ring = Stretch(end, Lookahead(s))
      BY <1>12, <2>7
    <3>3. /\ front <= got'[s]
          /\ \A e \in Ends[s] : e > front => sent'[s] <= e + Lookahead(s)
      BY <1>1, <1>3, <1>8, <1>l, <2>2, <3>1 DEF OneAhead
    <3> QED BY <1>1, <1>8, <1>12, <2>2, <2>13, <2>a, <3>1, <3>2, <3>3 DEF OneAhead
  <2>15. Waits(s)'
    <3>1. Alive(s)'
      BY <1>12 DEF Alive
    <3> QED BY <1>14, <1>15, <2>13, <2>14, <3>1 DEF Waits
  <2> QED BY <1>1, <2>10, <2>15 DEF PInv, TasksTyped
<1> QED BY <1>16, <1>17


(* What a read of any socket leaves to the scheduler.                        *)
LEMMA ReadSchedules ==
  ASSUME HandlersTypeOK, HandlersTypeOK', NEW s \in Peers,
         TcpRead(s) \/ UdpRead(s) \/ UdpError(s)
  PROVE  /\ delivered' = delivered
         /\ tasks' = tasks \/ \E t \in TaskRecords : t.of = s /\ tasks' = Append(tasks, t)
<1>1. \E cut, close : /\ Parse(s, cut, close)
                      /\ tasks' = tasks \/ tasks' = Append(tasks, Task(s, cut.packs))
  BY DEF TcpRead, UdpRead, UdpError
<1>2. PICK cut, close : /\ Parse(s, cut, close)
                        /\ tasks' = tasks \/ tasks' = Append(tasks, Task(s, cut.packs))
  BY <1>1
<1>3. handler'[s].packs_ = cut.packs
  BY <1>2 DEF Parse, HandlersTypeOK, HandlerRecords
<1>4. cut.packs \in SUBSET Nat /\ got'[s] \in Nat
  BY <1>3, HandlersAssumption DEF HandlersTypeOK
<1>5. Task(s, cut.packs) \in TaskRecords /\ Task(s, cut.packs).of = s
  BY <1>4 DEF Task, TaskRecords
<1>6. delivered' = delivered
  BY DEF TcpRead, UdpRead, UdpError
<1> QED BY <1>2, <1>5, <1>6

LEMMA ReadWaits ==
  ASSUME PInv, JInv', Read
  PROVE  PInv'
<1>1. /\ at = "read" /\ at' = at /\ backlog' = backlog /\ UNCHANGED reactorVars
      /\ HandlersTypeOK /\ HandlersTypeOK'
  BY DEF Read, reactorVars, PInv, JInv, IInv, TypeOK
<1>2. This \in Peers /\ Alive(This)
  BY <1>1 DEF PInv, JInv, IInv, Dispatched, DescriptorsAgree, TypeOK, Registered, This, Sockets
<1>3. TcpRead(This) \/ UdpRead(This) \/ UdpError(This)
  BY DEF Read
<1>4. PICK r \in Peers : r = This
  BY <1>2
<1>5. /\ \A t \in Peers \ {r} :
           /\ handler'[t] = handler[t] /\ got'[t] = got[t] /\ sent'[t] = sent[t] /\ peer'[t] = peer[t]
      /\ delivered' = delivered
      /\ tasks' = tasks \/ \E t \in TaskRecords : t.of = r /\ tasks' = Append(tasks, t)
  BY <1>1, <1>3, <1>4, ReadsOneSocket, ReadSchedules
<1>6. tasks \in Seq(TaskRecords) /\ delivered \in [Paced -> Seq(SUBSET Nat)]
  BY DEF PInv, TasksTyped
<1>7. TasksTyped'
  BY <1>5, <1>6, AppendIsLast DEF TasksTyped
<1>8. ASSUME NEW s \in Paced PROVE Waits(s)'
  <2>1. s \in Peers /\ s \in Clients /\ Waits(s)
    BY HandlersAssumption DEF Peers, PInv
  <2>2. CASE s = r
    <3>1. TcpRead(s)
      BY <1>4, <2>1, <2>2 DEF Read
    <3> QED BY <1>1, <1>2, <1>4, <2>2, <3>1, WaitingRead
  <2>3. CASE s # r
    <3>1. SameTasks(s)
      BY <1>5, <1>6, <2>1, <2>3, TasksStay, OthersScheduled
    <3> QED BY <1>1, <1>5, <2>1, <2>3, <3>1, Undisturbed
  <2> QED BY <2>2, <2>3
<1> QED BY <1>7, <1>8 DEF PInv

(* The loop is lost in the handler of a client that does not wait.           *)
LEMMA HangWaits ==
  ASSUME PInv, JInv', Hang
  PROVE  PInv'
<1>1. at = "read" /\ backlog' = backlog /\ HandlersTypeOK
  BY DEF Hang, Go, PInv, JInv, IInv, TypeOK
<1>2. PICK r \in Peers : r = This
  BY <1>1 DEF PInv, JInv, IInv, Dispatched, DescriptorsAgree, TypeOK, Registered, This, Sockets
<1>3. TcpHang(r) \/ UdpHang(r)
  BY <1>2 DEF Hang
<1>4. \A t \in Peers \ {r} :
        handler'[t] = handler[t] /\ got'[t] = got[t] /\ sent'[t] = sent[t] /\ peer'[t] = peer[t]
  BY <1>1, <1>3, ReadsOneSocket
<1>5. r \in LongKeys /\ tasks' = tasks /\ delivered' = delivered
  BY <1>3 DEF TcpHang, UdpHang
<1>6. ASSUME NEW s \in Paced PROVE Waits(s)'
  <2>1. s \in Peers /\ s # r /\ Waits(s)
    BY <1>5, HandlersAssumption DEF Peers, PInv
  <2>2. SameTasks(s)
    BY <1>4, <1>5, <2>1, TasksStay
  <2> QED BY <1>1, <1>4, <1>5, <2>1, <2>2, Undisturbed
<1> QED BY <1>5, <1>6 DEF PInv, TasksTyped

LEMMA TaskWaits ==
  ASSUME PInv, JInv', NEW k \in 1..Len(tasks), Task_(k)
  PROVE  PInv'
<1>1. /\ at' = at /\ backlog' = backlog /\ tasks' = RemoveAt(tasks, k)
      /\ UNCHANGED <<peer, sent, got, handler>>
  BY DEF Task_, RunTask, reactorVars
<1>2. tasks \in Seq(TaskRecords) /\ delivered \in [Paced -> Seq(SUBSET Nat)]
  BY DEF PInv, TasksTyped
<1>3. PICK r \in Peers : tasks[k].of = r
  <2>1. tasks[k] \in TaskRecords
    BY <1>2
  <2> QED BY <2>1 DEF TaskRecords
<1>4. \A s \in Paced \ {r} : delivered'[s] = delivered[s]
  BY <1>2, <1>3 DEF Task_, RunTask
<1>5. TasksTyped'
  <2>1. CASE r \in Paced
    BY <1>3, <2>1, TaskHad
  <2>2. CASE r \notin Paced
    BY <1>1, <1>2, <1>3, <2>2, RemoveAtShifts DEF TasksTyped, Task_, RunTask
  <2> QED BY <2>1, <2>2
<1>6. ASSUME NEW s \in Paced PROVE Waits(s)'
  <2>1. CASE s = r
    BY <1>3, <2>1, TaskHad
  <2>2. CASE s # r
    <3>1. SameTasks(s)
      BY <1>1, <1>2, <1>3, <2>2, OthersRun
    <3> QED BY <1>1, <1>4, <2>2, <3>1, Undisturbed DEF PInv
  <2> QED BY <2>1, <2>2
<1> QED BY <1>5, <1>6 DEF PInv

-----------------------------------------------------------------------------
(* The client sends the next unit, or leaves.                                *)
LEMMA FarWaits ==
  ASSUME PInv, JInv', NEW r \in Peers, Far(r)
  PROVE  PInv'
<1>1. /\ at # "destroyed" /\ at' = at /\ backlog' = backlog /\ peer[r] = "open"
      /\ handler[r].life # "freed" /\ UNCHANGED <<got, handler, tasks, delivered>>
      /\ peer \in [Peers -> {"absent", "open", "fin", "reset"}] /\ sent \in [Peers -> Nat]
      /\ got \in [Peers -> Nat] /\ \A t \in Peers : got[t] <= sent[t]
  BY DEF Far, SendStream, Leave, PInv, JInv, IInv, TypeOK, HandlersTypeOK
<1>2. \A t \in Peers \ {r} : peer'[t] = peer[t] /\ sent'[t] = sent[t]
  BY <1>1 DEF Far, SendStream, Leave
<1>3. ASSUME r \in Paced PROVE Waits(r)'
  <2>1. r \in Clients /\ r \notin UdpSockets /\ Ends[r] \subseteq Nat /\ Waits(r)
    BY <1>3, HandlersAssumption DEF PInv, Peers
  <2>2. PICK front \in Ends[r] \cup {0} : HasHad(r, front) /\ OneAhead(r, front)
    BY <1>1, <2>1 DEF Waits
  <2>l. Lookahead(r) \in Nat /\ front \in Nat
    BY <2>1, LookaheadNat
  <2>3. \A e \in Ends[r] : e + Lookahead(r) <= sent[r] => e <= front
    <3>1. \A e \in Ends[r] : e + Lookahead(r) <= sent[r] => Delivered(r, e)
      BY <1>3 DEF Far, SendStream, Leave, MaySend
    <3>2. ASSUME NEW e \in Ends[r], Delivered(r, e) PROVE e <= front
      BY <2>2, <3>2 DEF HasHad, Delivered
    <3> QED BY <3>1, <3>2
  <2>4. Unscheduled(r)
    <3>1. SUFFICES ASSUME ~Unscheduled(r) PROVE FALSE
      OBVIOUS
    <3>2. got[r] = sent[r] /\ got[r] - Lookahead(r) \in Ends[r] /\ front < got[r] - Lookahead(r)
      BY <2>2, <3>1 DEF OneAhead
    <3>3. got[r] - Lookahead(r) + Lookahead(r) = sent[r]
      BY <1>1, <2>l, <3>2
    <3>4. got[r] - Lookahead(r) <= front
      BY <1>1, <2>3, <3>2, <3>3
    <3> QED BY <1>1, <2>1, <2>l, <3>2, <3>4
  <2>b. \A e \in Ends[r] : e > front => sent[r] < e + Lookahead(r)
    <3>1. SUFFICES ASSUME NEW e \in Ends[r], e > front, ~(sent[r] < e + Lookahead(r)) PROVE FALSE
      OBVIOUS
    <3>2. e \in Nat /\ e + Lookahead(r) <= sent[r]
      BY <1>1, <2>1, <2>l, <3>1
    <3> QED BY <2>3, <2>l, <3>1, <3>2
  <2>5. /\ Unscheduled(r)' /\ ScheduledOnce(r)' /\ HasHad(r, front)'
        /\ Alive(r)' <=> Alive(r)
    BY <1>1, <2>1, <2>2, <2>4 DEF Unscheduled, ScheduledOnce, HasHad, Delivered, Alive, Waits
  <2>6. OneAhead(r, front)'
    <3>1. CASE SendStream(r)
      <4>1. sent'[r] = sent[r] + 1 /\ peer' = peer
        BY <1>1, <2>1, <3>1 DEF SendStream
      <4>2. \A e \in Ends[r] : e > front => sent'[r] <= e + Lookahead(r)
        BY <1>1, <2>1, <2>b, <2>l, <4>1
      <4> QED BY <1>1, <2>2, <2>4, <2>5, <4>1, <4>2 DEF OneAhead
    <3>2. CASE Leave(r, "fin") \/ Leave(r, "reset")
      <4>1. sent' = sent
        BY <3>2 DEF Leave
      <4> QED BY <1>1, <2>2, <2>4, <2>5, <2>b, <4>1 DEF OneAhead
    <3> QED BY <3>1, <3>2 DEF Far
  <2>7. r \in backlog' \/ peer'[r] = "absent" => handler'[r].life = "none"
    <3>1. peer'[r] # "absent"
      BY <1>1 DEF Far, SendStream, Leave
    <3> QED BY <1>1, <2>1, <3>1 DEF Waits
  <2> QED BY <1>1, <2>5, <2>6, <2>7 DEF Waits
<1>4. ASSUME NEW s \in Paced, s # r PROVE Waits(s)'
  <2>1. s \in Peers
    BY HandlersAssumption DEF Peers
  <2>2. SameTasks(s)
    BY <1>1, TasksStay
  <2> QED BY <1>1, <1>2, <1>4, <2>1, <2>2, Undisturbed DEF PInv
<1>5. TasksTyped'
  BY <1>1 DEF PInv, TasksTyped
<1> QED BY <1>3, <1>4, <1>5 DEF PInv


-----------------------------------------------------------------------------
(* A connection comes, and is closed.                                        *)
LEMMA ConnectWaits ==
  ASSUME PInv, JInv', NEW c \in Clients, Connect(c)
  PROVE  PInv'
<1>1. /\ peer[c] = "absent" /\ peer' = [peer EXCEPT ![c] = "open"] /\ backlog' = backlog \cup {c}
      /\ at' = at /\ UNCHANGED <<sent, got, handler, tasks, delivered>>
      /\ peer \in [Peers -> {"absent", "open", "fin", "reset"}]
  BY DEF Connect, PInv, JInv, IInv, TypeOK, HandlersTypeOK
<1>2. ASSUME NEW s \in Paced PROVE Waits(s)'
  <2>1. s \in Peers /\ Waits(s) /\ SameTasks(s)
    BY <1>1, HandlersAssumption, TasksStay DEF Peers, PInv
  <2>2. CASE s = c
    <3>1. handler[s].life = "none" /\ ~Alive(s)
      BY <1>1, <2>1, <2>2 DEF Waits, Alive
    <3>2. peer'[s] = "open"
      BY <1>1, <2>1, <2>2
    <3>3. \A front : /\ HasHad(s, front) => HasHad(s, front)'
                     /\ OneAhead(s, front) => OneAhead(s, front)'
      BY <1>1, <2>1, <3>1, <3>2 DEF HasHad, Delivered, OneAhead, Alive, SameTasks
    <3> QED BY <1>1, <2>1, <3>1, <3>3 DEF Waits, SameTasks, Alive
  <2>3. CASE s # c
    BY <1>1, <2>1, <2>3, Undisturbed
  <2> QED BY <2>2, <2>3
<1> QED BY <1>1, <1>2 DEF PInv, TasksTyped

LEMMA AcceptWaits ==
  ASSUME PInv, JInv', Accept
  PROVE  PInv'
<1>1. PICK c \in backlog :
        /\ backlog' = backlog \ {c}
        /\ \/ handler' = [handler EXCEPT ![c] = NewHandler(head_key_)] /\ UNCHANGED at
           \/ at' = "thrown" /\ UNCHANGED handler
  BY DEF Accept, RegisterThrows
<1>2. /\ at = "accept" /\ UNCHANGED <<peer, sent, got, tasks, delivered>>
      /\ handler \in [Peers -> HandlerRecords] /\ head_key_ \in BOOLEAN
      /\ c \in Clients /\ peer[c] # "absent" /\ got \in [Peers -> Nat]
  BY DEF Accept, PInv, JInv, IInv, TypeOK, HandlersTypeOK, Strangers
<1>3. ASSUME NEW s \in Paced PROVE Waits(s)'
  <2>1. s \in Peers /\ Ends[s] \subseteq Nat /\ Waits(s)
    BY HandlersAssumption DEF Peers, PInv
  <2>2. CASE handler' = [handler EXCEPT ![c] = NewHandler(head_key_)] /\ UNCHANGED at /\ s = c
    <3>1. handler[s].life = "none" /\ ~Alive(s) /\ Unscheduled(s) /\ ScheduledOnce(s)
      BY <1>1, <1>2, <2>1, <2>2 DEF Waits, Alive
    <3>2. handler'[s].life = "live" /\ handler'[s].ring = << >>
      BY <1>2, <2>1, <2>2, HandlerValues
    <3>3. Unscheduled(s)' /\ ScheduledOnce(s)' /\ Alive(s)'
      BY <1>2, <3>1, <3>2 DEF Unscheduled, ScheduledOnce, Alive
    <3>4. PICK front \in Ends[s] \cup {0} : HasHad(s, front) /\ OneAhead(s, front)
      BY <1>2, <2>1, <3>1 DEF Waits
    <3>5. front \in Nat /\ got[s] = 0 /\ front = 0 /\ got[s] - front = 0
      BY <2>1, <3>1, <3>4 DEF OneAhead
    <3>6. handler'[s].ring = Stretch(front, got'[s] - front)
      BY <1>2, <3>2, <3>5, EmptyStretch
    <3>7. HasHad(s, front)'
      BY <1>2, <3>4 DEF HasHad, Delivered
    <3>8. \A e \in Ends[s] : e > front => e + Lookahead(s) > got'[s]
      BY <1>2, <2>1, <3>5, LookaheadNat
    <3>9. OneAhead(s, front)'
      BY <1>2, <3>2, <3>3, <3>4, <3>6, <3>8 DEF OneAhead
    <3>10. s \notin backlog' /\ peer'[s] # "absent"
      BY <1>1, <1>2, <2>2
    <3> QED BY <3>3, <3>7, <3>9, <3>10 DEF Waits
  <2>3. CASE ~(handler' = [handler EXCEPT ![c] = NewHandler(head_key_)] /\ UNCHANGED at /\ s = c)
    <3>1. handler'[s] = handler[s] /\ SameTasks(s)
      BY <1>1, <1>2, <2>1, <2>3, TasksStay
    <3> QED BY <1>1, <1>2, <2>1, <3>1, Undisturbed
  <2> QED BY <2>2, <2>3
<1> QED BY <1>2, <1>3 DEF PInv, TasksTyped

LEMMA SetUpWaits ==
  ASSUME PInv, JInv', NEW fd \in Fds, NEW u \in UdpSockets \cup {Listener}, SetUp(fd, u)
  PROVE  PInv'
<1>1. /\ at = "bound" /\ UNCHANGED <<peer, sent, got, tasks, delivered, backlog>>
      /\ handler' = handler \/ handler' = [handler EXCEPT ![u] = NewHandler(TRUE)]
      /\ handler \in [Peers -> HandlerRecords]
  BY DEF SetUp, PInv, JInv, IInv, TypeOK, HandlersTypeOK
<1>2. ASSUME NEW s \in Paced PROVE Waits(s)'
  <2>1. s \in Peers /\ s # u /\ Waits(s)
    BY SocketsApart, HandlersAssumption DEF Peers, PInv
  <2>2. handler'[s] = handler[s] /\ SameTasks(s)
    BY <1>1, <2>1, TasksStay
  <2> QED BY <1>1, <2>1, <2>2, Undisturbed
<1> QED BY <1>1, <1>2 DEF PInv, TasksTyped

(* A handler is freed: with nothing scheduled, if its client waits.          *)
LEMMA FreedWaits ==
  ASSUME PInv, JInv', NEW r \in Peers, handler' = [handler EXCEPT ![r] = FreedHandler],
         UNCHANGED <<peer, sent, tasks, delivered, backlog>>,
         \A s \in Peers \ {r} : got'[s] = got[s],
         at # "destroyed", r \in Paced => Alive(r) /\ handler[r].should_close
  PROVE  PInv'
<1>1. handler \in [Peers -> HandlerRecords]
  BY DEF PInv, JInv, IInv, TypeOK, HandlersTypeOK
<1>2. ASSUME NEW s \in Paced PROVE Waits(s)'
  <2>1. s \in Peers /\ s \in Clients /\ Waits(s)
    BY HandlersAssumption DEF Peers, PInv
  <2>2. CASE s = r
    <3>1. peer[s] \in {"reset", "fin"}
      BY <2>1, <2>2 DEF PInv, JInv, Drained
    <3>2. Unscheduled(s)
      BY <2>1, <2>2, <3>1 DEF Waits, OneAhead, Alive
    <3>3. handler'[s].life = "freed" /\ ~Alive(s)'
      BY <1>1, <2>1, <2>2, HandlerValues DEF Alive
    <3>4. Unscheduled(s)' /\ ScheduledOnce(s)'
      BY <3>2 DEF Unscheduled, ScheduledOnce
    <3>5. \A front : HasHad(s, front) => HasHad(s, front)'
      BY DEF HasHad, Delivered
    <3>6. s \notin backlog' /\ peer'[s] # "absent"
      BY <2>1, <2>2, <3>1 DEF Waits, Alive
    <3> QED BY <2>1, <3>3, <3>4, <3>5, <3>6 DEF Waits
  <2>3. CASE s # r
    <3>1. handler'[s] = handler[s] /\ got'[s] = got[s] /\ SameTasks(s)
      BY <1>1, <2>1, <2>3, TasksStay
    <3> QED BY <2>1, <3>1, Undisturbed
  <2> QED BY <2>2, <2>3
<1> QED BY <1>2 DEF PInv, TasksTyped

LEMMA CatchWaits ==
  ASSUME PInv, JInv', Catch
  PROVE  PInv'
<1>1. /\ at = "read" /\ UNCHANGED <<peer, sent, tasks, delivered, backlog>>
      /\ handler' = [handler EXCEPT ![This] = FreedHandler] /\ This \in Throwing
  BY DEF Catch, TcpThrow, UnregisterFd, This
<1>2. This \in Peers /\ This \notin Paced
  BY <1>1, HandlersAssumption DEF Peers
<1>3. \A s \in Peers \ {This} : got'[s] = got[s]
  BY DEF Catch, TcpThrow, PInv, JInv, IInv, TypeOK, HandlersTypeOK
<1>4. PICK r \in Peers : r = This
  BY <1>2
<1> QED BY <1>1, <1>2, <1>3, <1>4, FreedWaits

LEMMA CheckWaits ==
  ASSUME PInv, JInv', Check
  PROVE  PInv'
<1>1. at = "check" /\ at' # "destroyed" /\ UNCHANGED <<peer, sent, got, tasks, delivered, backlog>>
  BY DEF Check, NextEvent
<1>2. CASE UNCHANGED handler
  BY <1>1, <1>2, Beside DEF handlerVars
<1>3. CASE handler[This].should_close /\ UnregisterFd(ev.fd)
  <2>1. PICK r \in Peers : r = This /\ Alive(r)
    BY <1>1 DEF PInv, JInv, IInv, Dispatched, DescriptorsAgree, TypeOK, Registered, This, Sockets
  <2>2. handler' = [handler EXCEPT ![r] = FreedHandler] /\ handler[r].should_close
    BY <1>3, <2>1 DEF UnregisterFd, This
  <2> QED BY <1>1, <2>1, <2>2, FreedWaits
<1> QED BY <1>2, <1>3 DEF Check

LEMMA DestroyWaits ==
  ASSUME PInv, JInv', Destroy
  PROVE  PInv'
<1>1. /\ at' = "destroyed" /\ UNCHANGED <<peer, sent, got, tasks, delivered, backlog>>
      /\ handler' = [s \in Peers |-> IF Alive(s) THEN FreedHandler ELSE handler[s]]
  BY DEF Destroy
<1>2. ASSUME NEW s \in Paced PROVE Waits(s)'
  <2>1. s \in Peers /\ Waits(s)
    BY HandlersAssumption DEF Peers, PInv
  <2>2. handler[s].life = "none" => handler'[s].life = "none"
    BY <1>1, <2>1 DEF Alive
  <2>3. \A front : HasHad(s, front) => HasHad(s, front)'
    BY <1>1 DEF HasHad, Delivered
  <2> QED BY <1>1, <2>1, <2>2, <2>3 DEF Waits
<1> QED BY <1>1, <1>2 DEF PInv, TasksTyped

LEMMA InitPInv == Paced \cap LongKeys = {} /\ Init => PInv
<1> SUFFICES ASSUME Paced \cap LongKeys = {}, Init PROVE PInv
  OBVIOUS
<1>1. JInv
  BY InitJInv
<1>2. /\ tasks = << >> /\ delivered = [s \in Paced |-> << >>]
      /\ handler = [s \in Peers |-> NoHandler] /\ got = [s \in Peers |-> 0]
      /\ sent = [s \in Peers |-> 0] /\ \A s \in Clients : s \in Peers
      /\ peer = [s \in Peers |-> IF s \in UdpSockets THEN "open" ELSE "absent"]
  BY DEF Init, InitHandlers, Peers
<1>3. TasksTyped
  <2>1. << >> \in Seq(TaskRecords) /\ << >> \in Seq(SUBSET Nat)
    OBVIOUS
  <2> QED BY <1>2, <2>1 DEF TasksTyped
<1>4. ASSUME NEW s \in Paced PROVE Waits(s)
  <2>1. s \in Peers /\ s \notin UdpSockets /\ Ends[s] \subseteq Nat \ {0}
    BY <1>2, HandlersAssumption
  <2>2. /\ handler[s].life = "none" /\ got[s] = 0 /\ sent[s] = 0 /\ peer[s] = "absent"
        /\ delivered[s] = << >>
    BY <1>2, <2>1, HandlerValues
  <2>3. Unscheduled(s) /\ ScheduledOnce(s) /\ ~Alive(s)
    BY <1>2, <2>2 DEF Unscheduled, ScheduledOnce, Alive
  <2>4. HasHad(s, 0)
    <3>1. {e \in Ends[s] : e <= 0} = {}
      BY <2>1
    <3>2. Cardinality({}) = 0 /\ Len(delivered[s]) = 0
      BY <2>2, FS_EmptySet
    <3>3. 1..Len(delivered[s]) = {}
      BY <3>2
    <3>4. \A e \in Ends[s] : ~(e <= 0)
      BY <2>1
    <3>5. Cardinality({e \in Ends[s] : e <= 0}) = Len(delivered[s])
      BY <3>1, <3>2
    <3> QED BY <3>3, <3>4, <3>5 DEF HasHad
  <2>5. OneAhead(s, 0)
    <3>1. \A e \in Ends[s] : e > 0 => sent[s] <= e + Lookahead(s)
      BY <2>1, <2>2, LookaheadNat
    <3> QED BY <2>1, <2>2, <2>3, <3>1 DEF OneAhead
  <2> QED BY <2>2, <2>3, <2>4, <2>5 DEF Waits
<1> QED BY <1>1, <1>3, <1>4 DEF PInv

LEMMA MarkWaits ==
  ASSUME PInv, JInv', HandleEvent \/ ReadEnds
  PROVE  PInv'
<1>1. at # "destroyed" /\ UNCHANGED <<peer, sent, got, tasks, delivered, backlog>>
  BY DEF HandleEvent, ReadEnds, DispatchTo, Go, TcpReadEnds, UdpReadEnds, handlerVars
<1>2. CASE HandleEvent
  <2>1. PICK s \in Peers : \E b : handler' = [handler EXCEPT ![s].should_close = b]
    BY <1>2 DEF HandleEvent
  <2> QED BY <1>1, <2>1, Marked
<1>3. CASE ReadEnds
  <2>1. CASE This \in Clients
    <3>1. PICK s \in Peers : \E b : handler' = [handler EXCEPT ![s].should_close = b]
      BY <1>3, <2>1 DEF ReadEnds, TcpReadEnds, Peers
    <3> QED BY <1>1, <3>1, Marked
  <2>2. CASE This \notin Clients
    BY <1>1, <1>3, <2>2, Beside DEF ReadEnds, UdpReadEnds, Go
  <2> QED BY <2>1, <2>2
<1> QED BY <1>2, <1>3

LEMMA NextWaits == PInv /\ [Next]_vars => PInv'
<1> SUFFICES ASSUME PInv, [Next]_vars PROVE PInv'
  OBVIOUS
<1>1. JInv'
  BY NextTells DEF PInv
<1>2. CASE \/ \E fd \in NewFds, s \in UdpSockets \cup {Listener} : OpenSocket(fd, s)
           \/ \E fd \in Fds : BindFails(fd)
           \/ Bind \/ Run \/ Interrupted \/ Loop \/ EpollWait \/ DispatchListener
           \/ CheckFreed \/ AcceptDone \/ AcceptFails \/ Stop \/ Asleep \/ UNCHANGED vars
  <2>1. UNCHANGED <<handlerVars, backlog>> /\ (at' # "destroyed" => at # "destroyed")
    BY <1>2
      DEF OpenSocket, BindFails, Bind, Run, Interrupted, Loop, EpollWait, DispatchListener, DispatchTo,
          CheckFreed, AcceptDone, AcceptFails, Stop, Asleep, Go, vars, reactorVars
  <2> QED BY <1>1, <2>1, Beside
<1>3. CASE HandleEvent \/ ReadEnds
  BY <1>1, <1>3, MarkWaits
<1>4. CASE Read
  BY <1>1, <1>4, ReadWaits
<1>5. CASE Hang
  BY <1>1, <1>5, HangWaits
<1>c. CASE Catch
  BY <1>1, <1>c, CatchWaits
<1>6. CASE Check
  BY <1>1, <1>6, CheckWaits
<1>7. CASE Accept
  BY <1>1, <1>7, AcceptWaits
<1>8. ASSUME NEW fd \in Fds, NEW s \in UdpSockets \cup {Listener}, SetUp(fd, s) PROVE PInv'
  BY <1>1, <1>8, SetUpWaits
<1>9. CASE Destroy
  BY <1>1, <1>9, DestroyWaits
<1>10. ASSUME NEW c \in Clients, Connect(c) PROVE PInv'
  BY <1>1, <1>10, ConnectWaits
<1>11. ASSUME NEW s \in Peers, Far(s) PROVE PInv'
  BY <1>1, <1>11, FarWaits
<1>12. ASSUME NEW i \in 1..Len(tasks), Task_(i) PROVE PInv'
  BY <1>1, <1>12, TaskWaits
<1> QED
  BY <1>2, <1>3, <1>4, <1>5, <1>c, <1>6, <1>7, <1>8, <1>9, <1>10, <1>11, <1>12 DEF Next, Step

LEMMA WaitingInvariance == Paced \cap LongKeys = {} /\ Spec => []PInv
<1> QED BY InitPInv, NextWaits, PTL DEF Spec

(* Of any number of clients that wait for their callbacks and have keys of   *)
(* one byte, with a tail key or without, and any other clients beside them:  *)
(* a task, until it has run, points to a handler that exists and holds the   *)
(* very packets it was scheduled for.                                        *)
THEOREM WaitingTasksSeeTheirPackets == Paced \cap LongKeys = {} /\ Spec => []PacedTasksSeeTheirPackets
<1>1. PInv => PacedTasksSeeTheirPackets
  <2> SUFFICES ASSUME PInv, at # "destroyed", NEW i \in 1..Len(tasks), tasks[i].of \in Paced
               PROVE  SeesItsPackets(tasks[i])
    BY DEF PacedTasksSeeTheirPackets
  <2>1. Waits(tasks[i].of) /\ ~Unscheduled(tasks[i].of)
    BY DEF PInv, Unscheduled
  <2>2. Alive(tasks[i].of) /\ ScheduledOnce(tasks[i].of)
    BY <2>1 DEF Waits
  <2> QED BY <2>2 DEF SeesItsPackets, ScheduledOnce
<1> QED BY <1>1, WaitingInvariance, PTL

(* The callbacks of a client that waits and has keys of one byte get its     *)
(* packets, each alone and once, in the order of the stream, none left out,  *)
(* whether a packet ends with its tail key or where the next one begins.     *)
THEOREM WaitingGetEachPacketOnce == Paced \cap LongKeys = {} /\ Spec => []PacedGetEachPacketOnce
<1>1. PInv => PacedGetEachPacketOnce
  <2> SUFFICES ASSUME PInv, NEW s \in Paced, NEW i \in 1..Len(delivered[s])
               PROVE  \E end \in Ends[s] :
                        /\ delivered[s][i] = {end}
                        /\ Cardinality({e \in Ends[s] : e <= end}) = i
    BY DEF PacedGetEachPacketOnce
  <2> QED BY DEF PInv, Waits, HasHad
<1> QED BY <1>1, WaitingInvariance, PTL

=============================================================================
