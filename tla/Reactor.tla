-------------------------------- MODULE Reactor ------------------------------
(***************************************************************************)
(* net::ReactorCore (include/net/core/reactor_core.hpp) around the         *)
(* handlers of module Handlers: an event loop over edge-triggered epoll,   *)
(* which accepts connections, dispatches events to handlers and closes     *)
(* descriptors, whose numbers the kernel gives out again.  The loop is one *)
(* thread; peers, tasks and the owner's Stop run beside it.                *)
(***************************************************************************)
EXTENDS Handlers

CONSTANTS
  Fds,           \* the descriptors the process may have open
  Listener,      \* the listening socket
  NoSocket,      \* what a descriptor that is not open refers to
  max_events_,
  Casts          \* bound: the sets of peers of which one takes part in a behaviour

ASSUME ReactorAssumption ==
  /\ Listener \notin Peers /\ NoSocket \notin Peers \cup {Listener}
  /\ max_events_ \in Nat \ {0}
  /\ Fds \subseteq Nat

VARIABLES
  file,          \* the socket each descriptor refers to
  backlog,       \* clients the kernel has connected and nobody has accepted
  interest,      \* descriptors registered with epoll
  ready,         \* those epoll has something to report on
  protocol_handlers_,
  listeners_,
  head_key_,     \* whether the reactor (still) has the keys of new connections
  running_,
  at,            \* the thread's place
  events,        \* what epoll_wait returned and the loop has not come to
  ev             \* the event being dealt with

reactorVars ==
  <<file, backlog, interest, ready, protocol_handlers_, listeners_, head_key_,
    running_, at, events, ev>>
vars == <<handlerVars, reactorVars>>

FreeFds == {fd \in Fds : file[fd] = NoSocket}

(* The kernel gives out the lowest number that is not in use. *)
NewFds == {fd \in FreeFds : \A fe \in FreeFds : fd <= fe}

NoEvent == [fd |-> 0, socket |-> NoSocket, flags |-> {}]

Ended == at \in {"returned", "thrown", "crashed", "hung", "destroyed"}

Go(place) ==
  /\ at' = place
  /\ UNCHANGED <<file, backlog, interest, ready, protocol_handlers_, listeners_,
                 head_key_, running_, events, ev>>

(* Nothing registered; the parameters of new connections are set. *)
Init ==
  /\ InitHandlers
  /\ file = [fd \in Fds |-> NoSocket]
  /\ backlog = {} /\ interest = {} /\ ready = {}
  /\ protocol_handlers_ = [fd \in {} |-> NoSocket] /\ listeners_ = {}
  /\ head_key_ = TRUE
  /\ running_ = TRUE /\ at = "setup" /\ events = {} /\ ev = NoEvent

-----------------------------------------------------------------------------
(***************************************************************************)
(* epoll.  A descriptor becomes ready when it is added and when something  *)
(* arrives at it, not because there is something left (EPOLLET).  The      *)
(* order of the ready list, of a batch and of the backlog is left open.    *)
(***************************************************************************)
Flags(s) ==
  IF s = Listener THEN {f \in {"kReadable"} : backlog # {}}
  ELSE {f \in {"kReadable"} : Unread(s) > 0 \/ (s \in Clients /\ peer[s] # "open")}
       \cup {f \in {"kError"} : peer[s] = "reset"}
       \cup {f \in {"kHangUp"} : s \in Clients /\ peer[s] = "reset"}

Wake(s) == ready' = ready \cup {fd \in interest : file[fd] = s}

AddToEpoll(fd, s) ==
  /\ interest' = interest \cup {fd}
  /\ ready' = IF Flags(s) = {} THEN ready ELSE ready \cup {fd}

-----------------------------------------------------------------------------
(* Registration, by the owner and for an accepted connection. *)

WithHandler(fd, s) ==
  [f \in DOMAIN protocol_handlers_ \cup {fd} |-> IF f = fd THEN s ELSE protocol_handlers_[f]]

RegisterProtocol(fd, s) ==
  /\ AddToEpoll(fd, s)
  /\ protocol_handlers_' = WithHandler(fd, s)
  /\ listeners_' = IF s = Listener THEN listeners_ \cup {fd} ELSE listeners_

(* fcntl or epoll_ctl fails: an exception, and the descriptor stays open.  *)
RegisterThrows ==
  /\ at' = "thrown" /\ events' = {} /\ ev' = NoEvent
  /\ UNCHANGED <<interest, ready, protocol_handlers_, listeners_>>

Active ==
  {c \in Clients : peer[c] # "absent"}
    \cup {u \in UdpSockets : u \in Range(file) \/ handler[u].life # "none"}

(* The bound on who meets whom. *)
Cast(joining) == \E cast \in Casts : Active \cup joining \subseteq cast

(***************************************************************************)
(* SocketCreator: socket, then bind and, for TCP, listen, any of which may *)
(* fail; the owner registers what it got.  Clients may connect before that.*)
(***************************************************************************)
Created(fd) == file[fd] # NoSocket /\ fd \notin DOMAIN protocol_handlers_

OpenSocket(fd, s) ==
  /\ at = "setup" /\ s \notin Range(file)
  /\ Cast({s} \cap Peers)
  /\ file' = [file EXCEPT ![fd] = s]
  /\ at' = "bind"
  /\ UNCHANGED <<handlerVars, backlog, interest, ready, protocol_handlers_, listeners_,
                 head_key_, running_, events, ev>>

Bind == at = "bind" /\ Go("bound") /\ UNCHANGED handlerVars

BindFails(fd) ==
  /\ at = "bind" /\ Created(fd)
  /\ file' = [file EXCEPT ![fd] = NoSocket]
  /\ at' = "setup"
  /\ UNCHANGED <<handlerVars, backlog, interest, ready, protocol_handlers_, listeners_,
                 head_key_, running_, events, ev>>

SetUp(fd, s) ==
  /\ at = "bound" /\ Created(fd) /\ file[fd] = s
  /\ RegisterProtocol(fd, s)
  /\ handler' = IF s = Listener THEN handler ELSE [handler EXCEPT ![s] = NewHandler(TRUE)]
  /\ at' = "setup"
  /\ UNCHANGED <<peer, sent, got, tasks, delivered, file, backlog, head_key_, running_, events, ev>>

Run == at = "setup" /\ Go("loop") /\ UNCHANGED handlerVars

-----------------------------------------------------------------------------
(* The head of the loop. *)

(* Mutant for StopTakesEffect: running_ is not looked at. *)
LoopForEver ==
  /\ at = "loop"
  /\ Go("wait")
  /\ UNCHANGED handlerVars

Loop ==
  /\ at = "loop"
  /\ Go(IF running_ THEN "wait" ELSE "returned")
  /\ UNCHANGED handlerVars

(* epoll_wait takes descriptors off the list and looks at each again; one  *)
(* with nothing left is not reported.                                      *)
EpollWait ==
  /\ at = "wait"
  /\ \E taken \in SUBSET ready :
       /\ taken # {} /\ Cardinality(taken) <= max_events_
       /\ taken # ready => Cardinality(taken) = max_events_
       /\ ready' = ready \ taken
       /\ events' = {[fd |-> fd, socket |-> file[fd], flags |-> Flags(file[fd])] :
                      fd \in {fd \in taken : Flags(file[fd]) # {}}}
  /\ at' = IF events' = {} THEN "wait" ELSE "dispatch"
  /\ UNCHANGED <<handlerVars, file, backlog, interest, protocol_handlers_,
                 listeners_, head_key_, running_, ev>>

Interrupted ==
  /\ at = "wait" /\ ready = {}
  /\ Go("loop")
  /\ UNCHANGED handlerVars

-----------------------------------------------------------------------------
(* The events of a batch. *)

This == protocol_handlers_[ev.fd]

NextEvent ==
  /\ at' = IF events = {} THEN "loop" ELSE "dispatch"
  /\ ev' = NoEvent
  /\ UNCHANGED events

(* Mutant for EventsAreFresh: an event is dealt with once more. *)
DispatchToAgain(e, place) ==
  /\ at' = place /\ ev' = e /\ UNCHANGED events
  /\ UNCHANGED <<file, backlog, interest, ready, protocol_handlers_, listeners_, head_key_,
                 running_>>

DispatchTo(e, place) ==
  /\ at' = place /\ ev' = e /\ events' = events \ {e}
  /\ UNCHANGED <<file, backlog, interest, ready, protocol_handlers_, listeners_,
                 head_key_, running_>>

DispatchListener ==
  /\ at = "dispatch"
  /\ \E e \in events : e.fd \in listeners_ /\ DispatchTo(e, "accept")
  /\ UNCHANGED handlerVars

(***************************************************************************)
(* HandleEvent: errors and, for TCP, hang-ups come before reading.  There  *)
(* always is a handler (EventsAreFresh): the test for one is left out.     *)
(***************************************************************************)
Refuses(s, flags) == "kError" \in flags \/ (s \in Clients /\ "kHangUp" \in flags)

HandleEvent ==
  /\ at = "dispatch"
  /\ \E e \in events : \E s \in Peers :
       /\ e.fd \in DOMAIN protocol_handlers_ \ listeners_ /\ s = protocol_handlers_[e.fd]
       /\ handler' = [handler EXCEPT ![s].should_close = @ \/ Refuses(s, e.flags)]
       /\ DispatchTo(e, IF ~Refuses(s, e.flags) /\ "kReadable" \in e.flags THEN "read"
                                                                          ELSE "check")
  /\ UNCHANGED <<peer, sent, got, tasks, delivered>>

Read ==
  /\ at = "read"
  /\ IF This \in Clients THEN TcpRead(This) ELSE (UdpRead(This) \/ UdpError(This))
  /\ UNCHANGED reactorVars

(* Get does not return, and the loop is lost.                              *)
Hang ==
  /\ at = "read"
  /\ IF This \in Clients THEN TcpHang(This) ELSE UdpHang(This)
  /\ Go("hung")

ReadEnds ==
  /\ at = "read"
  /\ IF This \in Clients THEN TcpReadEnds(This) ELSE UdpReadEnds(This)
  /\ Go("check")

-----------------------------------------------------------------------------
(* Closing. *)

Without(fd) == [f \in DOMAIN protocol_handlers_ \ {fd} |-> protocol_handlers_[f]]

(* Mutant for DescriptorsAgree: the descriptor is not closed. *)
UnregisterFdOnly(fd) ==
  /\ interest' = interest \ {fd}
  /\ ready' = ready \ {fd}
  /\ protocol_handlers_' = Without(fd)
  /\ listeners_' = listeners_ \ {fd}
  /\ UNCHANGED file
  /\ handler' = [handler EXCEPT ![protocol_handlers_[fd]] = FreedHandler]

UnregisterFd(fd) ==
  /\ interest' = interest \ {fd}
  /\ ready' = ready \ {fd}
  /\ protocol_handlers_' = Without(fd)
  /\ listeners_' = listeners_ \ {fd}
  /\ file' = [file EXCEPT ![fd] = NoSocket]
  /\ handler' = [handler EXCEPT ![protocol_handlers_[fd]] = FreedHandler]

(* An exception out of HandleEvent: the handler is gone, and used again.   *)
Catch ==
  /\ at = "read" /\ This \in Clients
  /\ TcpThrow(This)
  /\ UnregisterFd(ev.fd)
  /\ at' = "check_freed"
  /\ UNCHANGED <<backlog, head_key_, running_, events, ev>>

(* it->second->ShouldClose() on an erased entry: it ends the process or    *)
(* answers anything; what UnregisterFd then does was done already.         *)
CheckFreed ==
  /\ at = "check_freed"
  /\ \/ NextEvent
     \/ at' = "crashed" /\ UNCHANGED <<events, ev>>
  /\ UNCHANGED <<handlerVars, file, backlog, interest, ready, protocol_handlers_,
                 listeners_, head_key_, running_>>

Check ==
  /\ at = "check"
  /\ IF handler[This].should_close
     THEN UnregisterFd(ev.fd)
     ELSE UNCHANGED <<interest, ready, protocol_handlers_, listeners_, file, handler>>
  /\ NextEvent
  /\ UNCHANGED <<peer, sent, got, tasks, delivered, backlog, head_key_, running_>>

-----------------------------------------------------------------------------
(***************************************************************************)
(* Accepting, until accept4 says EAGAIN.  The first connection's unpacker  *)
(* takes the keys away.  With no descriptor left accept4 fails before it   *)
(* looks at the backlog, and the loop goes round.                          *)
(***************************************************************************)
Accept ==
  /\ at = "accept"
  /\ \E fd \in NewFds : \E c \in backlog :
       /\ file' = [file EXCEPT ![fd] = c]
       /\ backlog' = backlog \ {c}
       /\ \/ /\ RegisterProtocol(fd, c)
             /\ handler' = [handler EXCEPT ![c] = NewHandler(head_key_)]
             /\ UNCHANGED <<at, events, ev>>
          \/ RegisterThrows /\ UNCHANGED handler
  /\ head_key_' = FALSE
  /\ UNCHANGED <<peer, sent, got, tasks, delivered, running_>>

AcceptDone ==
  /\ at = "accept" /\ FreeFds # {} /\ backlog = {}
  /\ NextEvent
  /\ UNCHANGED <<handlerVars, file, backlog, interest, ready, protocol_handlers_,
                 listeners_, head_key_, running_>>

Spinning == at = "accept" /\ FreeFds = {}

AcceptFails == Spinning /\ UNCHANGED vars

-----------------------------------------------------------------------------
(* The owner, from any thread, and at the end from its own. *)

Stop ==
  /\ running_ /\ at # "destroyed"
  /\ running_' = FALSE
  /\ UNCHANGED <<handlerVars, file, backlog, interest, ready, protocol_handlers_,
                 listeners_, head_key_, at, events, ev>>

Destroy ==
  /\ at \in {"setup", "returned", "thrown"}
  /\ at' = "destroyed"
  /\ file' = [fd \in Fds |-> IF fd \in DOMAIN protocol_handlers_ THEN NoSocket ELSE file[fd]]
  /\ interest' = {} /\ ready' = {} /\ listeners_' = {}
  /\ protocol_handlers_' = [fd \in {} |-> NoSocket]
  /\ handler' = [s \in Peers |-> IF Alive(s) THEN FreedHandler ELSE handler[s]]
  /\ UNCHANGED <<peer, sent, got, tasks, delivered, backlog, head_key_, running_, events, ev>>

(* The far ends, and the kernel that announces what they do.  Nothing gets *)
(* to a socket before it is bound.                                         *)
Reachable(s) ==
  \E fd \in Fds : file[fd] = s /\ (fd \in DOMAIN protocol_handlers_ \/ at = "bound")

Connect(c) ==
  /\ peer[c] = "absent" /\ Reachable(Listener)
  /\ Cast({c})
  /\ peer' = [peer EXCEPT ![c] = "open"]
  /\ backlog' = backlog \cup {c}
  /\ Wake(Listener)
  /\ UNCHANGED <<sent, got, handler, tasks, delivered, file, interest, protocol_handlers_,
                 listeners_, head_key_, running_, at, events, ev>>

Far(s) ==
  /\ s \in UdpSockets => Reachable(s)
  /\ at # "destroyed"
  /\ SendStream(s) \/ Leave(s, "fin") \/ Leave(s, "reset")
  /\ Wake(s)
  /\ UNCHANGED <<file, backlog, interest, protocol_handlers_, listeners_, head_key_,
                 running_, at, events, ev>>

(* What is left of the tasks when the handlers are destroyed is undefined. *)
Task_(i) == at # "destroyed" /\ RunTask(i) /\ UNCHANGED reactorVars

(* Nothing to do: the thread sleeps in epoll_wait, or Run is over. *)
Rest == (at = "wait" /\ ready = {}) \/ Ended

Asleep == Rest /\ UNCHANGED vars
-----------------------------------------------------------------------------
Step ==
  \/ Loop \/ EpollWait
  \/ DispatchListener \/ HandleEvent
  \/ Read \/ Hang \/ ReadEnds \/ Catch \/ CheckFreed \/ Check
  \/ Accept \/ AcceptDone

Next ==
  \/ \E fd \in NewFds, s \in UdpSockets \cup {Listener} : OpenSocket(fd, s)
  \/ \E fd \in Fds : BindFails(fd) \/ \E s \in UdpSockets \cup {Listener} : SetUp(fd, s)
  \/ Bind
  \/ Run \/ Step \/ Interrupted \/ AcceptFails
  \/ Stop \/ Destroy
  \/ \E c \in Clients : Connect(c)
  \/ \E s \in Peers : Far(s)
  \/ \E i \in 1..Len(tasks) : Task_(i)
  \/ Asleep

(* The thread runs, once Run was called, and so does the pool's.           *)
Spec ==
  Init /\ [][Next]_vars
       /\ WF_vars(Step) /\ WF_vars(\E i \in 1..Len(tasks) : Task_(i))
-----------------------------------------------------------------------------
ThreadPlaces ==
  {"setup", "bind", "bound", "loop", "wait", "dispatch", "read", "check", "check_freed",
   "accept", "returned", "thrown", "crashed", "hung", "destroyed"}

Sockets == Peers \cup {Listener}

Events == [fd : Fds, socket : Sockets, flags : SUBSET {"kReadable", "kError", "kHangUp"}]

TypeOK ==
  /\ HandlersTypeOK
  /\ file \in [Fds -> Sockets \cup {NoSocket}]
  /\ backlog \subseteq Clients
  /\ ready \subseteq interest /\ interest \subseteq Fds
  /\ DOMAIN protocol_handlers_ \subseteq Fds /\ listeners_ \subseteq Fds
  /\ protocol_handlers_ \in [DOMAIN protocol_handlers_ -> Sockets]
  /\ head_key_ \in BOOLEAN /\ running_ \in BOOLEAN
  /\ at \in ThreadPlaces
  /\ events \subseteq Events /\ ev \in Events \cup {NoEvent}
  /\ ev = NoEvent <=> at \notin {"read", "check", "check_freed", "accept", "crashed", "hung"}

(***************************************************************************)
(* The kernel's descriptors, the epoll set, protocol_handlers_ and         *)
(* listeners_ are four records of the same thing: whatever was accepted,   *)
(* closed and given the same number again, each descriptor's handler is    *)
(* the one of the socket it now refers to, no descriptor is open and       *)
(* forgotten (but the one whose registration threw), no handler outlives   *)
(* its descriptor, and two descriptors never share a socket.               *)
(***************************************************************************)
Registered == DOMAIN protocol_handlers_

DescriptorsAgree ==
  /\ interest = Registered
  /\ \A fd \in Registered : file[fd] = protocol_handlers_[fd]
  /\ listeners_ = {fd \in Registered : protocol_handlers_[fd] = Listener}
  /\ \A s \in Peers : Alive(s) <=> \E fd \in Registered : protocol_handlers_[fd] = s
  /\ \A fd, fe \in Fds : file[fd] = file[fe] /\ file[fd] # NoSocket => fd = fe
  /\ at \notin {"bind", "bound", "thrown", "destroyed"} => \A fd \in Fds \ Registered : file[fd] = NoSocket

(***************************************************************************)
(* An event is dealt with for the socket it was reported on: no descriptor *)
(* of the rest of a batch has been closed, or closed and given out again,  *)
(* by the events before it.                                                *)
(***************************************************************************)
Outstanding == events \cup {e \in {ev} : at \in {"accept", "read", "check", "hung"}}

EventsAreFresh ==
  /\ \A e \in Outstanding : e.fd \in Registered /\ file[e.fd] = e.socket
  /\ \A e, f \in Outstanding : e.fd = f.fd => e = f
  /\ ev \notin events

(***************************************************************************)
(* With edge-triggered events nothing is told twice: a descriptor that has *)
(* something to report is ready, or in the batch (or the event the loop is *)
(* lost in), or its handler's ring is full, which stops it for good.       *)
(***************************************************************************)
Stalled(s) == s \in Peers /\ Alive(s) /\ BufferFull(s)

NothingForgotten ==
  at # "thrown" =>
    \A fd \in interest : Flags(file[fd]) # {} =>
      fd \in ready \/ (\E e \in Outstanding : e.fd = fd) \/ Stalled(file[fd])

(***************************************************************************)
(* A task, from when it is scheduled until its callback has run, points to *)
(* a handler that exists and still holds the packets of the task - as long *)
(* as the client waits for that callback, and keys have one byte.          *)
(***************************************************************************)
PacedTasksSeeTheirPackets ==
  at # "destroyed" =>
    \A i \in 1..Len(tasks) : tasks[i].of \in Paced => SeesItsPackets(tasks[i])

(* The callbacks of such a client get its packets one by one, in order,    *)
(* whether a tail key ends them or the next head (keys of one byte).       *)
PacedGetEachPacketOnce ==
  \A s \in Paced : \A i \in 1..Len(delivered[s]) :
    \E end \in Ends[s] :
      /\ delivered[s][i] = {end}
      /\ Cardinality({e \in Ends[s] : e <= end}) = i

(***************************************************************************)
(* The loop closes the connection of a client that has ended its stream    *)
(* only with everything read, and closes no other unless it was cut off or *)
(* a callback threw.                                                       *)
(***************************************************************************)
ClosesWhenDrained ==
  [][\A s \in Clients :
       Alive(s) /\ ~Alive(s)' /\ at' \notin {"destroyed", "check_freed"} /\ peer[s] # "reset"
         => peer[s] = "fin" /\ Unread(s) = 0]_vars

-----------------------------------------------------------------------------
(* Liveness, up to the ways in which the thread is lost.                   *)
Lost == Ended \/ Spinning

(* What a packet is cut by fits the ring together with the packet.         *)
Holds(s, end) ==
  \E from \in Ends[s] \cup {0} :
    end \in NextEnds(s, from) /\ end + Lookahead(s) - from <= Capacity

(* A packet that a paced client has sent whole, and without a tail key the *)
(* head behind it, reaches the callback, if the connection's unpacker has  *)
(* the keys (of one byte) and its ring can hold all that.                  *)
PacedPacketIsDelivered ==
  \A s \in Paced : \A end \in Ends[s] :
    Holds(s, end) /\ Alive(s) /\ handler[s].keys /\ sent[s] >= end + Lookahead(s)
      ~> Delivered(s, end) \/ Lost

(* The descriptor of a client that has gone is closed.                     *)
DepartedIsClosed ==
  \A c \in Clients : Alive(c) /\ peer[c] \in {"fin", "reset"} ~> ~Alive(c) \/ Stalled(c) \/ Lost

(* Stop does not wake epoll_wait; the next thing to report does.           *)
StopTakesEffect ==
  ~running_ /\ at = "wait" /\ (\E fd \in ready : Flags(file[fd]) # {}) ~> Lost

-----------------------------------------------------------------------------
(* reactor_core.hpp:209: each connection has an unpacker of its own.       *)
EachConnectionUnpacks == \A c \in Clients : Alive(c) => handler[c].keys

(* protocol_handler.hpp:13: a callback is given the packets parsed.        *)
TasksSeeTheirPackets ==
  at # "destroyed" => \A i \in 1..Len(tasks) : SeesItsPackets(tasks[i])
=============================================================================
