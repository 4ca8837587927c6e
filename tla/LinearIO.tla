------------------------------- MODULE LinearIO ------------------------------
(***************************************************************************)
(* Threads around a RingBuffer.  The zero-copy calls ("no memory copy,     *)
(* thread safe", include/containers/ring_buffer.hpp:191) come in three     *)
(* parts: GetLinear*Space under the lock, the caller's own access to the   *)
(* slots through the pointer with no lock, and Commit*Size under the lock  *)
(* again.  Between the parts any other thread may run.  A thread may also  *)
(* make a copying call, which is a single step.  This is how TcpHandler    *)
(* uses the buffer (include/net/transport/protocol_handler.hpp:77-91), one *)
(* thread standing for both ends there.                                    *)
(***************************************************************************)
EXTENDS RingBuffer

CONSTANTS
  Producers,     \* threads that store
  Consumers      \* threads that load

VARIABLES
  wspan,         \* for each producer, the run of slots it was last given
  wdata,         \* and the bytes it has stored there, not yet committed
  rspan,         \* for each consumer, the run of slots it was last shown
  rdata          \* and the bytes it has loaded from there, not yet committed

threadVars == <<wspan, wdata, rspan, rdata>>
allVars    == <<vars, threadVars>>

NoSpan == [at |-> 0, n |-> 0]

SlotsOf(span) == span.at .. span.at + span.n - 1

InitLinear ==
  /\ Init
  /\ wspan = [p \in Producers |-> NoSpan] /\ wdata = [p \in Producers |-> <<>>]
  /\ rspan = [c \in Consumers |-> NoSpan] /\ rdata = [c \in Consumers |-> <<>>]

-----------------------------------------------------------------------------
AskWriteSpan(p) ==
  /\ wspan[p].n = 0
  /\ GetLinearWriteSpace
  /\ wspan' = [wspan EXCEPT ![p] = [at |-> write_index_, n |-> LinearWriteSpace]]
  /\ UNCHANGED <<wdata, rspan, rdata>>

Store(p, w) ==
  /\ wdata[p] = <<>>
  /\ w # <<>> /\ Len(w) <= wspan[p].n
  /\ StoreAt(wspan[p].at, w)
  /\ wdata' = [wdata EXCEPT ![p] = w]
  /\ UNCHANGED <<size, indices, ret, wspan, rspan, rdata>>

CommitWrite(p) ==
  /\ wdata[p] # <<>>
  /\ CommitWriteSize(Len(wdata[p]))
  /\ wspan' = [wspan EXCEPT ![p] = NoSpan]
  /\ wdata' = [wdata EXCEPT ![p] = <<>>]
  /\ UNCHANGED <<rspan, rdata>>

CopyWrite(p, w) ==
  /\ wspan[p].n = 0
  /\ Write(w)
  /\ UNCHANGED threadVars

-----------------------------------------------------------------------------
AskReadSpan(c) ==
  /\ rspan[c].n = 0
  /\ GetLinearReadSpace
  /\ rspan' = [rspan EXCEPT ![c] = [at |-> read_index_, n |-> LinearReadSpace]]
  /\ UNCHANGED <<wspan, wdata, rdata>>

Load(c, n) ==
  /\ rdata[c] = <<>>
  /\ n \in 1..rspan[c].n
  /\ rdata' = [rdata EXCEPT ![c] = LoadFrom(rspan[c].at, n)]
  /\ UNCHANGED <<vars, wspan, wdata, rspan>>

CommitRead(c) ==
  /\ rdata[c] # <<>>
  /\ CommitReadSize(Len(rdata[c]))
  /\ rspan' = [rspan EXCEPT ![c] = NoSpan]
  /\ rdata' = [rdata EXCEPT ![c] = <<>>]
  /\ UNCHANGED <<wspan, wdata>>

CopyRead(c, n) ==
  /\ rspan[c].n = 0
  /\ Read(n)
  /\ UNCHANGED threadVars

NextLinear ==
  \/ \E p \in Producers :
       \/ AskWriteSpan(p) \/ CommitWrite(p)
       \/ \E w \in Transfers : Store(p, w) \/ CopyWrite(p, w)
  \/ \E c \in Consumers :
       \/ AskReadSpan(c) \/ CommitRead(c)
       \/ \E n \in Sizes : Load(c, n) \/ CopyRead(c, n)

SpecLinear == InitLinear /\ [][NextLinear]_allVars

-----------------------------------------------------------------------------
StoredSlots == {(read_index_ + k - 1) % size : k \in 1..length_}

(***************************************************************************)
(* A run of slots a producer holds has no byte that waits to be read in    *)
(* it, and the run a consumer holds has nothing else: the two ends can     *)
(* never touch the same slot, although neither holds the lock.             *)
(***************************************************************************)
SpansApart ==
  /\ \A p \in Producers : SlotsOf(wspan[p]) \cap StoredSlots = {}
  /\ \A c \in Consumers : SlotsOf(rspan[c]) \subseteq StoredSlots

(***************************************************************************)
(* Whatever other threads did since a producer asked for its span, its     *)
(* commit is accepted and publishes exactly the bytes it stored.           *)
(***************************************************************************)
PublishesWhatWasStored ==
  [][\A p \in Producers :
       CommitWrite(p) => Contents' = Contents \o wdata[p]]_allVars

(***************************************************************************)
(* And a consumer's commit removes exactly the bytes that it loaded.       *)
(***************************************************************************)
ConsumesWhatWasLoaded ==
  [][\A c \in Consumers :
       CommitRead(c) => Contents = rdata[c] \o Contents']_allVars
=============================================================================
