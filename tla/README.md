# A TLA+ model of nebula-toolkit

nebula-toolkit is a C++ toolkit for network programs: byte containers, threads,
a logger and a small reactor. These modules model all of its library, TLC checks
them on small instances, and TLAPS proves every safety property among those checks for
every value of the constants: all the invariants, the action properties of
zero-copy transfers, of the unpacker and of the event loop, and five refinements
(the logger's invariant of its files under one condition, section 4).
Paths below are those of the repository; `tla/` is this directory.

## 1. The system

| Component | State | Operations | Talks to |
|---|---|---|---|
| `RingBuffer` (`include/containers/ring_buffer.hpp`, `src/containers/ring_buffer.cpp`) | storage, read index, write index, length, a mutex | `Write`, `Read`, `Peek`, `GetLinear{Write,Read}Space` + `Commit{Write,Read}Size`, `Clear`, `Resize` | base class of the next two; the logger owns one |
| `ByteStream` (`byte_stream.hpp`, `.cpp`) | that of the ring | `<<`, `>>` for values, vectors, strings | calls the ring's `Read`/`Write` templates, drops their answers |
| `UnPacker` (`unpacker.hpp`) | the ring, head and tail keys, two callbacks, a mode | `PushAndGet`, `Get` (`FindKey` and three parsing loops) | reads the ring's storage directly, commits through it |
| `ThreadPool` (`include/threading/thread_pool.hpp`) | a queue, a mutex, a condition variable, workers, a flag | `PostTask` (one, a batch), the workers' loop, the destructor | runs callbacks, which may post |
| `TimerScheduler` (`timer_scheduler.hpp`) | a heap, cancelled ids, a mutex, a condition variable, a thread, a flag | `ScheduleOnce`, `Cancel`, `Start`, `Stop`, `RunScheduler`, the destructor | posts to its `ThreadPool` |
| `TcpHandler`, `UdpHandler` (`include/net/transport/protocol_handler.hpp`) | a descriptor, an `UnPacker`, the last packets, a closing flag | `HandleEvent` | read into the linear write space; hand a task that captures `this` to the scheduler |
| `ReactorCore` (`include/net/core/reactor_core.hpp`) | epoll set, handlers, listeners, the keys of new connections | `RegisterProtocol`, `Run`, `Stop`, accepting, unregistering | owns the handlers, calls them, shares the scheduler |
| `Logger` (`include/logger/logger.hpp`) | a ring, the current file, the configuration, two mutexes, two threads | `LogCout`, `LogPrint`, the writer's and the monitor's loops, the destructor | a `RingBuffer`; `IniReader` |
| `IniReader` (`ini_reader.hpp`) | a path | `GetValue` | reads the file at every call |
| `SocketCreator` (`socket_creator.hpp`) | none | socket, bind, listen, each of which may fail | the kernel |

What is hard to test here: indices that wrap around while three counters must
agree; pointers into the ring that are used with no lock held; offsets that
count from a front that moves; notifications that come after the unlock, or
that fall between a test and a sleep; shutdown while work still creates work;
a cancellation racing a dispatch; a configuration read while it is rewritten;
and, in the network part, tasks that outlive what they point to and
edge-triggered reads that stop early. `PROJECT.json` lists these hazards at
their lines, with the properties that would catch each.

What makes each part correct:

* RingBuffer: a bounded FIFO queue of bytes, call by call; a refused call
  changes nothing; a span given out meets no other.
* ByteStream: a reader who keeps to the writer's types gets back what was put in,
  but for wide vectors across the seam, which the code damages.
* UnPacker: what is cut is a framed packet, it is the one that is removed, and
  a call ends.
* ThreadPool: tasks start in posting order and run once, all of them before the
  destructor returns, and no wake-up is lost.
* TimerScheduler: a task fires at most once, in time order, not early, not after
  it was cancelled, and is not overslept; `Stop` returns.
* Logger: files hold whole lines in console order, their streams are given all
  of them eventually, and are flushed when they are closed or the writer ends.
* Reactor and handlers: the kernel, epoll and the reactor agree on every
  descriptor; each readable byte is read, short of a full ring; a connection is
  closed when its client is gone, and not before all was read; a packet's task
  sees that packet.

## 2. The modules

    ByteQueue <--implements-- RingBuffer --+-- LinearIO    (implements ByteQueue)
                                           +-- ByteStream  (implements ByteQueue, torn vectors apart)
                                           +-- UnPacker
    TaskPool  <--implements-- ThreadPool
        ^ (instance)
    TimerService <--implements-- TimerScheduler
    Logger  (over the byte queue that RingBuffer implements)
    Handlers --extended by-- Reactor
            (unpackers by what UnPacker shows of Get; tasks by TimerService's dispatch)

`MC*` modules give the constants values; `*Proofs` modules hold the theorems.
A method that holds its mutex from beginning to end is one action; a stretch of
code between two lock operations is one action elsewhere. Names follow the
source: `read_index_`, `task_queue_`, `cur_timer_task`. `PROJECT.json` maps every
definition to the lines it stands for. An operator such as
`CommitWriteSizeNeverFull`, right before the definition it resembles, is a
plausible mistake in that definition, with which some property must fail.

**RingBuffer.** `buffer_` is a function on `0..size-1`. `CopyIn` and `CopyOut` are
the two `memcpy` calls; `ret` is what the call answered, a code or a count, and
the bytes it copied in or out, so that what a `Write` stores is compared with what
it was given. The caller's store through the linear pointer is `StoreLinear`. All
of the length checks are here, in the order of the code (so `Write` of nothing
answers "empty" even when the ring is full). `Contents`, the stored bytes
oldest first, is the refinement mapping to **ByteQueue**, which has no indices.
`Resize` adjusts no index, so `Next` allows it only when the bytes do not reach the
end of either storage (`Unwrapped`): growing a wrapped ring puts fresh bytes among
the stored ones.

**LinearIO.** Producers and consumers around that ring. A zero-copy transfer
takes three steps: ask for a span under the lock, touch the slots without it,
commit under the lock. Anything may happen in between, copying calls included;
a thread that holds a span makes no copying call of its own. One thread is at
each end: two producers would be given the same span. `wspan`, `wdata`,
`rspan`, `rdata` are the caller's local variables.

**ByteStream.** The ring's calls, with the stream's operators and the vector
templates beside them. Behind the seam `Write` advances the vector's pointer by
as many elements as it has copied bytes, and `Read` by whole elements only. For
elements of one byte that is right; for wider ones only where `StraightIn` and
`StraightOut` hold, which guard nothing: elsewhere the copies run as the code has
them, with any bytes for what lies behind the vector (`past`) and for what a read
leaves unwritten at its end (`old`). Where the write reads from or the read writes to
is all that is abstracted; nothing beyond the vector is damaged, as `Read`'s second
chunk ends before the vector does. `elements`, `in_step` and `torn` are history: what
was accepted and not yet asked for, whether the reader kept to the types, and
whether the last call moved a wide vector across the seam. A refused `<<` is silent
and leaves no element.

**UnPacker.** The ring, plus the parsing loop's locals (`parse`) and the packets
of the last call. One loop iteration is one step. `FindKey` is translated with
its scan bounds, including the unsigned wrap-around of `part1_size - key_len`:
`Never` is a scan that does not end. Where `memcpy` or the size callback reads
past the storage the bytes are arbitrary (`PacketsAt`, `StatedLengths`); so is the
answer of `check_sz_cb_`. The size callback is that of
`tests/unit/unpacker_test.cpp`: a length byte behind the head key. `paced` restricts
the environment, not the code: when TRUE, the peer sends well-formed packets
only and does not complete a second one while the first is stored.

**ThreadPool.** `worker[w]` is the place in `WorkerLoop`; `waiting` workers are those
asleep on `cv_`. Single `PostTask` unlocks before it notifies (`notifying` holds the
threads in between); the batch form and the test of the wait predicate are under
the lock. Workers also wake for no reason. Tasks may post. The destructor is
three steps. Clients do not use the pool once its destructor runs. The
refinement to **TaskPool** forgets threads: `owner` becomes open, closing, gone.

**TimerScheduler.** The heap is a set with `IsTop`; ties go either way, as in
`std::priority_queue`. The test of `running_` at the head of the loop (`Check`) takes
no lock and is a step of its own; so are `PostTask` after the unlock, and the
notify of `ScheduleOnce` and `Stop`. Time is `now`; the clock is read by `ScheduleOnce`
before it locks. The pool below is an instance of `TaskPool`, which `ThreadPool` is
shown to implement. The refinement to **TimerService** takes as pending the tasks
of the heap that are not cancelled, as fired those that left it.

**Logger.** `caller[p]` is a thread in `LogCout` or `LogPrint`: the level is tested with
no lock, `mutex_` is held from the print to the store. The writer takes a batch
and writes it under `ring_buffer_mutex_`, in two steps because it reads the
configuration in both and the monitor may write it in between. A reload is two
steps: `max_file_size` holds kilobytes until it is scaled, `% SizeLimit` being the
width of `size_t`. A file that cannot be opened ends the process (`OpenFails`). A
byte is its line and its place in it. `files` is what the streams were given;
`unflushed` counts the last bytes of the current one that its stream still holds:
after a batch any number up to `StreamBuffer` (`HeldBack`), none after a flush. The
flush in the loop (`WriteBatch`) compares the batch with `max_flush_size`, as the code
does; a replaced file is closed, a writer that leaves its loop flushes (`Check`). Not
modelled: a line's layout, and `LogVector` (console only).

**Handlers.** `TcpHandler` and `UdpHandler`, their sockets and the tasks they leave to
the scheduler. A peer's stream is a count: `sent` by it, `got` by the handler; `Ends`
says where its packets end. The unpacker's ring holds the numbers of the units in
it. One iteration of a read loop is one step, `TcpReadEnds` the one that ends it: a full
ring, `EAGAIN`, the end of the stream or an error. What `Get` cuts (`Cuts`) is what module
UnPacker shows of it. With one-byte keys a packet alone and whole at the front is
cut and removed; otherwise any packets that end in the ring may be cut and any front
removed. A packet ends with its tail key; for `HeadOnly` peers, which have a head key
alone, it is complete only once the head of the next one is stored (`Lookahead`), which then
stays in the ring. With longer keys (`LongKeys`; the repository's reactor test has a
head key of two bytes) `FindKey` misses, invents or does not return: any packets may be
cut, any front removed, or the loop is lost (`TcpHang`, `UdpHang`; `Hang` in Reactor). The
linear write space is any part of the free space. A task reads `packs_` when it
runs (`RunTask`); of a freed handler it reads anything. `Paced` clients wait for the
callback of a packet before they send more, once what it is cut by was sent: its
end, or without a tail key the head behind it. A client that waits before it sends
that head waits for ever. On the data of `Throwing` ones the parsing callbacks throw.

**Reactor.** `file` is the kernel's descriptor table, which gives out the lowest free
number again; `interest` and `ready` are the epoll set and its list: a descriptor gets on
the list when it is added and when something happens to it (`EPOLLET`), and
`EpollWait` looks at each again as it takes it off. `events` is the rest of a batch, `ev` the
event dealt with, `at` the thread's place: the set-up by the owner (`OpenSocket`,
`BindFails`, `Bind`, `SetUp`), the loop, `HandleEvent`, the read loop, accepting, closing. An
exception out of `HandleEvent` frees the handler, which the code then asks
whether to close: the process ends or goes on (`CheckFreed`). An exception out of a
registration ends `Run` (`thrown`). With no descriptor left, `accept4` fails for ever
(`Spinning`). `head_key_` is TRUE until the first connection's unpacker is built, which
moves the keys away. Tasks, peers, `Stop` and `Destroy` run beside the thread.

## 3. What is checked

| Run | Bounds | Shows |
|---|---|---|
| `byte_stream` | 3 or 4 slots, 2 byte values, transfers of up to 4 bytes, elements of 1 and 2 bytes, 3 in the stream | `TypeOK`, `IndexCoherence`, `StreamImplementsByteQueue`, `RoundTrip` |
| `linear_io` | 4 slots, a producer and a consumer, transfers of up to 3 | `SpansApart`, `ImplementsByteQueue`, `PublishesWhatWasStored`, `ConsumesWhatWasLoaded` |
| `thread_pool` | 3 workers, 2 clients, 3 tasks, batches of up to 2 | `TypeOK`, `EachTaskOnce`, `NoLostWakeup`, `ImplementsTaskPool`, `PostedTaskFinishes`, `DestructorReturns` |
| `timer_scheduler` | 2 tasks, instants 0 to 2 | `TypeOK`, `NoOversleep`, `ImplementsTimerService`, `ScheduledTaskRuns`, `StopReturns` |
| `unpacker` | 5 slots, 3 byte values, pushes of up to 3, 7 formats | `UnPackerTypeOK`, `PacketsAreFramed`, `FindKeyFindsOneByte`, `PacedCutsAreCommitted`, `CallReturns` |
| `logger` | 2 callers, 2 stored lines and a printed one, a ring too small for both, one edit, two dates, a stream's buffer of 2 bytes | `TypeOK`, `FilesContinueInRing`, `ConsoleOrder`, `EndsFlushed`, `StoredLineIsWritten`, `DestructorReturns` |
| `reactor` | 4 clients (two paced, one of them without a tail key; one throwing; one with long keys) and a UDP socket with long keys, two of them in a behaviour, 3 descriptors, rings of 2, batches of 2 | `TypeOK`, `DescriptorsAgree`, `EventsAreFresh`, `NothingForgotten`, `PacedTasksSeeTheirPackets`, `PacedGetEachPacketOnce`, `ClosesWhenDrained`, `PacedPacketIsDelivered`, `DepartedIsClosed`, `StopTakesEffect` |
| `timer_scheduler_stop` | as `timer_scheduler` | violated: `StopWakesScheduler` |
| `unpacker_commit` | as `unpacker` | violated: `CutsAreCommitted` |
| `unpacker_find` | as `unpacker` | violated: `FindKeyFinds` |
| `reactor_tasks` | as `reactor`, two clients, no UDP socket | violated: `TasksSeeTheirPackets` |
| `reactor_keys` | as `reactor`, two clients and the UDP socket | violated: `EachConnectionUnpacks` |

Why the bounds are enough. A ring of three or four slots has every relation
between the two indices (apart, equal and empty, equal and full, wrapped) and
transfers that reach exactly, pass, and exceed both the end of the storage and
the free space; two byte values tell a stored byte from a fresh one. In the ring
of three a vector of two-byte elements meets the seam in the middle of an element,
in that of four between two elements too. Four slots let a span, stored bytes and a second span lie side by side. Three workers are
one that sleeps, one that exits and one that runs a task which posts; a batch of
two needs two of them. Two timed tasks are one to sleep for and an earlier (or
equal, or cancelled) one to be pushed meanwhile; the scheduler can stop and
restart at any point. Five slots hold a packet with two-byte keys and a length,
or two short packets, at any offset. In the logger a batch cuts the longer line
and a file is full after one or two batches, and the file size wraps around to 0
after one reload without the key; a reload may halve the batches, and the flush limit
is above the batch, as in the code's defaults. In the reactor
packets are of one and of two units, so that a ring of two is full with a whole
packet in it, or without a tail key with a packet and the head behind it; three
descriptors are a listener and two others, so that a second peer takes the last one,
or one that was just closed, and a batch of two can close one descriptor and accept
onto it. `Casts` are the sets of peers of which one takes part in a behaviour: the
client that waits beside a throwing one, beside a client and beside a UDP socket
whose keys are long, and the one that waits without a tail key beside the throwing one.
The connections of a reactor are given the same keys, but only the first one gets
them (see `reactor_keys`), so that two clients of different kinds are two reactors
that differ in their keys. After an error at a UDP socket there is no second one
before the first has closed it. All runs check for deadlock: where the system
may stop, a `Terminated` step (or, in UnPacker, another call) stands for it.

The five violated properties are what a document or comment promises and the
code does not do; `PROJECT.json` quotes both under "findings". In short:

* `Stop`'s wake-up can fall between the test of `running_` and `wait_until`, so that
  `Stop` lasts until the next deadline. (It does return: `StopReturns`.)
* The unpacker commits as many bytes as the packet has, from the front of the
  ring, wherever the packet was, and goes on with an offset that counts from the
  old front. With junk ahead, or two packets stored at once, packets are lost
  or delivered twice. `PacedCutsAreCommitted` is the part that holds.
* `FindKey` on a key of two bytes may miss it, invent it, or not return when it
  is near the end of the storage. `FindKeyFindsOneByte` and `CallReturns` are what
  holds for keys of one byte.
* A task captures its handler, not the packets: the next read replaces them before
  the pool has run the task. `PacedTasksSeeTheirPackets` and `PacedGetEachPacketOnce` hold
  for clients that wait.
* The first connection's unpacker takes the keys; later ones have none and cut
  nothing. `PacedPacketIsDelivered` is about connections that have them.

### What the code does otherwise

Two more disagreements are in the models, as the code has them, and no run is there to
refute the document; the properties say what is left.

* `byte_stream.hpp:38` and `:47` promise to write and read the data of any
  `std::vector<T>`. A vector of elements wider than a byte is torn when it lies across
  the seam: `Write` goes on `first_chunk` elements further where it should be bytes
  (`ring_buffer.hpp:54`), and `Read` over its first chunk when the seam cuts an element
  (line 101). `RoundTrip` and `StreamImplementsByteQueue` say that nothing else is.
* `logger.hpp:219` says to flush when more than the maximum of bytes is written. The test
  is of one batch, and the largest by default is a sixteenth of `max_flush_size`: the
  writer never flushes until a file is replaced or it ends. A stored line is given to the
  stream (`StoredLineIsWritten`), and may stay in its buffer for as long as nothing else
  is logged; `EndsFlushed` is what holds.

The models assume some disciplines that the code does not enforce, each named in its
module: a ring is resized unwrapped, and one thread is at each end of the zero-copy
calls. And one promise is weaker than it may
look: `Cancel` answers true for a task that the pool already has and that still
runs; the refinement of TimerService holds because there a task has fired once it
left the heap.

### Fairness

Safety is checked and proved without it. Liveness assumes what the platform
gives, and nothing of the callers:

* ThreadPool: each worker's next step (taking the mutex, running a task to its
  end, exiting) eventually happens, as do a started notify and the destructor's
  steps. Weak fairness is enough: a worker that can step stays able to until some
  worker changes the queue, and there are finitely many tasks. Posting, destroying
  and spurious wake-ups are not fair.
* TimerScheduler: the same for the scheduler, for calls that have begun, and
  for `Stop` once called; time passes; the pool runs what it is given, which is
  ThreadPool's `PostedTaskFinishes`. Nobody need schedule, start, stop or cancel.
* UnPacker: the calling thread keeps running its loop.
* Logger: threads run, the 100 ms of `wait_for` and the second of the monitor
  pass. Nobody need log or destroy the logger, and a file may fail to open.
* Reactor: the loop's thread runs once `Run` was called, and the pool runs the tasks
  (ThreadPool's `PostedTaskFinishes`, TimerScheduler's `ScheduledTaskRuns`). No peer
  need send, leave or connect, and nobody need stop the loop. The liveness
  properties name the ways in which the thread is lost (`Lost`: over, crashed, or
  `Spinning`, or in a search that does not end) and in which a handler is (`Stalled`: a
ring full of what is no packet).

## 4. What is proved

| Module | Theorem | Property |
|---|---|---|
| `RingBufferProofs` | `TypeCorrect`, `Coherent` | `TypeOK`, `IndexCoherence` |
| | `RingBufferImplementsByteQueue` | `ImplementsByteQueue` |
| `RingClientsProofs` | `SpansStayApart` | `SpansApart` |
| (of LinearIO) | `PublishesExactly`, `ConsumesExactly` | `PublishesWhatWasStored`, `ConsumesWhatWasLoaded` |
| | `LinearIOImplementsByteQueue` | `ImplementsByteQueue` |
| (of ByteStream) | `StreamTypeCorrect`, `StreamCoherent` | `TypeOK`, `IndexCoherence` |
| | `StreamIsByteQueueButTorn` | `StreamImplementsByteQueue` |
| | `ElementsComeOutAsPutIn` | `RoundTrip` |
| `UnPackerProofs` | `UnPackerTypeCorrect`, `EveryPacketIsFramed` | `UnPackerTypeOK`, `PacketsAreFramed` |
| | `OneByteKeysAreFound` | `FindKeyFindsOneByte` |
| | `WaitingPeerLosesNothing` | `PacedCutsAreCommitted` |
| `ThreadPoolProofs` | `TypeCorrect`, `NoWakeupIsLost`, `TasksAreInOnePlace` | `TypeOK`, `NoLostWakeup`, `EachTaskOnce` |
| | `ThreadPoolImplementsTaskPool` | `ImplementsTaskPool` |
| `TimerSchedulerProofs` | `TypeCorrect`, `SchedulerNeverOversleeps` | `TypeOK`, `NoOversleep` |
| | `TimerSchedulerImplementsTimerService` | `ImplementsTimerService` |
| `LoggerProofs` | `LoggerTypeCorrect`, `FilesFollowTheConsole` | `TypeOK`, `ConsoleOrder` |
| | `WriterEndsFlushed` | `EndsFlushed` |
| | `NothingIsLostOnTheWay`, `ReloadsLoseNothing` | `FilesContinueInRing` |
| `ReactorProofs` | `TypeCorrect`, `DescriptorsStayAgreed`, `EventsStayFresh` | `TypeOK`, `DescriptorsAgree`, `EventsAreFresh` |
| `ReactorEventsProofs` | `NothingIsForgotten`, `ClosesOnlyWhenDrained` | `NothingForgotten`, `ClosesWhenDrained` |
| | `WaitingTasksSeeTheirPackets` | `PacedTasksSeeTheirPackets` |
| | `WaitingGetEachPacketOnce` | `PacedGetEachPacketOnce` |

The assumptions are those on the constants, named in each module
(`RingBufferAssumption`, `ByteStreamAssumption`, `UnPackerAssumption`,
`ThreadPoolAssumption`, `TimerSchedulerAssumption`, `LoggerAssumption`,
`HandlersAssumption`, `ReactorAssumption`), which TLC evaluates in
the runs. Four sets of theorems state one more, below: a worker exists, one thread
is at each end of the zero-copy calls, the logger's batches fit its buffer, and keys
of waiting clients have one byte (`Paced \cap LongKeys = {}`).

*RingBuffer.* The inductive invariant is `TypeOK /\ IndexCoherence`: neither is
inductive without the other, since the range of the length bounds the copy and
coherence says where it goes. Four lemmas on `%` (all that the proof needs of it:
an index either stays in range or loses one `size`) turn slots into case
splits. For the refinement, `CopyOutIsFront` shows that the two copies of a read
give the front of `Contents`, and `StoringAppends` that bytes put in the free slots
behind the write index are what a commit appends, whether by `CopyIn` or by the
caller's own stores; a store without a commit changes no stored slot and stutters.

*LinearIO.* For one producer and one consumer (`OnePerEnd`). `SpansApart` is not
inductive: it forgets where the spans are. `LInv` adds that a producer's span begins at
the write index and fits the free slots up to the end of the storage, that a
consumer's begins at the read index and fits the stored ones, and that what was stored
or loaded through them is still in the slots. Each end's steps then leave the
other's span alone (`KeepsProducer`, `KeepsConsumer`), no commit is refused, and a
step of the threads is a call of the ring (`StepIsRingStep`), whose theorems apply.

*ByteStream.* A step of the stream is a call of the ring, the vector copies being the
byte copies where they are straight, or it is torn: it then stores any bytes in the
free slots, or answers with any, and moves the indices as every other call does, so
that types and coherence hold throughout and `Contents` grows or shrinks by as many
bytes as the call says (`Garbles`). For `RoundTrip` the invariant says that the stored
bytes are the elements one behind the other: there are marks, where each element
ends, that grow by the element's length, and between its marks lie the bytes of each
element that was not torn when it went in. A put adds one at the end, a get in step takes
the first away and moves the rest forward. That needs no definition by recursion over
the elements, which could not be reasoned about.

*UnPacker.* Packets start with the head key whatever the ring holds, keys of any length
included, because a cut copies what `FindKey` compared. They end with the tail key
if the keys are single bytes, and for any keys if they state their length: `FindKey`
is then asked for the tail at one place, and a match there lies inside the packet
(`CutEndsWithKey`); in the mode without lengths it may answer with a match that
lies beyond. That the length is the one in the stored header is not claimed: a header
that wraps around is read past the storage. `UInv` adds to it the ring's
invariant and the types, which bound the offsets. That `FindKey` finds the first
one-byte key is a case split over the two parts it scans, each of which is a least
element of a set (`FindKeyFinds` fails for longer keys, and the runs show how).
`PacedCutsAreCommitted` is about a cut and the commit behind it, and needs the ring's
content when the loop comes to it: `PInv` says that a waiting peer's ring holds at
most one packet, with the start of the next behind it at most; that the loop is at the
front with it (`AtStart`), or behind its head key (`PastHead`), or has cut it
(`PastCut`), after which its stale offset points at nothing that looks like a head
key. The hypothesis on peers is in the definition of the property.

*ThreadPool.* The inductive invariant is `TypeOK /\ Lifecycle /\ NoLostWakeup`.
`Lifecycle` (the flag falls with the destructor's first step, and workers exit only
after it) is what keeps a sleeper from missing the destructor; the counting half
takes the finiteness of the two sets whose sizes it adds, and one lemma for each
way in which a worker joins or leaves them. `EachTaskOnce` is inductive with types.
The refinement adds `NothingLeftBehind`: once every worker has exited the queue is
empty, since whoever posts then is a task, whose worker has not exited. With
no worker at all that fails, which is why `ThreadPoolImplementsTaskPool` assumes
`Workers # {}`: `hardware_concurrency()` may return 0, and the pool then drops every
task silently.

*TimerScheduler.* `Lifecycle` ties `owner`, `running_` and the thread's place together
(a thread that has not exited means an owner that has started it and not yet
joined it, and it does not exit while started);
`NoOversleep` follows with types. The refinement needs `Identity`: ids in the heap,
in calls, in hand and in the pool are distinct and below `next_id_`, so that a
task fires once and a cancellation concerns one task.

*Logger.* `Typed` is `TypeOK` in three parts, one for the callers, one for the ring and the
writer, one for the configuration, with one addition: a caller that stores a line has
printed it. `ConsoleOrder` needs `LinesInHand`: since `mutex_` is held from the print to
the store, the line about to be stored is the one printed last, and no two callers
have the same line in hand. `EndsFlushed` adds that only bytes of the current file are
held back, since a file that is replaced was closed. For `FilesContinueInRing`, what is stored grows by a line at
the end, and the files by a batch that leaves the ring's front; two lemmas on
`FlattenSeq` say what one more element, or a longer last one, adds to a flattened
sequence. The library defines it by recursion on naturals; the lemmas go by induction
in the form of a least counterexample. The property fails if a reload makes batches
larger than the writer's buffer, whose size is fixed when its thread starts:
`TakeBatch` then writes bytes from behind the buffer. So `NothingIsLostOnTheWay` assumes
`[]BatchesFit`, and `ReloadsLoseNothing` instead of that that no configuration gives a
batch larger than any the logger may have started with (`ReloadsNeverEnlarge`), which
holds of the shipped configuration, where the size cannot be set at all (section 5).

*Reactor.* The three theorems of `ReactorProofs` share the invariant `IInv`, in which
they need each other: a descriptor just given out is not one of the batch, because
those are registered and registered ones are in use; outside `dispatch` and what it
leads to, the batch is empty (`BatchEmpty`), and what is read or checked is a handler's
descriptor, not the listener's (`Dispatched`); a client nobody has accepted has no
descriptor (`Strangers`), and a socket the owner is binding is the only one that is
not registered (`OneCreated`). `ReactorEventsProofs` adds to it what edge-triggered
reporting needs (`JInv`): a reported event still has a flag that will be acted on
(`Reported`); a handler that was read and is not to be closed has nothing left to tell
but what is on the list again or what a full ring keeps out (`Handled`); and a
handler that is to be closed has read everything, or was cut off (`Drained`).
What waiting clients get takes `Waits` on top (`PInv`): for each there is a place in its
stream, `front`, up to which its callbacks have had every packet one by one (`HasHad`);
it has sent at most one packet more, whose units are in the ring from `front` on until
they are all there, and then are in `packs_` and in one task (`OneAhead`,
`ScheduledOnce`). While that task is pending the client is silent and has not left, so
nothing is read over `packs_` and the handler is not closed (by `Drained`). Whatever the
other clients, sockets and callbacks do is shown to leave that alone. Without a tail
key the client may be one unit further, the head behind the packet, which is then
what is left in the ring. Both theorems take `Paced \cap LongKeys = {}`: with
longer keys a client's own packets may be cut anyhow, while others that have such keys
disturb nothing, even when the loop is lost in a search for them (`HangWaits`).
No liveness and no bound on the number of peers, descriptors or events is
used.

Each strengthening was first checked by TLC as an invariant of the component's run.

Only model-checked: liveness (every property with `~>`, and `CallReturns`), which needs
fairness and `ENABLED` and is beyond the prover.

## 5. What is not modelled

* In the reactor: `epoll_wait` failing with anything but `EINTR`, parameters that are set
  again or while the loop runs, registrations that fail in the owner's set-up, null
  handlers and schedulers, zero-length datagrams, and tasks that are left when
  the reactor is destroyed. A datagram is cut to the linear space, as the code does.
* What a crash would lose of the bytes in a file stream's buffer, and the crash of a
  vector copy that reads outside the vector (the model goes on with any bytes).
* The ring's iterators, `Resize` of a ring whose bytes reach the end of the storage, and its accessors read without the lock.
* The text parser of `IniReader`, demonstrations: no state of interest.
* Undefined behaviour beyond the one described: callers still inside a call while
  an object is destroyed (in particular a task that reschedules while
  `TimerScheduler` is destroyed, whose mutex is gone by then), several owners
  calling `Start` or `Stop` at once.
* A batch size that a reload enlarges: `TakeBatch` says what the code does then
  (bytes behind the buffer are written, the ring is not consumed), but the run's
  files only make batches smaller; the shipped file cannot change the size at
  all, since its `[LOG_ASYNC]` keys are looked for in `[LOG_GLOBAL]` (`logger.hpp:57`).

## 6. Plan

Done: every part of the library in section 1, with the theorems above. What could
follow, in this order:

1. The safety halves of the liveness properties: that for keys of one byte the parsing
   loop never hangs and each iteration comes nearer to its end.
2. That a reply of `Cancel` and a later firing exclude each other, in terms of the
   calls' answers.
3. Concurrent `Start` and `Stop` of the TimerScheduler, and its destruction with
   tasks that reschedule.
