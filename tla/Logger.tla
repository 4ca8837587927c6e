-------------------------------- MODULE Logger -------------------------------
(***************************************************************************)
(* Logger (include/logger/logger.hpp): callers print a line and store it   *)
(* in a ring; a writer thread moves the ring to the current file, batch by *)
(* batch, and opens another file for a new day or when one is full; a      *)
(* monitor thread reloads the configuration.  mutex_ is held by a caller   *)
(* from its print to its store and by the monitor while it reloads;        *)
(* ring_buffer_mutex_ by a caller's store and by the writer for a whole    *)
(* batch.  ShouldLog and the writer read the configuration without mutex_. *)
(* The ring is the byte queue that RingBuffer implements; a line's text is *)
(* its length, and each byte is known by its line and place.  A file is    *)
(* what its stream was given; the last bytes of the current one may still  *)
(* be in the stream's own buffer.                                          *)
(***************************************************************************)
EXTENDS Integers, Sequences, FiniteSets, SequencesExt

CONSTANTS
  Callers,
  Lines, NoLine, \* each line is logged at most once
  LengthOf,      \* of a line, in bytes
  LevelOf,       \* of a line
  MSG,           \* the level that is printed and not stored
  Configs,       \* what log_config.ini may say: sizes and levels
  Missing,       \* a key it does not have
  DefaultFileSize, DefaultBatchSize, DefaultFlushSize,
  RingSize,      \* ring_buffer_size_kb: built before the configuration is read
  StreamBuffer,  \* external: the bytes a file's stream may hold back
  Kilo,          \* KB to bytes, 1024
  SizeLimit,     \* 2^64, the width of size_t
  MaxEdits,      \* bound: edits of the file
  MaxDay         \* bound: the date stops there

ASSUME LoggerAssumption ==
  /\ NoLine \notin Lines
  /\ LengthOf \in [Lines -> Nat \ {0}]
  /\ \A c \in Configs : c.max_file_size \in (0..SizeLimit-1) \cup {Missing}
                          /\ c.batch_size \in (Nat \ {0}) \cup {Missing}
                          /\ c.max_flush_size \in Nat \cup {Missing}
  /\ {DefaultFileSize, DefaultBatchSize, RingSize, Kilo, SizeLimit} \subseteq Nat \ {0}
  /\ {DefaultFlushSize, StreamBuffer, MaxEdits, MaxDay} \subseteq Nat

VARIABLES
  caller,        \* each caller's place in LogCout or LogPrint, and its line
  called, printed,
  stored,        \* the lines whose bytes were put in the ring, in that order
  ring_buffer_,
  writer,        \* where the writer is in CustThreadProc
  read_buffer,   \* its size, fixed when the thread starts
  batch,         \* the bytes it is about to write
  files,         \* the files opened so far, the current one last
  unflushed,     \* the last bytes of the current file that are not yet on disk
  max_file_size, batch_size, max_flush_size, levels,     \* the configuration
  config_file, modified, edits,          \* the file, and a modification not seen yet
  monitor,       \* where the monitor is in MonitorConfigChanges
  today,
  owner          \* who destroys the logger

lineVars   == <<caller, called, printed, stored>>
fileState  == <<files, unflushed>>
writerVars == <<writer, read_buffer, batch, files, unflushed>>
settings   == <<max_file_size, batch_size, max_flush_size, levels>>
fileVars   == <<config_file, modified, edits>>
vars == <<lineVars, ring_buffer_, writerVars, settings, fileVars, monitor, today, owner>>

Bytes(l) == [i \in 1..LengthOf[l] |-> <<l, i>>]

Lesser(a, b) == IF a <= b THEN a ELSE b

Configured(key, value) == IF key = Missing THEN value ELSE key

Idle == [at |-> "idle", line |-> NoLine]

(* An exception that leaves the writer ends the process. *)
Running == writer # "aborted"

MutexFreeOncePrinted == monitor # "scaling"

MutexFree ==
  monitor # "scaling" /\ \A p \in Callers : caller[p].at # "storing"

RingMutexFree == writer # "writing"

(* The constructor reads the configuration before it starts the threads. *)
Init ==
  /\ config_file \in Configs /\ modified = TRUE /\ edits = 0
  /\ max_file_size =
       (Configured(config_file.max_file_size, DefaultFileSize) * Kilo) % SizeLimit
  /\ batch_size = Configured(config_file.batch_size, DefaultBatchSize)
  /\ max_flush_size = Configured(config_file.max_flush_size, DefaultFlushSize)
  /\ levels = config_file.levels
  /\ caller = [p \in Callers |-> Idle]
  /\ called = {} /\ printed = <<>> /\ stored = <<>> /\ ring_buffer_ = <<>>
  /\ writer = "checking" /\ read_buffer = batch_size /\ batch = <<>>
  /\ files = <<>> /\ unflushed = 0
  /\ monitor = "sleeping" /\ today = 0 /\ owner = "using"

-----------------------------------------------------------------------------
(* LogCout and LogPrint: the level is tested without mutex_. *)
Log(p, l) ==
  /\ Running /\ owner = "using"
  /\ caller[p] = Idle /\ l \notin called
  /\ called' = called \cup {l}
  /\ caller' = IF LevelOf[l] \in levels
               THEN [caller EXCEPT ![p] = [at |-> "locking", line |-> l]]
               ELSE caller
  /\ UNCHANGED <<printed, stored, ring_buffer_, writerVars, settings, fileVars,
                 monitor, today, owner>>

PrintLine(p) ==
  /\ Running /\ MutexFree
  /\ caller[p].at = "locking"
  /\ printed' = Append(printed, caller[p].line)
  /\ caller' = IF LevelOf[caller[p].line] = MSG THEN [caller EXCEPT ![p] = Idle]
               ELSE [caller EXCEPT ![p].at = "storing"]
  /\ UNCHANGED <<called, stored, ring_buffer_, writerVars, settings, fileVars,
                 monitor, today, owner>>

(* notify_one, under ring_buffer_mutex_. *)
WakeWriter == writer' = IF writer = "waiting" THEN "locking" ELSE writer

(* Write's answer is not looked at: a line that does not fit is dropped. *)
StoreLineUnchecked(p) ==
  /\ Running /\ RingMutexFree
  /\ caller[p].at = "storing"
  /\ ring_buffer_' = ring_buffer_ \o Bytes(caller[p].line)
  /\ stored' = Append(stored, caller[p].line)
  /\ caller' = [caller EXCEPT ![p] = Idle]
  /\ WakeWriter
  /\ UNCHANGED <<called, printed, read_buffer, batch, fileState, settings,
                 fileVars, monitor, today, owner>>

StoreLine(p) ==
  /\ Running /\ RingMutexFree
  /\ caller[p].at = "storing"
  /\ IF LengthOf[caller[p].line] <= RingSize - Len(ring_buffer_)
     THEN /\ ring_buffer_' = ring_buffer_ \o Bytes(caller[p].line)
          /\ stored' = Append(stored, caller[p].line)
     ELSE UNCHANGED <<ring_buffer_, stored>>
  /\ caller' = [caller EXCEPT ![p] = Idle]
  /\ WakeWriter
  /\ UNCHANGED <<called, printed, read_buffer, batch, fileState, settings,
                 fileVars, monitor, today, owner>>

-----------------------------------------------------------------------------
(* CustThreadProc.  What is left in the ring when the flag is cleared stays; *)
(* what the stream holds is flushed.                                         *)
CheckWithoutFlush ==
  /\ writer = "checking"
  /\ writer' = IF owner = "using" THEN "locking" ELSE "exited"
  /\ UNCHANGED <<lineVars, ring_buffer_, read_buffer, batch, fileState, settings,
                 fileVars, monitor, today, owner>>

Check ==
  /\ writer = "checking"
  /\ \/ owner = "using" /\ writer' = "locking" /\ UNCHANGED unflushed
     \/ owner # "using" /\ writer' = "exited" /\ unflushed' = 0
  /\ UNCHANGED <<lineVars, ring_buffer_, read_buffer, batch, files, settings, fileVars,
                 monitor, today, owner>>

(* wait_for with a predicate: an empty ring ends it only after 100 ms. *)
Wait ==
  /\ writer = "locking" /\ ring_buffer_ = <<>>
  /\ writer' = "waiting"
  /\ UNCHANGED <<lineVars, ring_buffer_, read_buffer, batch, fileState, settings,
                 fileVars, monitor, today, owner>>

TimeOutWithData ==
  /\ writer = "waiting" /\ ring_buffer_ # <<>>
  /\ writer' = "locking"
  /\ UNCHANGED <<lineVars, ring_buffer_, read_buffer, batch, fileState, settings,
                 fileVars, monitor, today, owner>>

TimeOut ==
  /\ writer = "waiting"
  /\ writer' = IF ring_buffer_ = <<>> THEN "checking" ELSE "locking"
  /\ UNCHANGED <<lineVars, ring_buffer_, read_buffer, batch, fileState, settings,
                 fileVars, monitor, today, owner>>

(***************************************************************************)
(* Read fails when the batch was configured larger than read_buffer; its   *)
(* answer is not looked at, and what is written then is the old buffer and *)
(* what lies behind it: nothing that was logged.                           *)
(***************************************************************************)
TakeFullBatch ==
  /\ writer = "locking" /\ Len(ring_buffer_) >= batch_size
  /\ batch' = SubSeq(ring_buffer_, 1, batch_size)
  /\ ring_buffer_' = SubSeq(ring_buffer_, batch_size + 1, Len(ring_buffer_))
  /\ writer' = "writing"
  /\ UNCHANGED <<lineVars, read_buffer, fileState, settings, fileVars, monitor,
                 today, owner>>

TakeBatch ==
  /\ writer = "locking" /\ ring_buffer_ # <<>>
  /\ \E n \in {Lesser(Len(ring_buffer_), batch_size)} :
       IF n <= read_buffer
       THEN /\ batch' = SubSeq(ring_buffer_, 1, n)
            /\ ring_buffer_' = SubSeq(ring_buffer_, n + 1, Len(ring_buffer_))
       ELSE /\ batch' = [i \in 1..n |-> <<NoLine, i>>]
            /\ UNCHANGED ring_buffer_
  /\ writer' = "writing"
  /\ UNCHANGED <<lineVars, read_buffer, fileState, settings, fileVars, monitor,
                 today, owner>>

(* RotateFileIfNeeded. *)
Current == Last(files)

NewDay == files # <<>> => Current.date # today

TooLong == ~NewDay /\ Len(Current.bytes) > max_file_size

Rotates == NewDay \/ TooLong

NextFile == [date  |-> today,
             index |-> IF NewDay THEN 0 ELSE Current.index + 1,
             bytes |-> <<>>]

AppendTo(fs, bytes) == [fs EXCEPT ![Len(fs)].bytes = @ \o bytes]

WriteOpeningOnly ==
  /\ writer = "writing"
  /\ files' = IF Rotates THEN Append(files, NextFile)
              ELSE AppendTo(files, batch)
  /\ batch' = <<>> /\ writer' = "checking"
  /\ UNCHANGED <<lineVars, ring_buffer_, read_buffer, unflushed, settings, fileVars,
                 monitor, today, owner>>

(* The stream passes on what it likes of the n bytes it has then.            *)
HeldBack(n) == 0..Lesser(n, StreamBuffer)

(***************************************************************************)
(* A file that is replaced is closed, and so flushed.  Otherwise the bytes *)
(* of this batch, not those written since the last flush, are held against *)
(* max_flush_size - which with the defaults no batch reaches, so that what *)
(* is short enough may stay in the stream's buffer until the writer ends.  *)
(***************************************************************************)
WriteBatch ==
  /\ writer = "writing"
  /\ files' = AppendTo(IF Rotates THEN Append(files, NextFile) ELSE files, batch)
  /\ unflushed' \in
       IF Len(batch) >= max_flush_size THEN {0}
       ELSE HeldBack(Len(batch) + IF Rotates THEN 0 ELSE unflushed)
  /\ batch' = <<>> /\ writer' = "checking"
  /\ UNCHANGED <<lineVars, ring_buffer_, read_buffer, settings, fileVars, monitor,
                 today, owner>>

(* OpenNewFile closes the old file and throws; nothing in the thread catches. *)
OpenFails ==
  /\ writer = "writing"
  /\ Rotates
  /\ writer' = "aborted" /\ unflushed' = 0
  /\ UNCHANGED <<lineVars, ring_buffer_, read_buffer, batch, files, settings, fileVars,
                 monitor, today, owner>>

CustThreadProc == Check \/ Wait \/ TakeBatch \/ WriteBatch

-----------------------------------------------------------------------------
(***************************************************************************)
(* MonitorConfigChanges: a new modification time is noted, and then the    *)
(* values are read one by one under mutex_.  max_file_size holds the KB of *)
(* the file until it is scaled; when the file has no such key, the bytes   *)
(* of the last time are scaled once more.                                  *)
(***************************************************************************)
Stat ==
  /\ Running /\ monitor = "sleeping"
  /\ owner = "using" /\ modified
  /\ modified' = FALSE
  /\ monitor' = "locking"
  /\ UNCHANGED <<lineVars, ring_buffer_, writerVars, settings, config_file, edits,
                 today, owner>>

LoadFileSize ==
  /\ Running /\ monitor = "locking" /\ MutexFree
  /\ max_file_size' = Configured(config_file.max_file_size, max_file_size)
  /\ monitor' = "scaling"
  /\ UNCHANGED <<lineVars, ring_buffer_, writerVars, batch_size, max_flush_size, levels,
                 fileVars, today, owner>>

UpdateConfig ==
  /\ Running /\ monitor = "scaling"
  /\ max_file_size' = (max_file_size * Kilo) % SizeLimit
  /\ batch_size' = Configured(config_file.batch_size, batch_size)
  /\ max_flush_size' = Configured(config_file.max_flush_size, max_flush_size)
  /\ levels' = config_file.levels
  /\ monitor' = "sleeping"
  /\ UNCHANGED <<lineVars, ring_buffer_, writerVars, fileVars, today, owner>>

StopMonitor ==
  /\ Running /\ monitor = "sleeping"
  /\ owner # "using"
  /\ monitor' = "exited"
  /\ UNCHANGED <<lineVars, ring_buffer_, writerVars, settings, fileVars, today, owner>>

MonitorConfigChanges == Stat \/ LoadFileSize \/ UpdateConfig \/ StopMonitor

(* Somebody edits the file, perhaps within a second of the last time. *)
Edit(c) ==
  /\ Running /\ edits < MaxEdits
  /\ config_file' = c
  /\ modified' \in {modified, TRUE}
  /\ edits' = edits + 1
  /\ UNCHANGED <<lineVars, ring_buffer_, writerVars, settings, monitor, today, owner>>

Midnight ==
  /\ Running /\ today < MaxDay
  /\ today' = today + 1
  /\ UNCHANGED <<lineVars, ring_buffer_, writerVars, settings, fileVars, monitor, owner>>

-----------------------------------------------------------------------------
(* The destructor, when nobody logs any more: it clears both flags, wakes    *)
(* nobody, and joins.                                                        *)
Destroy ==
  /\ Running /\ owner = "using"
  /\ \A p \in Callers : caller[p] = Idle
  /\ owner' = "joining"
  /\ UNCHANGED <<lineVars, ring_buffer_, writerVars, settings, fileVars, monitor, today>>

Join ==
  /\ Running /\ owner = "joining"
  /\ monitor = "exited" /\ writer = "exited"
  /\ owner' = "gone"
  /\ UNCHANGED <<lineVars, ring_buffer_, writerVars, settings, fileVars, monitor, today>>

(* Nothing is left to do; not a step of the code. *)
Terminated == (owner = "gone" \/ ~Running) /\ UNCHANGED vars

Next ==
  \/ \E p \in Callers : PrintLine(p) \/ StoreLine(p) \/ \E l \in Lines : Log(p, l)
  \/ CustThreadProc \/ TimeOut \/ OpenFails
  \/ MonitorConfigChanges
  \/ \E c \in Configs : Edit(c)
  \/ Midnight
  \/ Destroy \/ Join
  \/ Terminated

Spec == Init /\ [][Next]_vars

(***************************************************************************)
(* The threads are scheduled, the mutexes starve none, the 100 ms pass.    *)
(* Nobody need log, edit the file or destroy the logger.                   *)
(***************************************************************************)
Fairness ==
  /\ \A p \in Callers : WF_vars(PrintLine(p)) /\ WF_vars(StoreLine(p))
  /\ WF_vars(CustThreadProc) /\ WF_vars(TimeOut)
  /\ WF_vars(MonitorConfigChanges)
  /\ WF_vars(Join)

FairSpec == Spec /\ Fairness

-----------------------------------------------------------------------------
TypeOK ==
  /\ caller \in [Callers -> [at : {"idle", "locking", "storing"}, line : Lines \cup {NoLine}]]
  /\ \A p \in Callers :
       caller[p].line \in IF caller[p].at = "idle" THEN {NoLine} ELSE called
  /\ called \subseteq Lines
  /\ printed \in Seq(called) /\ stored \in Seq(Range(printed))
  /\ ring_buffer_ \in Seq(Lines \X Nat) /\ Len(ring_buffer_) <= RingSize
  /\ writer \in {"checking", "locking", "waiting", "writing", "exited", "aborted"}
  /\ batch \in Seq((Lines \cup {NoLine}) \X Nat)
  /\ batch # <<>> <=> writer \in {"writing", "aborted"}
  /\ Len(batch) <= RingSize
  /\ Len(batch) <= read_buffer \/ \A i \in 1..Len(batch) : batch[i][1] = NoLine
  /\ files \in Seq([date : 0..MaxDay, index : Nat,
                    bytes : Seq((Lines \cup {NoLine}) \X Nat)])
  /\ unflushed \in 0..StreamBuffer
  /\ max_file_size \in 0..SizeLimit-1 /\ max_flush_size \in Nat
  /\ {batch_size, read_buffer} \subseteq Nat \ {0}
  /\ config_file \in Configs /\ today \in 0..MaxDay
  /\ monitor \in {"sleeping", "locking", "scaling", "exited"}
  /\ owner \in {"using", "joining", "gone"}

LoggedBytes == FlattenSeq([i \in 1..Len(stored) |-> Bytes(stored[i])])

FileBytes == FlattenSeq([i \in 1..Len(files) |-> files[i].bytes])

(***************************************************************************)
(* One file after the other, then the batch in the writer's hands, then    *)
(* the ring: together they hold the lines that were stored, whole and in   *)
(* order, through batches that cut lines, rotations and reloads.  What an  *)
(* exit loses is therefore a tail.                                         *)
(***************************************************************************)
FilesContinueInRing == LoggedBytes = FileBytes \o batch \o ring_buffer_

(***************************************************************************)
(* The files have the lines in the order in which the console had them,    *)
(* and none twice.                                                         *)
(***************************************************************************)
InOrder(s, k, l) == \E i, j \in 1..Len(s) : i < j /\ s[i] = k /\ s[j] = l

ConsoleOrder ==
  /\ \A k, l \in Lines : InOrder(stored, k, l) => InOrder(printed, k, l)
  /\ \A l \in Lines : ~InOrder(printed, l, l)

(***************************************************************************)
(* However the writer ends, and whenever it changes files, no byte that it *)
(* has written is left in a stream's buffer: only of the current file may  *)
(* something be missing on disk, and only while the writer runs.           *)
(***************************************************************************)
EndsFlushed ==
  /\ unflushed <= IF files = <<>> THEN 0 ELSE Len(Current.bytes)
  /\ writer \in {"exited", "aborted"} => unflushed = 0

(***************************************************************************)
(* A stored line is written to a file's stream, unless the logger is       *)
(* destroyed or the process ends first.  When the stream passes it on to   *)
(* the disk is another question: see WriteBatch and EndsFlushed.           *)
(***************************************************************************)
StoredLineIsWritten ==
  \A l \in Lines :
    l \in Range(stored) ~>
      Range(Bytes(l)) \subseteq Range(FileBytes) \/ owner # "using" \/ ~Running

(* The destructor returns, although it wakes neither thread. *)
DestructorReturns == owner = "joining" ~> owner = "gone" \/ ~Running
=============================================================================
