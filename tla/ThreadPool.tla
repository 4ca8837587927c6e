------------------------------ MODULE ThreadPool -----------------------------
(***************************************************************************)
(* ThreadPool (include/threading/thread_pool.hpp): worker threads around a *)
(* queue, a mutex and a condition variable.  A stretch of code that holds  *)
(* queue_mutex_ is one step; notify_one of the single-task PostTask and    *)
(* notify_all of the destructor come after the unlock and are steps of     *)
(* their own.  Posting threads are the pool's clients and the tasks that   *)
(* are being run.                                                          *)
(***************************************************************************)
EXTENDS Naturals, Sequences, FiniteSets, Functions

CONSTANTS
  Workers,       \* the threads of workers_
  Clients,       \* other threads that post
  Tasks,         \* the posted callbacks, each posted at most once
  NoTask,
  PostLimit      \* bound: tasks in one batch

ASSUME ThreadPoolAssumption ==
  /\ IsFiniteSet(Workers) /\ IsFiniteSet(Clients)
  /\ Workers \cap Clients = {}
  /\ NoTask \notin Tasks
  /\ PostLimit \in Nat \ {0}

VARIABLES
  task_queue_,
  running_,
  worker,        \* where each worker is in WorkerLoop
  cb_task,       \* the task it has taken
  notifying,     \* threads between PostTask's unlock and its notify_one
  owner,         \* the thread that destroys the pool
  finished       \* tasks that have returned

vars == <<task_queue_, running_, worker, cb_task, notifying, owner, finished>>

Waiting   == {w \in Workers : worker[w] = "waiting"}
Awake     == {w \in Workers : worker[w] = "locking"}
Executing == {cb_task[w] : w \in {v \in Workers : worker[v] = "running"}}
Posted    == Range(task_queue_) \cup Executing \cup finished

Init ==
  /\ task_queue_ = <<>>
  /\ running_ = TRUE
  /\ worker = [w \in Workers |-> "locking"]
  /\ cb_task = [w \in Workers |-> NoTask]
  /\ notifying = {}
  /\ owner = "using"
  /\ finished = {}

-----------------------------------------------------------------------------
(* Posting. *)

(* The pool outlives the calls of its clients; tasks run until the join. *)
MayPost(th) ==
  /\ th \notin notifying
  /\ \/ th \in Clients /\ owner = "using"
     \/ th \in Workers /\ worker[th] = "running"

WakeAll == worker' = [w \in Workers |->
                        IF worker[w] = "waiting" THEN "locking" ELSE worker[w]]

WakeOne ==
  \/ Waiting = {} /\ UNCHANGED worker
  \/ \E w \in Waiting : worker' = [worker EXCEPT ![w] = "locking"]

PostTask(th, t) ==
  /\ MayPost(th)
  /\ t \notin Posted
  /\ task_queue_' = Append(task_queue_, t)
  /\ notifying' = notifying \cup {th}
  /\ UNCHANGED <<running_, worker, cb_task, owner, finished>>

NotifyOne(th) ==
  /\ th \in notifying
  /\ WakeOne
  /\ notifying' = notifying \ {th}
  /\ UNCHANGED <<task_queue_, running_, cb_task, owner, finished>>

FreshBatches ==
  {b \in UNION {[1..n -> Tasks \ Posted] : n \in 0..PostLimit} : IsInjective(b)}

(* The batch is pushed and everyone notified under the lock. *)
PostBatchWakingOne(th, batch) ==
  /\ MayPost(th)
  /\ task_queue_' = task_queue_ \o batch
  /\ WakeOne
  /\ UNCHANGED <<running_, cb_task, notifying, owner, finished>>

PostBatch(th, batch) ==
  /\ MayPost(th)
  /\ task_queue_' = task_queue_ \o batch
  /\ WakeAll
  /\ UNCHANGED <<running_, cb_task, notifying, owner, finished>>

-----------------------------------------------------------------------------
(***************************************************************************)
(* WorkerLoop.  cv_.wait tests its predicate under the lock: it returns at *)
(* once, or the worker joins the waiting set and unlocks in one step.  A   *)
(* worker that is woken, for a reason or spuriously, tests it again.       *)
(***************************************************************************)
Wait(w) ==
  /\ worker[w] = "locking"
  /\ running_ /\ task_queue_ = <<>>
  /\ worker' = [worker EXCEPT ![w] = "waiting"]
  /\ UNCHANGED <<task_queue_, running_, cb_task, notifying, owner, finished>>

WakeSpuriously(w) ==
  /\ worker[w] = "waiting"
  /\ worker' = [worker EXCEPT ![w] = "locking"]
  /\ UNCHANGED <<task_queue_, running_, cb_task, notifying, owner, finished>>

ExitDroppingTasks(w) ==
  /\ worker[w] = "locking"
  /\ ~running_
  /\ worker' = [worker EXCEPT ![w] = "exited"]
  /\ UNCHANGED <<task_queue_, running_, cb_task, notifying, owner, finished>>

Exit(w) ==
  /\ worker[w] = "locking"
  /\ ~running_ /\ task_queue_ = <<>>
  /\ worker' = [worker EXCEPT ![w] = "exited"]
  /\ UNCHANGED <<task_queue_, running_, cb_task, notifying, owner, finished>>

TakeWithoutPop(w) ==
  /\ worker[w] = "locking"
  /\ task_queue_ # <<>>
  /\ cb_task' = [cb_task EXCEPT ![w] = Head(task_queue_)]
  /\ worker' = [worker EXCEPT ![w] = "running"]
  /\ UNCHANGED <<task_queue_, running_, notifying, owner, finished>>

Take(w) ==
  /\ worker[w] = "locking"
  /\ task_queue_ # <<>>
  /\ cb_task' = [cb_task EXCEPT ![w] = Head(task_queue_)]
  /\ task_queue_' = Tail(task_queue_)
  /\ worker' = [worker EXCEPT ![w] = "running"]
  /\ UNCHANGED <<running_, notifying, owner, finished>>

(* The callback returns; cb_task goes out of scope. *)
FinishKeepingTask(w) ==
  /\ worker[w] = "running" /\ w \notin notifying
  /\ finished' = finished \cup {cb_task[w]}
  /\ worker' = [worker EXCEPT ![w] = "locking"]
  /\ UNCHANGED <<task_queue_, running_, cb_task, notifying, owner>>

Finish(w) ==
  /\ worker[w] = "running" /\ w \notin notifying
  /\ finished' = finished \cup {cb_task[w]}
  /\ cb_task' = [cb_task EXCEPT ![w] = NoTask]
  /\ worker' = [worker EXCEPT ![w] = "locking"]
  /\ UNCHANGED <<task_queue_, running_, notifying, owner>>

-----------------------------------------------------------------------------
(* The destructor, called when no client is in a call of the pool.          *)
StopRunning ==
  /\ owner = "using"
  /\ notifying \cap Clients = {}
  /\ running_' = FALSE
  /\ owner' = "notifying"
  /\ UNCHANGED <<task_queue_, worker, cb_task, notifying, finished>>

NotifyAllWakingOne ==
  /\ owner = "notifying"
  /\ WakeOne
  /\ owner' = "joining"
  /\ UNCHANGED <<task_queue_, running_, cb_task, notifying, finished>>

NotifyAll ==
  /\ owner = "notifying"
  /\ WakeAll
  /\ owner' = "joining"
  /\ UNCHANGED <<task_queue_, running_, cb_task, notifying, finished>>

JoinWorkers ==
  /\ owner = "joining"
  /\ \A w \in Workers : worker[w] = "exited"
  /\ owner' = "gone"
  /\ UNCHANGED <<task_queue_, running_, worker, cb_task, notifying, finished>>

(* Nothing is left to do; not a step of the code. *)
Terminated == owner = "gone" /\ UNCHANGED vars

Threads == Workers \cup Clients

Step(w) == Wait(w) \/ Take(w) \/ Finish(w) \/ Exit(w)

Next ==
  \/ \E th \in Threads :
       \/ \E t \in Tasks : PostTask(th, t)
       \/ NotifyOne(th)
       \/ \E batch \in FreshBatches : PostBatch(th, batch)
  \/ \E w \in Workers : Step(w) \/ WakeSpuriously(w)
  \/ StopRunning \/ NotifyAll \/ JoinWorkers
  \/ Terminated

Spec == Init /\ [][Next]_vars

(***************************************************************************)
(* The operating system schedules every thread and the mutex starves none; *)
(* tasks return.  Nobody need post, destroy the pool or wake spuriously.   *)
(***************************************************************************)
Fairness ==
  /\ \A w \in Workers : WF_vars(Step(w))
  /\ \A th \in Threads : WF_vars(NotifyOne(th))
  /\ WF_vars(NotifyAll) /\ WF_vars(JoinWorkers)

FairSpec == Spec /\ Fairness

-----------------------------------------------------------------------------
TypeOK ==
  /\ task_queue_ \in Seq(Tasks)
  /\ running_ \in BOOLEAN
  /\ worker \in [Workers -> {"locking", "waiting", "running", "exited"}]
  /\ cb_task \in [Workers -> Tasks \cup {NoTask}]
  /\ \A w \in Workers : cb_task[w] = NoTask <=> worker[w] # "running"
  /\ notifying \subseteq Threads
  /\ owner \in {"using", "notifying", "joining", "gone"}
  /\ finished \subseteq Tasks

(***************************************************************************)
(* A task is in one place: queued once, or in the hands of one worker, or  *)
(* finished.                                                               *)
(***************************************************************************)
EachTaskOnce ==
  /\ IsInjective(task_queue_)
  /\ \A v, w \in Workers : cb_task[v] = cb_task[w] => v = w \/ cb_task[v] = NoTask
  /\ Range(task_queue_) \cap (Executing \cup finished) = {}
  /\ Executing \cap finished = {}

(***************************************************************************)
(* No wake-up is lost.  While any worker sleeps, every queued task is      *)
(* spoken for: by a worker that is about to take the lock, or by a poster  *)
(* that has yet to notify.  And nobody sleeps through the destructor's     *)
(* notify_all.                                                             *)
(***************************************************************************)
NoLostWakeup ==
  Waiting # {} =>
    /\ Len(task_queue_) <= Cardinality(Awake) + Cardinality(notifying)
    /\ running_ \/ owner = "notifying"

(***************************************************************************)
(* Workers, condition variable and destructor together do what TaskPool    *)
(* promises: tasks start in posting order, each runs once, and the         *)
(* destructor returns only when every posted task, those posted by other   *)
(* tasks during the shutdown included, has run.                            *)
(***************************************************************************)
TP == INSTANCE TaskPool WITH
        queued <- task_queue_, executing <- Executing,
        pool <- CASE owner = "using" -> "open"
                  [] owner = "gone"  -> "gone"
                  [] OTHER           -> "closing"

ImplementsTaskPool == TP!Spec

(* A task that was posted runs, whatever the pool's workers were doing. *)
PostedTaskFinishes ==
  \A t \in Tasks : t \in Range(task_queue_) ~> t \in finished

(* The destructor returns. *)
DestructorReturns == owner = "notifying" ~> owner = "gone"
=============================================================================
