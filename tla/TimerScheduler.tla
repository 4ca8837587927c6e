---------------------------- MODULE TimerScheduler ---------------------------
(***************************************************************************)
(* TimerScheduler (include/threading/timer_scheduler.hpp): a heap of timed *)
(* tasks, a scheduler thread that sleeps on a condition variable until the *)
(* next one is due, and a ThreadPool that runs them.  A stretch of code    *)
(* that holds mutex_ is one step; the test of running_ at the head of the  *)
(* scheduler's loop, PostTask and every notify happen without the lock and *)
(* are steps of their own.  The pool is TaskPool, which ThreadPool         *)
(* implements.                                                             *)
(***************************************************************************)
EXTENDS Naturals, Sequences, FiniteSets, Functions

CONSTANTS
  MaxTasks,      \* bound: next_id_ stops there
  MaxTime,       \* bound: the clock stops there
  NoTask

Ids == 0..MaxTasks-1

TimerTasks == [task_id : Ids, exec_time : 0..MaxTime]

ASSUME TimerSchedulerAssumption ==
  MaxTasks \in Nat /\ MaxTime \in Nat /\ NoTask \notin TimerTasks

VARIABLES
  now,             \* steady_clock
  timer_tasks_,    \* the heap, as a set
  canceled_ids_,
  next_id_,
  running_,
  scheduler,       \* where the scheduler thread is in RunScheduler
  deadline,        \* what it waits for in wait_until
  cur_timer_task,
  pushing,         \* the tasks of ScheduleOnce calls that have yet to lock
  notifying,       \* the ids of those between the unlock and notify_one
  owner,           \* the thread that starts, stops and destroys
  queued, executing, finished, pool    \* thread_pool_

shared == <<timer_tasks_, canceled_ids_, running_>>
thread == <<scheduler, deadline, cur_timer_task>>
calls  == <<next_id_, pushing, notifying>>
workers == <<queued, executing, finished, pool>>
vars == <<now, shared, thread, calls, owner, workers>>

Pool == INSTANCE TaskPool WITH Tasks <- TimerTasks, PostLimit <- 1

Dispatched == Range(queued) \cup executing \cup finished
                \cup ({cur_timer_task} \ {NoTask})

IdsOf(tasks) == {t.task_id : t \in tasks}

Init ==
  /\ now = 0
  /\ timer_tasks_ = {} /\ canceled_ids_ = {} /\ running_ = FALSE
  /\ scheduler = "none" /\ deadline = 0 /\ cur_timer_task = NoTask
  /\ next_id_ = 0 /\ pushing = {} /\ notifying = {}
  /\ owner = "stopped"
  /\ Pool!Init

Tick ==
  /\ now < MaxTime
  /\ now' = now + 1
  /\ UNCHANGED <<shared, thread, calls, owner, workers>>

(* notify on scheduler_cv_: only the scheduler thread waits there. *)
Notify ==
  scheduler' = CASE scheduler = "waitEmpty" -> "wokenEmpty"
                 [] scheduler = "waitUntil" -> "checking"
                 [] OTHER -> scheduler

-----------------------------------------------------------------------------
(***************************************************************************)
(* The callers of ScheduleOnce and Cancel: any threads, the pool's own     *)
(* included.  A call is known by its id; nobody cancels an id that has not *)
(* been returned.                                                          *)
(***************************************************************************)
Alive == owner \notin {"destroying", "gone"}

ScheduleOnce(delay) ==
  /\ Alive
  /\ next_id_ < MaxTasks /\ now + delay <= MaxTime
  /\ pushing' = pushing \cup {[task_id |-> next_id_, exec_time |-> now + delay]}
  /\ next_id_' = next_id_ + 1
  /\ UNCHANGED <<now, shared, thread, notifying, owner, workers>>

Push(t) ==
  /\ t \in pushing
  /\ timer_tasks_' = timer_tasks_ \cup {t}
  /\ pushing' = pushing \ {t}
  /\ notifying' = notifying \cup {t.task_id}
  /\ UNCHANGED <<now, canceled_ids_, running_, thread, next_id_, owner, workers>>

NotifyOneIfFirst(id) ==
  /\ id \in notifying
  /\ IF Cardinality(timer_tasks_) = 1 THEN Notify ELSE UNCHANGED scheduler
  /\ notifying' = notifying \ {id}
  /\ UNCHANGED <<now, shared, deadline, cur_timer_task, next_id_, pushing, owner, workers>>

NotifyOne(id) ==
  /\ id \in notifying
  /\ Notify
  /\ notifying' = notifying \ {id}
  /\ UNCHANGED <<now, shared, deadline, cur_timer_task, next_id_, pushing, owner, workers>>

Cancel(id) ==
  /\ Alive
  /\ id < next_id_ /\ id \notin IdsOf(pushing) \cup notifying
  /\ canceled_ids_' = canceled_ids_ \cup {id}
  /\ UNCHANGED <<now, timer_tasks_, running_, thread, calls, owner, workers>>

-----------------------------------------------------------------------------
(***************************************************************************)
(* RunScheduler.  Check is the loop's condition; the steps from "locking"  *)
(* are its branches, each under the lock.  A tie in the heap is broken     *)
(* either way.                                                             *)
(***************************************************************************)
Check ==
  /\ scheduler = "checking"
  /\ scheduler' = IF running_ THEN "locking" ELSE "exited"
  /\ UNCHANGED <<now, shared, deadline, cur_timer_task, calls, owner, workers>>

(* wait with a predicate: it is tested before sleeping and when woken. *)
WaitEmptyForStopOnly ==
  /\ \/ scheduler = "locking" /\ timer_tasks_ = {}
     \/ scheduler = "wokenEmpty"
  /\ scheduler' = IF ~running_ THEN "checking" ELSE "waitEmpty"
  /\ UNCHANGED <<now, shared, deadline, cur_timer_task, calls, owner, workers>>

WaitEmpty ==
  /\ \/ scheduler = "locking" /\ timer_tasks_ = {}
     \/ scheduler = "wokenEmpty"
  /\ scheduler' = IF ~running_ \/ timer_tasks_ # {} THEN "checking" ELSE "waitEmpty"
  /\ UNCHANGED <<now, shared, deadline, cur_timer_task, calls, owner, workers>>

IsTop(t) ==
  /\ t \in timer_tasks_
  /\ \A u \in timer_tasks_ : t.exec_time <= u.exec_time

DropCanceled(t) ==
  /\ scheduler = "locking"
  /\ IsTop(t) /\ t.task_id \in canceled_ids_
  /\ timer_tasks_' = timer_tasks_ \ {t}
  /\ canceled_ids_' = canceled_ids_ \ {t.task_id}
  /\ scheduler' = "checking"
  /\ UNCHANGED <<now, running_, deadline, cur_timer_task, calls, owner, workers>>

DispatchCanceled(t) ==
  /\ scheduler = "locking"
  /\ IsTop(t) /\ now >= t.exec_time
  /\ cur_timer_task' = t
  /\ timer_tasks_' = timer_tasks_ \ {t}
  /\ scheduler' = "posting"
  /\ UNCHANGED <<now, canceled_ids_, running_, deadline, calls, owner, workers>>

Dispatch(t) ==
  /\ scheduler = "locking"
  /\ IsTop(t) /\ t.task_id \notin canceled_ids_
  /\ now >= t.exec_time
  /\ cur_timer_task' = t
  /\ timer_tasks_' = timer_tasks_ \ {t}
  /\ scheduler' = "posting"
  /\ UNCHANGED <<now, canceled_ids_, running_, deadline, calls, owner, workers>>

(* The moved-from task goes out of scope with the loop's body. *)
PostTaskKeepingTask ==
  /\ scheduler = "posting"
  /\ Pool!Post(<<cur_timer_task>>)
  /\ scheduler' = "checking"
  /\ UNCHANGED <<now, shared, deadline, cur_timer_task, calls, owner>>

PostTask ==
  /\ scheduler = "posting"
  /\ Pool!Post(<<cur_timer_task>>)
  /\ cur_timer_task' = NoTask
  /\ scheduler' = "checking"
  /\ UNCHANGED <<now, shared, deadline, calls, owner>>

(* wait_until has no predicate: whoever wakes goes round the loop. *)
WaitUntil(t) ==
  /\ scheduler = "locking"
  /\ IsTop(t) /\ t.task_id \notin canceled_ids_
  /\ now < t.exec_time
  /\ deadline' = t.exec_time
  /\ scheduler' = "waitUntil"
  /\ UNCHANGED <<now, shared, cur_timer_task, calls, owner, workers>>

TimeOut ==
  /\ scheduler = "waitUntil" /\ now >= deadline
  /\ scheduler' = "checking"
  /\ UNCHANGED <<now, shared, deadline, cur_timer_task, calls, owner, workers>>

WakeSpuriously ==
  /\ scheduler \in {"waitEmpty", "waitUntil"}
  /\ Notify
  /\ UNCHANGED <<now, shared, deadline, cur_timer_task, calls, owner, workers>>

RunScheduler ==
  \/ Check \/ WaitEmpty
  \/ \E t \in timer_tasks_ : DropCanceled(t) \/ Dispatch(t) \/ WaitUntil(t)
  \/ PostTask \/ TimeOut

-----------------------------------------------------------------------------
(* The owner: Start, Stop in three steps, and the destructor, which calls   *)
(* Stop first and destroys thread_pool_ last.                               *)
Start ==
  /\ owner = "stopped"
  /\ running_' = TRUE
  /\ scheduler' = "checking"
  /\ owner' = "started"
  /\ UNCHANGED <<now, timer_tasks_, canceled_ids_, deadline, cur_timer_task, calls, workers>>

Stop ==
  /\ owner = "started"
  /\ running_' = FALSE
  /\ owner' = "notifying"
  /\ UNCHANGED <<now, timer_tasks_, canceled_ids_, thread, calls, workers>>

StopWithoutNotify ==
  /\ owner = "notifying"
  /\ owner' = "joining"
  /\ UNCHANGED <<now, shared, thread, calls, workers>>

NotifyAll ==
  /\ owner = "notifying"
  /\ Notify
  /\ owner' = "joining"
  /\ UNCHANGED <<now, shared, deadline, cur_timer_task, calls, workers>>

Join ==
  /\ owner = "joining" /\ scheduler = "exited"
  /\ owner' = "stopped"
  /\ UNCHANGED <<now, shared, thread, calls, workers>>

Destroy ==
  /\ owner = "stopped" /\ pushing = {} /\ notifying = {}
  /\ Pool!Close
  /\ owner' = "destroying"
  /\ UNCHANGED <<now, shared, thread, calls>>

PoolDestroyed ==
  /\ owner = "destroying"
  /\ Pool!Vanish
  /\ owner' = "gone"
  /\ UNCHANGED <<now, shared, thread, calls>>

(* The pool's workers. *)
RunTasks ==
  /\ \/ Pool!Start
     \/ \E t \in executing : Pool!Finish(t)
  /\ UNCHANGED <<now, shared, thread, calls, owner>>

(* Nothing is left to do; not a step of the code. *)
Terminated == owner = "gone" /\ UNCHANGED vars

Next ==
  \/ Tick
  \/ \E delay \in 0..MaxTime : ScheduleOnce(delay)
  \/ \E t \in pushing : Push(t)
  \/ \E id \in Ids : NotifyOne(id) \/ Cancel(id)
  \/ RunScheduler \/ WakeSpuriously
  \/ Start \/ Stop \/ NotifyAll \/ Join \/ Destroy \/ PoolDestroyed
  \/ RunTasks
  \/ Terminated

Spec == Init /\ [][Next]_vars

(***************************************************************************)
(* Time passes, the threads are scheduled, the mutex starves none, and the *)
(* pool runs what it is given (ThreadPool's PostedTaskFinishes).  Nobody   *)
(* need call, stop, or wake without a reason.                              *)
(***************************************************************************)
Fairness ==
  /\ WF_vars(Tick)
  /\ WF_vars(\E t \in pushing : Push(t))
  /\ WF_vars(\E id \in Ids : NotifyOne(id))
  /\ WF_vars(RunScheduler)
  /\ WF_vars(NotifyAll) /\ WF_vars(Join) /\ WF_vars(PoolDestroyed)
  /\ WF_vars(RunTasks)

FairSpec == Spec /\ Fairness

-----------------------------------------------------------------------------
TypeOK ==
  /\ now \in 0..MaxTime
  /\ timer_tasks_ \subseteq TimerTasks /\ canceled_ids_ \subseteq Ids
  /\ running_ \in BOOLEAN
  /\ scheduler \in {"none", "checking", "locking", "waitEmpty", "wokenEmpty",
                    "waitUntil", "posting", "exited"}
  /\ deadline \in 0..MaxTime
  /\ cur_timer_task \in TimerTasks \cup {NoTask}
  /\ cur_timer_task = NoTask <=> scheduler # "posting"
  /\ next_id_ \in 0..MaxTasks
  /\ pushing \subseteq TimerTasks /\ notifying \subseteq Ids
  /\ owner \in {"stopped", "started", "notifying", "joining", "destroying", "gone"}
  /\ queued \in Seq(TimerTasks) /\ executing \subseteq TimerTasks
  /\ finished \subseteq TimerTasks
  /\ pool \in {"open", "closing", "gone"}

(***************************************************************************)
(* The scheduler never oversleeps: while it waits, nothing in the heap is  *)
(* due before it will wake, unless the caller that pushed it has yet to    *)
(* notify; and it does not wait on an empty heap through a Stop.           *)
(***************************************************************************)
NoOversleep ==
  /\ scheduler = "waitUntil" =>
       notifying # {} \/ \A t \in timer_tasks_ : deadline <= t.exec_time
  /\ scheduler = "waitEmpty" =>
       /\ notifying # {} \/ timer_tasks_ = {}
       /\ running_ \/ owner = "notifying"

(***************************************************************************)
(* Heap, cancelled ids, scheduler thread and condition variable together   *)
(* do what TimerService promises: a task fires at most once, in time       *)
(* order, never early, never after a Cancel that came before its dispatch, *)
(* and never while the scheduler is stopped.                               *)
(***************************************************************************)
TS == INSTANCE TimerService WITH
        pending <- {t \in timer_tasks_ : t.task_id \notin canceled_ids_},
        fired   <- Dispatched,
        service <- IF owner \in {"started", "notifying", "joining"} THEN "on" ELSE "off"

ImplementsTimerService == TS!Spec

(* A task in the heap runs, unless it is cancelled or the scheduler stopped. *)
ScheduledTaskRuns ==
  \A id \in Ids :
    id \in IdsOf(timer_tasks_) ~>
      id \in IdsOf(finished) \cup canceled_ids_ \/ ~running_

(* Stop returns, if only when the next deadline has passed. *)
StopReturns == owner = "notifying" ~> owner = "stopped"

-----------------------------------------------------------------------------
(* Stop's comment, timer_scheduler.hpp:81: its notify wakes the thread so    *)
(* that it exits.  The thread that is joined is then not asleep.             *)
StopWakesScheduler == owner = "joining" => scheduler # "waitUntil"
=============================================================================
