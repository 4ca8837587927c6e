------------------------- MODULE TimerSchedulerProofs ------------------------
(***************************************************************************)
(* What is proved of TimerScheduler for any number of tasks and instants:  *)
(* the scheduler thread does not oversleep, and the whole implements       *)
(* TimerService.                                                           *)
(***************************************************************************)
EXTENDS TimerScheduler, SequenceTheorems, TLAPS

(* The pool's queue when a task is posted. *)
LEMMA PostedQueue ==
  ASSUME NEW q \in Seq(TimerTasks), NEW t \in TimerTasks
  PROVE  q \o <<t>> \in Seq(TimerTasks) /\ Range(q \o <<t>>) = Range(q) \cup {t}
<1> DEFINE b == <<t>>
<1>1. b \in Seq(TimerTasks) /\ Len(b) = 1 /\ b[1] = t
  OBVIOUS
<1> HIDE DEF b
<1>2. /\ q \o b \in Seq(TimerTasks) /\ Len(q \o b) = Len(q) + 1 /\ Len(q) \in Nat
      /\ \A i \in 1..Len(q) + 1 : (q \o b)[i] = IF i <= Len(q) THEN q[i] ELSE b[i - Len(q)]
  BY <1>1, ConcatProperties, LenProperties
<1>3. DOMAIN (q \o b) = 1..Len(q) + 1 /\ DOMAIN q = 1..Len(q)
  BY <1>2, LenProperties
<1>4. \A i \in 1..Len(q) : i \in 1..Len(q) + 1 /\ (q \o b)[i] = q[i]
  BY <1>2
<1>5. Len(q) + 1 \in 1..Len(q) + 1 /\ (q \o b)[Len(q) + 1] = t
  BY <1>1, <1>2
<1>6. \A i \in 1..Len(q) + 1 : i \in 1..Len(q) \/ i = Len(q) + 1
  BY <1>2
<1>7. Range(q \o b) \subseteq Range(q) \cup {t}
  BY <1>3, <1>4, <1>5, <1>6 DEF Range
<1>8. Range(q) \subseteq Range(q \o b)
  BY <1>3, <1>4 DEF Range
<1>9. t \in Range(q \o b)
  BY <1>3, <1>5 DEF Range
<1> QED BY <1>2, <1>7, <1>8, <1>9 DEF b

(* And when a worker takes one. *)
LEMMA TakenQueue ==
  ASSUME NEW q \in Seq(TimerTasks), q # <<>>
  PROVE  /\ Head(q) \in TimerTasks /\ Tail(q) \in Seq(TimerTasks)
         /\ Range(Tail(q)) \cup {Head(q)} = Range(q)
<1>1. /\ Tail(q) \in Seq(TimerTasks) /\ Len(Tail(q)) = Len(q) - 1 /\ Len(q) \in Nat \ {0}
      /\ \A i \in 1..Len(q)-1 : Tail(q)[i] = q[i + 1]
      /\ Head(q) = q[1] /\ Head(q) \in TimerTasks
  BY HeadTailProperties, EmptySeq
<1>2. DOMAIN Tail(q) = 1..Len(q)-1 /\ DOMAIN q = 1..Len(q)
  BY <1>1, LenProperties
<1>3. \A i \in 1..Len(q) : i = 1 \/ (i - 1 \in 1..Len(q)-1 /\ Tail(q)[i - 1] = q[i])
  BY <1>1
<1>4. \A i \in 1..Len(q)-1 : i + 1 \in 1..Len(q) /\ Tail(q)[i] = q[i + 1]
  BY <1>1
<1>5. Range(Tail(q)) \subseteq Range(q)
  BY <1>2, <1>4 DEF Range
<1>6. Head(q) \in Range(q)
  BY <1>1, <1>2 DEF Range
<1>7. Range(q) \subseteq Range(Tail(q)) \cup {Head(q)}
  <2>1. ASSUME NEW i \in 1..Len(q) PROVE q[i] \in Range(Tail(q)) \cup {Head(q)}
    <3>1. CASE i = 1
      BY <1>1, <3>1
    <3>2. CASE i # 1
      <4>1. i - 1 \in DOMAIN Tail(q) /\ Tail(q)[i - 1] = q[i]
        BY <1>2, <1>3, <3>2
      <4> QED BY <4>1 DEF Range
    <3> QED BY <3>1, <3>2
  <2> QED BY <1>2, <2>1 DEF Range
<1> QED BY <1>1, <1>5, <1>6, <1>7

-----------------------------------------------------------------------------
(* The members of the type invariant that belong to one group each. *)
HeapTypes ==
  /\ now \in 0..MaxTime
  /\ timer_tasks_ \subseteq TimerTasks /\ canceled_ids_ \subseteq Ids
  /\ running_ \in BOOLEAN

ThreadTypes ==
  /\ scheduler \in {"none", "checking", "locking", "waitEmpty", "wokenEmpty",
                    "waitUntil", "posting", "exited"}
  /\ deadline \in 0..MaxTime
  /\ cur_timer_task \in TimerTasks \cup {NoTask}
  /\ cur_timer_task = NoTask <=> scheduler # "posting"

CallTypes ==
  /\ next_id_ \in 0..MaxTasks
  /\ pushing \subseteq TimerTasks /\ notifying \subseteq Ids
  /\ owner \in {"stopped", "started", "notifying", "joining", "destroying", "gone"}

PoolTypes ==
  /\ queued \in Seq(TimerTasks) /\ executing \subseteq TimerTasks
  /\ finished \subseteq TimerTasks
  /\ pool \in {"open", "closing", "gone"}

(* The type invariant is their conjunction. *)
LEMMA TypeParts == TypeOK <=> HeapTypes /\ ThreadTypes /\ CallTypes /\ PoolTypes
BY DEF TypeOK, HeapTypes, ThreadTypes, CallTypes, PoolTypes

(* running_ is set while the owner has the scheduler started, and its thread *)
(* exists until it is joined.                                                *)
Lifecycle ==
  /\ running_ <=> owner = "started"
  /\ scheduler \notin {"none", "exited"} => owner \in {"started", "notifying", "joining"}
  /\ scheduler = "exited" => owner # "started"

(* Waking the scheduler leaves it in one of its places, not asleep. *)
LEMMA NotifyWakes ==
  ASSUME ThreadTypes, Notify
  PROVE  /\ scheduler' \in {"none", "checking", "locking", "wokenEmpty", "posting", "exited"}
         /\ scheduler' = "posting" <=> scheduler = "posting"
         /\ scheduler' \in {"none", "exited"} <=> scheduler \in {"none", "exited"}
         /\ scheduler' = "exited" => scheduler = "exited"
BY DEF ThreadTypes, Notify

(* The initial state is well-typed. *)
LEMMA InitTypeOK == Init => TypeOK
<1> SUFFICES ASSUME Init PROVE HeapTypes /\ ThreadTypes /\ CallTypes /\ PoolTypes
  BY TypeParts
<1>1. queued \in Seq(TimerTasks)
  BY EmptySeq DEF Init, Pool!Init
<1>0. 0 \in 0..MaxTime /\ 0 \in 0..MaxTasks
  BY TimerSchedulerAssumption
<1>2. HeapTypes
  BY <1>0 DEF Init, HeapTypes
<1>3. ThreadTypes
  BY <1>0 DEF Init, ThreadTypes
<1>4. CallTypes
  BY <1>0 DEF Init, CallTypes
<1>5. PoolTypes
  BY <1>1 DEF Init, Pool!Init, PoolTypes
<1> QED BY <1>2, <1>3, <1>4, <1>5

(* Every step of the scheduler thread keeps the types. *)
LEMMA SchedulerTypes ==
  ASSUME TypeOK, RunScheduler
  PROVE  TypeOK'
<1> SUFFICES HeapTypes' /\ ThreadTypes' /\ CallTypes' /\ PoolTypes'
  BY DEF TypeOK, HeapTypes, ThreadTypes, CallTypes, PoolTypes
<1>0. HeapTypes /\ ThreadTypes /\ CallTypes /\ PoolTypes
  BY TypeParts
<1> USE <1>0 DEF shared, thread, calls, workers
<1>1. CASE Check \/ WaitEmpty \/ TimeOut
  BY <1>1 DEF Check, WaitEmpty, TimeOut, HeapTypes, ThreadTypes, CallTypes, PoolTypes
<1>2. ASSUME NEW t \in timer_tasks_, DropCanceled(t) \/ WaitUntil(t)
      PROVE  HeapTypes' /\ ThreadTypes' /\ CallTypes' /\ PoolTypes'
  <2>1. t \in TimerTasks /\ t.exec_time \in 0..MaxTime
    BY DEF HeapTypes, TimerTasks
  <2> QED BY <1>2, <2>1 DEF DropCanceled, WaitUntil, HeapTypes, ThreadTypes, CallTypes, PoolTypes
<1>3. ASSUME NEW t \in timer_tasks_, Dispatch(t)
      PROVE  HeapTypes' /\ ThreadTypes' /\ CallTypes' /\ PoolTypes'
  <2>1. t \in TimerTasks /\ t # NoTask
    BY TimerSchedulerAssumption DEF HeapTypes
  <2> QED BY <1>3, <2>1 DEF Dispatch, HeapTypes, ThreadTypes, CallTypes, PoolTypes
<1>4. CASE PostTask
  <2>1. cur_timer_task \in TimerTasks
    BY <1>4 DEF PostTask, ThreadTypes
  <2>2. queued' \in Seq(TimerTasks)
    BY <1>4, <2>1, PostedQueue DEF PostTask, Pool!Post, PoolTypes
  <2> QED BY <1>4, <2>2 DEF PostTask, Pool!Post, HeapTypes, ThreadTypes, CallTypes, PoolTypes
<1> QED BY <1>1, <1>2, <1>3, <1>4 DEF RunScheduler

(* So does every other step. *)
LEMMA NextTypeOK == TypeOK /\ Lifecycle /\ [Next]_vars => TypeOK'
<1> SUFFICES ASSUME TypeOK, Lifecycle, [Next]_vars
             PROVE  HeapTypes' /\ ThreadTypes' /\ CallTypes' /\ PoolTypes'
  BY DEF TypeOK, HeapTypes, ThreadTypes, CallTypes, PoolTypes
<1>0. HeapTypes /\ ThreadTypes /\ CallTypes /\ PoolTypes
  BY TypeParts
<1> DEFINE Types == HeapTypes /\ ThreadTypes /\ CallTypes /\ PoolTypes
<1> USE DEF shared, thread, calls, workers
<1>1. ASSUME Tick PROVE Types'
  BY <1>0, <1>1, TimerSchedulerAssumption
     DEF Tick, HeapTypes, ThreadTypes, CallTypes, PoolTypes
<1>2. ASSUME NEW d \in 0..MaxTime, ScheduleOnce(d) PROVE Types'
  <2>1. next_id_ \in Ids /\ now + d \in 0..MaxTime
    BY <1>0, <1>2, TimerSchedulerAssumption DEF ScheduleOnce, HeapTypes, CallTypes, Ids
  <2>2. [task_id |-> next_id_, exec_time |-> now + d] \in TimerTasks
    BY <2>1 DEF TimerTasks
  <2>3. next_id_' \in 0..MaxTasks
    BY <1>0, <1>2, TimerSchedulerAssumption DEF ScheduleOnce, CallTypes
  <2>4. pushing' \subseteq TimerTasks
    BY <1>0, <1>2, <2>2 DEF ScheduleOnce, CallTypes
  <2> QED BY <1>0, <1>2, <2>3, <2>4
             DEF ScheduleOnce, HeapTypes, ThreadTypes, CallTypes, PoolTypes
<1>3. ASSUME NEW t \in pushing, Push(t) PROVE Types'
  <2>1. t \in TimerTasks /\ t.task_id \in Ids
    BY <1>0 DEF CallTypes, TimerTasks
  <2> QED BY <1>0, <1>3, <2>1 DEF Push, HeapTypes, ThreadTypes, CallTypes, PoolTypes
<1>4. ASSUME NEW id \in Ids, NotifyOne(id) PROVE Types'
  BY <1>0, <1>4, NotifyWakes DEF NotifyOne, HeapTypes, ThreadTypes, CallTypes, PoolTypes
<1>5. ASSUME NEW id \in Ids, Cancel(id) PROVE Types'
  BY <1>0, <1>5 DEF Cancel, HeapTypes, ThreadTypes, CallTypes, PoolTypes
<1>6. ASSUME RunScheduler PROVE Types'
  BY <1>6, SchedulerTypes, TypeParts
     DEF TypeOK, HeapTypes, ThreadTypes, CallTypes, PoolTypes
<1>7. ASSUME WakeSpuriously \/ NotifyAll PROVE Types'
  BY <1>0, <1>7, NotifyWakes
     DEF WakeSpuriously, NotifyAll, HeapTypes, ThreadTypes, CallTypes, PoolTypes
<1>8. ASSUME Start PROVE Types'
  <2>1. cur_timer_task = NoTask
    BY <1>0, <1>8 DEF Start, Lifecycle, ThreadTypes
  <2> QED BY <1>0, <1>8, <2>1 DEF Start, HeapTypes, ThreadTypes, CallTypes, PoolTypes
<1>9. ASSUME Stop \/ Join PROVE Types'
  BY <1>0, <1>9 DEF Stop, Join, HeapTypes, ThreadTypes, CallTypes, PoolTypes
<1>10. ASSUME Destroy \/ PoolDestroyed PROVE Types'
  BY <1>0, <1>10 DEF Destroy, PoolDestroyed, Pool!Close, Pool!Vanish,
                     HeapTypes, ThreadTypes, CallTypes, PoolTypes
<1>11. ASSUME RunTasks PROVE Types'
  <2>1. PoolTypes'
    BY <1>0, <1>11, TakenQueue DEF RunTasks, Pool!Start, Pool!Finish, PoolTypes
  <2> QED BY <1>0, <1>11, <2>1 DEF RunTasks, HeapTypes, ThreadTypes, CallTypes
<1>12. ASSUME UNCHANGED vars PROVE Types'
  BY <1>0, <1>12 DEF vars, HeapTypes, ThreadTypes, CallTypes, PoolTypes
<1> QED BY <1>1, <1>2, <1>3, <1>4, <1>5, <1>6, <1>7, <1>8, <1>9, <1>10, <1>11, <1>12
        DEF Next, Terminated

(* The owner's steps and the scheduler thread's follow each other.           *)
LEMMA NextLifecycle == TypeOK /\ Lifecycle /\ [Next]_vars => Lifecycle'
<1> SUFFICES ASSUME TypeOK, Lifecycle, [Next]_vars PROVE Lifecycle'
  OBVIOUS
<1>0. ThreadTypes
  BY TypeParts
<1> USE DEF Lifecycle, shared, thread, calls, workers
<1>1. ASSUME UNCHANGED <<running_, scheduler, owner>> PROVE Lifecycle'
  BY <1>1
<1>2. ASSUME NEW id \in Ids, NotifyOne(id) PROVE Lifecycle'
  BY <1>0, <1>2, NotifyWakes DEF NotifyOne
<1>3. ASSUME RunScheduler PROVE Lifecycle'
  BY <1>3 DEF RunScheduler, Check, WaitEmpty, DropCanceled, Dispatch, WaitUntil,
              PostTask, TimeOut
<1>4. ASSUME WakeSpuriously \/ NotifyAll PROVE Lifecycle'
  BY <1>0, <1>4, NotifyWakes DEF WakeSpuriously, NotifyAll
<1>5. ASSUME Start \/ Stop \/ Join \/ Destroy \/ PoolDestroyed PROVE Lifecycle'
  BY <1>5 DEF Start, Stop, Join, Destroy, PoolDestroyed
<1> QED
  BY <1>1, <1>2, <1>3, <1>4, <1>5
     DEF Next, Tick, ScheduleOnce, Push, Cancel, RunTasks, Terminated, vars

(* Initially there is no scheduler thread.                                   *)
LEMMA InitLifecycle == Init => Lifecycle
BY DEF Init, Lifecycle

(* The scheduler's variables keep their types for any number of tasks and    *)
(* instants, and it holds a task only while it posts it.                     *)
THEOREM TypeCorrect == Spec => []TypeOK
BY InitTypeOK, InitLifecycle, NextTypeOK, NextLifecycle, PTL DEF Spec

-----------------------------------------------------------------------------
(***************************************************************************)
(* No oversleeping.  A wait begins under the lock that covers the heap, so *)
(* it begins true; a push spoils it but leaves a notification due; and the *)
(* notification, like any other end of the wait, takes the thread back to  *)
(* the head of its loop.                                                   *)
(***************************************************************************)
LEMMA NextNoOversleep ==
  TypeOK /\ Lifecycle /\ NoOversleep /\ [Next]_vars => NoOversleep'
<1> SUFFICES ASSUME TypeOK, Lifecycle, NoOversleep, [Next]_vars PROVE NoOversleep'
  OBVIOUS
<1>0. ThreadTypes
  BY TypeParts
<1> USE DEF NoOversleep, shared, thread, calls, workers
<1>1. ASSUME UNCHANGED <<timer_tasks_, running_, scheduler, deadline, notifying, owner>>
      PROVE  NoOversleep'
  BY <1>1
<1>2. ASSUME NEW t \in pushing, Push(t) PROVE NoOversleep'
  BY <1>2 DEF Push
<1>3. ASSUME NEW id \in Ids, NotifyOne(id) PROVE NoOversleep'
  BY <1>0, <1>3, NotifyWakes DEF NotifyOne
<1>4. ASSUME Check \/ PostTask \/ TimeOut PROVE NoOversleep'
  BY <1>4 DEF Check, PostTask, TimeOut
<1>5. ASSUME WaitEmpty PROVE NoOversleep'
  BY <1>5 DEF WaitEmpty
<1>6. ASSUME NEW t \in timer_tasks_, DropCanceled(t) \/ Dispatch(t) PROVE NoOversleep'
  BY <1>6 DEF DropCanceled, Dispatch
<1>7. ASSUME NEW t \in timer_tasks_, WaitUntil(t) PROVE NoOversleep'
  BY <1>7 DEF WaitUntil, IsTop
<1>8. ASSUME WakeSpuriously \/ NotifyAll PROVE NoOversleep'
  BY <1>0, <1>8, NotifyWakes DEF WakeSpuriously, NotifyAll
<1>9. ASSUME Start PROVE NoOversleep'
  BY <1>9 DEF Start
<1>10. ASSUME Stop PROVE NoOversleep'
  BY <1>10 DEF Stop
<1>11. ASSUME Join PROVE NoOversleep'
  BY <1>11 DEF Join
<1>12. ASSUME Destroy \/ PoolDestroyed PROVE NoOversleep'
  BY <1>12 DEF Destroy, PoolDestroyed, Lifecycle
<1> QED
  BY <1>1, <1>2, <1>3, <1>4, <1>5, <1>6, <1>7, <1>8, <1>9, <1>10, <1>11, <1>12
     DEF Next, RunScheduler, Tick, ScheduleOnce, Cancel, RunTasks, Terminated, vars

(* For any number of tasks, callers and instants: the scheduler thread does  *)
(* not sleep past a task's time, nor on an empty heap through a Stop, unless *)
(* whoever changed that is about to notify it.                               *)
THEOREM SchedulerNeverOversleeps == Spec => []NoOversleep
<1>1. Init => NoOversleep
  BY DEF Init, NoOversleep
<1> QED
  BY <1>1, InitTypeOK, InitLifecycle, NextTypeOK, NextLifecycle, NextNoOversleep, PTL
     DEF Spec

-----------------------------------------------------------------------------
(***************************************************************************)
(* TimerScheduler implements TimerService.  What makes every step map is   *)
(* that an id stands for one task, which is in one place: in the hands of  *)
(* its ScheduleOnce, in the heap, or dispatched; and that nobody holds the *)
(* id of a task that is not in the heap yet.  So Cancel takes no more than *)
(* it was asked to, and erasing a cancelled id revives no other task.      *)
(***************************************************************************)
Known == pushing \cup timer_tasks_ \cup Dispatched

Identity ==
  /\ \A t, u \in Known : t.task_id = u.task_id => t = u
  /\ \A t \in Known : t.task_id < next_id_
  /\ pushing \cap (timer_tasks_ \cup Dispatched) = {}
  /\ timer_tasks_ \cap Dispatched = {}
  /\ \A id \in canceled_ids_ : id < next_id_ /\ id \notin IdsOf(pushing)

(* Dispatched tasks and the rest of what is known are timer tasks. *)
LEMMA KnownTypes ==
  ASSUME TypeOK
  PROVE  /\ Known \subseteq TimerTasks
         /\ Dispatched = Range(queued) \cup executing \cup finished
                           \cup (IF scheduler = "posting" THEN {cur_timer_task} ELSE {})
<1>1. Range(queued) \subseteq TimerTasks
  <2>1. DOMAIN queued = 1..Len(queued) /\ \A i \in 1..Len(queued) : queued[i] \in TimerTasks
    BY DEF TypeOK
  <2> QED BY <2>1 DEF Range
<1>2. {cur_timer_task} \ {NoTask} = IF scheduler = "posting" THEN {cur_timer_task} ELSE {}
  BY DEF TypeOK
<1>3. {cur_timer_task} \ {NoTask} \subseteq TimerTasks
  BY DEF TypeOK
<1>4. pushing \subseteq TimerTasks /\ timer_tasks_ \subseteq TimerTasks
      /\ executing \subseteq TimerTasks /\ finished \subseteq TimerTasks
  BY DEF TypeOK
<1> QED BY <1>1, <1>2, <1>3, <1>4 DEF Known, Dispatched

(* Only Dispatch adds to what is dispatched; the pool moves it on. *)
LEMMA DispatchedKept ==
  ASSUME TypeOK, PostTask \/ RunTasks
  PROVE  Dispatched' = Dispatched
<1>1. CASE PostTask
  <2>1. cur_timer_task \in TimerTasks /\ cur_timer_task # NoTask
    BY <1>1 DEF PostTask, TypeOK
  <2>2. Range(queued') = Range(queued) \cup {cur_timer_task}
    BY <1>1, <2>1, PostedQueue DEF PostTask, Pool!Post, TypeOK
  <2> QED BY <1>1, <2>1, <2>2 DEF PostTask, Pool!Post, Dispatched
<1>2. CASE RunTasks
  <2>1. cur_timer_task' = cur_timer_task
    BY <1>2 DEF RunTasks, thread
  <2>2. CASE Pool!Start
    <3>1. Range(queued') \cup {Head(queued)} = Range(queued)
      BY <2>2, TakenQueue DEF Pool!Start, TypeOK
    <3>2. executing' = executing \cup {Head(queued)} /\ finished' = finished
      BY <2>2 DEF Pool!Start
    <3> QED BY <2>1, <3>1, <3>2 DEF Dispatched
  <2>3. ASSUME NEW t \in executing, Pool!Finish(t) PROVE Dispatched' = Dispatched
    BY <2>1, <2>3 DEF Pool!Finish, Dispatched
  <2> QED BY <1>2, <2>2, <2>3 DEF RunTasks
<1> QED BY <1>1, <1>2

(* Dispatch takes one task from the heap. *)
LEMMA DispatchMoves ==
  ASSUME TypeOK, NEW t \in timer_tasks_, Dispatch(t)
  PROVE  Dispatched' = Dispatched \cup {t} /\ timer_tasks_' = timer_tasks_ \ {t}
<1>1. t # NoTask /\ cur_timer_task = NoTask
  BY TimerSchedulerAssumption DEF Dispatch, TypeOK
<1> QED BY <1>1 DEF Dispatch, workers, Dispatched

(* Every other step leaves it. *)
LEMMA DispatchedSame ==
  ASSUME UNCHANGED <<cur_timer_task, queued, executing, finished>>
  PROVE  Dispatched' = Dispatched
BY DEF Dispatched

(* An id keeps standing for one task in one place.                           *)
LEMMA NextIdentity == TypeOK /\ Identity /\ [Next]_vars => Identity'
<1> SUFFICES ASSUME TypeOK, Identity, [Next]_vars PROVE Identity'
  OBVIOUS
<1> USE DEF shared, thread, calls, workers
<1>0. next_id_ \in Nat
  BY TimerSchedulerAssumption DEF TypeOK
<1>1. ASSUME UNCHANGED <<pushing, timer_tasks_, Dispatched, next_id_, canceled_ids_>>
      PROVE  Identity'
  BY <1>1 DEF Identity, Known, IdsOf
<1>2. ASSUME UNCHANGED <<cur_timer_task, queued, executing, finished>>,
             UNCHANGED <<pushing, timer_tasks_, next_id_, canceled_ids_>>
      PROVE  Identity'
  BY <1>1, <1>2, DispatchedSame
<1>3. ASSUME NEW d \in 0..MaxTime, ScheduleOnce(d) PROVE Identity'
  <2> DEFINE t == [task_id |-> next_id_, exec_time |-> now + d]
  <2>1. t.task_id = next_id_
    OBVIOUS
  <2>2. pushing' = pushing \cup {t} /\ next_id_' = next_id_ + 1
    BY <1>3 DEF ScheduleOnce
  <2>3. Dispatched' = Dispatched /\ UNCHANGED <<timer_tasks_, canceled_ids_>>
    BY <1>3, DispatchedSame DEF ScheduleOnce
  <2> HIDE DEF t
  <2>4. Known' = Known \cup {t}
    BY <2>2, <2>3 DEF Known
  <2>5. \A u \in Known : u.task_id < next_id_ /\ u.task_id \in Nat
    BY KnownTypes DEF Identity, TimerTasks, Ids
  <2>6. t \notin Known /\ \A u \in Known : u.task_id # t.task_id
    BY <1>0, <2>1, <2>5
  <2>7. \A u, v \in Known' : u.task_id = v.task_id => u = v
    BY <2>4, <2>6 DEF Identity
  <2>8. \A u \in Known' : u.task_id < next_id_'
    BY <1>0, <2>1, <2>2, <2>4, <2>5
  <2>9. pushing' \cap (timer_tasks_' \cup Dispatched') = {}
        /\ timer_tasks_' \cap Dispatched' = {}
    BY <2>2, <2>3, <2>6 DEF Identity, Known
  <2>10. \A id \in canceled_ids_' : id < next_id_' /\ id \notin IdsOf(pushing')
    <3>1. \A id \in canceled_ids_ : id \in Nat /\ id < next_id_ /\ id \notin IdsOf(pushing)
      BY DEF Identity, TypeOK, Ids
    <3> QED BY <1>0, <2>1, <2>2, <2>3, <3>1 DEF IdsOf
  <2> QED BY <2>7, <2>8, <2>9, <2>10 DEF Identity
<1>4. ASSUME NEW t \in pushing, Push(t) PROVE Identity'
  <2>1. pushing' = pushing \ {t} /\ timer_tasks_' = timer_tasks_ \cup {t}
        /\ UNCHANGED <<next_id_, canceled_ids_>>
    BY <1>4 DEF Push
  <2>2. Dispatched' = Dispatched
    BY <1>4, DispatchedSame DEF Push
  <2>3. Known' = Known
    BY <2>1, <2>2 DEF Known
  <2>4. IdsOf(pushing') \subseteq IdsOf(pushing)
    BY <2>1 DEF IdsOf
  <2>5. pushing' \cap (timer_tasks_' \cup Dispatched') = {}
        /\ timer_tasks_' \cap Dispatched' = {}
    BY <2>1, <2>2 DEF Identity
  <2> QED BY <2>1, <2>3, <2>4, <2>5 DEF Identity
<1>5. ASSUME NEW id \in Ids, Cancel(id) PROVE Identity'
  <2>1. canceled_ids_' = canceled_ids_ \cup {id} /\ id < next_id_ /\ id \notin IdsOf(pushing)
        /\ UNCHANGED <<pushing, timer_tasks_, next_id_>>
    BY <1>5 DEF Cancel
  <2>2. Dispatched' = Dispatched
    BY <1>5, DispatchedSame DEF Cancel
  <2>3. Known' = Known /\ IdsOf(pushing') = IdsOf(pushing)
    BY <2>1, <2>2 DEF Known, IdsOf
  <2> QED BY <2>1, <2>2, <2>3 DEF Identity
<1>6. ASSUME NEW t \in timer_tasks_, DropCanceled(t) PROVE Identity'
  <2>1. timer_tasks_' = timer_tasks_ \ {t} /\ canceled_ids_' \subseteq canceled_ids_
        /\ UNCHANGED <<pushing, next_id_>>
    BY <1>6 DEF DropCanceled
  <2>2. Dispatched' = Dispatched
    BY <1>6, DispatchedSame DEF DropCanceled
  <2>3. Known' \subseteq Known /\ IdsOf(pushing') = IdsOf(pushing)
    BY <2>1, <2>2 DEF Known, IdsOf
  <2> QED BY <2>1, <2>2, <2>3 DEF Identity
<1>7. ASSUME NEW t \in timer_tasks_, Dispatch(t) PROVE Identity'
  <2>1. timer_tasks_' = timer_tasks_ \ {t} /\ Dispatched' = Dispatched \cup {t}
    BY <1>7, DispatchMoves
  <2>2. UNCHANGED <<pushing, next_id_, canceled_ids_>>
    BY <1>7 DEF Dispatch
  <2>3. Known' = Known /\ IdsOf(pushing') = IdsOf(pushing)
    BY <2>1, <2>2 DEF Known, IdsOf
  <2>4. pushing' \cap (timer_tasks_' \cup Dispatched') = {}
        /\ timer_tasks_' \cap Dispatched' = {}
    BY <2>1, <2>2 DEF Identity
  <2> QED BY <2>2, <2>3, <2>4 DEF Identity
<1>8. ASSUME PostTask \/ RunTasks PROVE Identity'
  <2>1. UNCHANGED <<pushing, timer_tasks_, next_id_, canceled_ids_>>
    BY <1>8 DEF PostTask, RunTasks
  <2> QED BY <1>1, <1>8, <2>1, DispatchedKept
<1>9. ASSUME Destroy \/ PoolDestroyed PROVE Identity'
  BY <1>2, <1>9 DEF Destroy, PoolDestroyed, Pool!Close, Pool!Vanish
<1> QED
  BY <1>2, <1>3, <1>4, <1>5, <1>6, <1>7, <1>8, <1>9
     DEF Next, RunScheduler, Tick, NotifyOne, Check, WaitEmpty, WaitUntil, TimeOut,
         WakeSpuriously, Start, Stop, NotifyAll, Join, Terminated, vars

(* Initially nothing is known.                                               *)
LEMMA InitIdentity == Init => Identity
BY DEF Init, Pool!Init, Identity, Known, Dispatched, IdsOf, Range

-----------------------------------------------------------------------------
(* The heap without what is cancelled, and whether the scheduler is on.      *)
Uncanceled == {t \in timer_tasks_ : t.task_id \notin canceled_ids_}
Service == IF owner \in {"started", "notifying", "joining"} THEN "on" ELSE "off"

(* A step of the threads is a step of TimerService or leaves it as it was.   *)
LEMMA StepSimulation ==
  TypeOK /\ Lifecycle /\ Identity /\ [Next]_vars => [TS!Next]_TS!vars
<1> SUFFICES ASSUME TypeOK, Lifecycle, Identity, [Next]_vars
             PROVE  [TS!Next]_TS!vars
  OBVIOUS
<1> USE DEF shared, thread, calls, workers
<1> DEFINE Kept == /\ now' = now /\ Uncanceled' = Uncanceled
                   /\ Dispatched' = Dispatched /\ Service' = Service
<1>0. Kept => UNCHANGED TS!vars
  BY DEF TS!vars, Uncanceled, Service
<1>1. ASSUME UNCHANGED <<now, timer_tasks_, canceled_ids_, owner>>,
             UNCHANGED <<cur_timer_task, queued, executing, finished>>
      PROVE  Kept
  BY <1>1, DispatchedSame DEF Uncanceled, Service
<1>2. ASSUME Tick PROVE TS!Next
  <2>1. Uncanceled' = Uncanceled /\ Service' = Service /\ Dispatched' = Dispatched
    BY <1>2, DispatchedSame DEF Tick, Uncanceled, Service
  <2>2. TS!Advance
    BY <1>2, <2>1 DEF Tick, TS!Advance, Uncanceled, Service
  <2> QED BY <2>2 DEF TS!Next
<1>3. ASSUME NEW t \in pushing, Push(t) PROVE TS!Next
  <2>1. t \in TimerTasks /\ t.task_id \notin canceled_ids_
    BY DEF TypeOK, Identity, IdsOf
  <2>2. UNCHANGED <<now, canceled_ids_, owner>> /\ timer_tasks_' = timer_tasks_ \cup {t}
    BY <1>3 DEF Push
  <2>3. Dispatched' = Dispatched
    BY <1>3, DispatchedSame DEF Push
  <2>4. Uncanceled' = Uncanceled \cup {t}
    BY <2>1, <2>2 DEF Uncanceled
  <2>5. \A u \in Uncanceled \cup Dispatched : u.task_id # t.task_id
    BY DEF Identity, Known, Uncanceled
  <2>6. TS!Schedule(t)
    BY <2>2, <2>3, <2>4, <2>5 DEF TS!Schedule, Uncanceled
  <2> QED BY <2>1, <2>6 DEF TS!Next
<1>4. ASSUME NEW id \in Ids, Cancel(id) PROVE TS!Next
  <2> DEFINE any == [task_id |-> id, exec_time |-> now]
  <2>1. any \in TimerTasks /\ any.task_id = id
    BY DEF TimerTasks, TypeOK
  <2>2. UNCHANGED <<now, timer_tasks_, owner>> /\ canceled_ids_' = canceled_ids_ \cup {id}
    BY <1>4 DEF Cancel
  <2>3. Dispatched' = Dispatched
    BY <1>4, DispatchedSame DEF Cancel
  <2>4. Uncanceled' = {t \in Uncanceled : t.task_id # id}
    BY <2>2 DEF Uncanceled
  <2>5. TS!Cancel(id)
    BY <2>2, <2>3, <2>4 DEF TS!Cancel, Uncanceled
  <2> HIDE DEF any
  <2> QED BY <2>1, <2>5 DEF TS!Next
<1>5. ASSUME NEW t \in timer_tasks_, DropCanceled(t) PROVE Kept
  <2>1. UNCHANGED <<now, owner>> /\ timer_tasks_' = timer_tasks_ \ {t}
        /\ canceled_ids_' = canceled_ids_ \ {t.task_id} /\ t.task_id \in canceled_ids_
    BY <1>5 DEF DropCanceled
  <2>2. Dispatched' = Dispatched
    BY <1>5, DispatchedSame DEF DropCanceled
  <2>3. \A u \in timer_tasks_ \ {t} : u.task_id # t.task_id
    BY DEF Identity, Known
  <2>4. Uncanceled' = Uncanceled
    BY <2>1, <2>3 DEF Uncanceled
  <2> QED BY <2>1, <2>2, <2>4 DEF Service
<1>6. ASSUME NEW t \in timer_tasks_, Dispatch(t) PROVE TS!Next
  <2>1. timer_tasks_' = timer_tasks_ \ {t} /\ Dispatched' = Dispatched \cup {t}
    BY <1>6, DispatchMoves
  <2>2. UNCHANGED <<now, canceled_ids_, owner>> /\ t.task_id \notin canceled_ids_
        /\ scheduler = "locking" /\ now >= t.exec_time
        /\ \A u \in timer_tasks_ : t.exec_time <= u.exec_time
    BY <1>6 DEF Dispatch, IsTop
  <2>3. t \in TimerTasks /\ t.exec_time <= now
    BY <2>2 DEF TypeOK, TimerTasks
  <2>4. Uncanceled' = Uncanceled \ {t} /\ t \in Uncanceled
    BY <2>1, <2>2 DEF Uncanceled
  <2>5. Service = "on" /\ Service' = Service
    BY <2>2 DEF Lifecycle, Service
  <2>6. \A u \in Uncanceled : t.exec_time <= u.exec_time
    BY <2>2 DEF Uncanceled
  <2>7. TS!Fire(t)
    BY <2>1, <2>2, <2>3, <2>4, <2>5, <2>6 DEF TS!Fire, Uncanceled, Service
  <2> QED BY <2>3, <2>7 DEF TS!Next
<1>7. ASSUME PostTask \/ RunTasks PROVE Kept
  <2>1. UNCHANGED <<now, timer_tasks_, canceled_ids_, owner>>
    BY <1>7 DEF PostTask, RunTasks
  <2> QED BY <1>7, <2>1, DispatchedKept DEF Uncanceled, Service
<1>8. ASSUME Start \/ Join PROVE TS!Next
  <2>1. UNCHANGED <<now, timer_tasks_, canceled_ids_>>
        /\ UNCHANGED <<cur_timer_task, queued, executing, finished>>
        /\ Service' # Service
    BY <1>8 DEF Start, Join, Service
  <2>2. Uncanceled' = Uncanceled /\ Dispatched' = Dispatched /\ Service' \in {"off", "on"}
    BY <2>1, DispatchedSame DEF Uncanceled, Service
  <2>3. TS!Switch
    BY <2>1, <2>2 DEF TS!Switch, Uncanceled, Service
  <2> QED BY <2>3 DEF TS!Next
<1>9. ASSUME Stop \/ NotifyAll \/ Destroy \/ PoolDestroyed PROVE Kept
  <2>1. UNCHANGED <<now, timer_tasks_, canceled_ids_>>
        /\ UNCHANGED <<cur_timer_task, queued, executing, finished>>
        /\ Service' = Service
    BY <1>9 DEF Stop, NotifyAll, Destroy, PoolDestroyed, Pool!Close, Pool!Vanish, Service
  <2> QED BY <2>1, DispatchedSame DEF Uncanceled
<1> HIDE DEF Kept
<1>10. ASSUME UNCHANGED vars PROVE Kept
  BY <1>1, <1>10 DEF vars
<1>11. ASSUME \/ \E d \in 0..MaxTime : ScheduleOnce(d)
              \/ \E id \in Ids : NotifyOne(id)
              \/ Check \/ WaitEmpty \/ TimeOut \/ WakeSpuriously
              \/ \E t \in timer_tasks_ : WaitUntil(t)
       PROVE  Kept
  BY <1>1, <1>11 DEF ScheduleOnce, NotifyOne, Check, WaitEmpty, TimeOut, WakeSpuriously,
                     WaitUntil
<1> QED
  BY <1>0, <1>2, <1>3, <1>4, <1>5, <1>6, <1>7, <1>8, <1>9, <1>10, <1>11
     DEF Next, RunScheduler, Terminated

(* For any number of tasks, callers and instants: a task fires at most once, *)
(* in time order, never early, never after a Cancel that came before its     *)
(* dispatch, and never once Stop has returned.                               *)
THEOREM TimerSchedulerImplementsTimerService == Spec => ImplementsTimerService
<1>1. Init => TS!Init
  BY DEF Init, Pool!Init, TS!Init, Dispatched, Range
<1> QED
  BY <1>1, InitTypeOK, InitLifecycle, InitIdentity, NextTypeOK, NextLifecycle,
     NextIdentity, StepSimulation, PTL
     DEF Spec, ImplementsTimerService, TS!Spec
=============================================================================
