--------------------------- MODULE ThreadPoolProofs --------------------------
(***************************************************************************)
(* What is proved of ThreadPool for any number of workers, clients and     *)
(* tasks: no wake-up is lost, a task is in one place, and (given one       *)
(* worker at least) the pool implements TaskPool.                          *)
(***************************************************************************)
EXTENDS ThreadPool, FiniteSetTheorems, SequenceTheorems, TLAPS

(* running_ is cleared by the destructor and by nothing else, and nobody     *)
(* leaves WorkerLoop before that.                                            *)
Lifecycle ==
  /\ running_ <=> owner = "using"
  /\ \A w \in Workers : worker[w] = "exited" => ~running_

IInv == TypeOK /\ Lifecycle /\ NoLostWakeup

-----------------------------------------------------------------------------
(* A batch is a sequence of tasks that nobody has posted. *)
LEMMA BatchIsSequence ==
  ASSUME NEW b \in FreshBatches
  PROVE  b \in Seq(Tasks) /\ IsInjective(b) /\ \A i \in 1..Len(b) : b[i] \notin Posted
<1>1. PICK n \in 0..PostLimit : b \in [1..n -> Tasks \ Posted]
  BY DEF FreshBatches
<1>2. n \in Nat
  BY ThreadPoolAssumption
<1>3. b \in Seq(Tasks) /\ Len(b) = n
  BY <1>1, <1>2
<1> QED BY <1>1, <1>3 DEF FreshBatches

(* Every wake-up leaves a worker in one of its places. *)
LEMMA WakingTypes ==
  ASSUME TypeOK, WakeAll \/ WakeOne
  PROVE  /\ worker' \in [Workers -> {"locking", "waiting", "running", "exited"}]
         /\ \A w \in Workers : worker[w] # "waiting" => worker'[w] = worker[w]
         /\ \A w \in Workers : worker[w] = "waiting" => worker'[w] \in {"waiting", "locking"}
BY DEF TypeOK, WakeAll, WakeOne, Waiting

(* Every initial state is well-typed. *)
LEMMA InitTypeOK == Init => TypeOK
BY DEF Init, TypeOK, Threads

(* Every step keeps it. *)
LEMMA NextTypeOK == TypeOK /\ [Next]_vars => TypeOK'
<1> SUFFICES ASSUME TypeOK, [Next]_vars PROVE TypeOK'
  OBVIOUS
<1> USE DEF TypeOK
<1>1. ASSUME NEW th \in Threads, NEW t \in Tasks, PostTask(th, t) PROVE TypeOK'
  BY <1>1 DEF PostTask, Threads
<1>2. ASSUME NEW th \in Threads, NotifyOne(th) PROVE TypeOK'
  BY <1>2, WakingTypes DEF NotifyOne
<1>3. ASSUME NEW th \in Threads, NEW b \in FreshBatches, PostBatch(th, b) PROVE TypeOK'
  <2>1. task_queue_' \in Seq(Tasks)
    BY <1>3, BatchIsSequence, ConcatProperties DEF PostBatch
  <2> QED BY <1>3, <2>1, WakingTypes DEF PostBatch
<1>4. ASSUME NEW w \in Workers, Wait(w) \/ WakeSpuriously(w) \/ Exit(w) PROVE TypeOK'
  BY <1>4 DEF Wait, WakeSpuriously, Exit
<1>5. ASSUME NEW w \in Workers, Take(w) PROVE TypeOK'
  <2>1. Head(task_queue_) \in Tasks /\ Tail(task_queue_) \in Seq(Tasks)
    BY <1>5 DEF Take
  <2> QED BY <1>5, <2>1, ThreadPoolAssumption DEF Take
<1>6. ASSUME NEW w \in Workers, Finish(w) PROVE TypeOK'
  BY <1>6, ThreadPoolAssumption DEF Finish
<1>7. CASE StopRunning \/ NotifyAll \/ JoinWorkers
  BY <1>7, WakingTypes DEF StopRunning, NotifyAll, JoinWorkers
<1>8. CASE UNCHANGED vars
  BY <1>8 DEF vars
<1> QED BY <1>1, <1>2, <1>3, <1>4, <1>5, <1>6, <1>7, <1>8 DEF Next, Step, Terminated

(* The pool's variables keep their types and no worker holds a task it does  *)
(* not run.                                                                  *)
THEOREM TypeCorrect == Spec => []TypeOK
BY InitTypeOK, NextTypeOK, PTL DEF Spec

-----------------------------------------------------------------------------
(***************************************************************************)
(* No lost wake-up, by counting: the wait predicate lets a worker sleep    *)
(* only on an empty queue, and from then on every push adds a poster to    *)
(* notifying, every notify_one turns one of those into an awake worker,    *)
(* and every awake worker that goes away takes one task with it.           *)
(***************************************************************************)

(* The sets that are counted are finite. *)
LEMMA FiniteCounts ==
  ASSUME TypeOK
  PROVE  /\ IsFiniteSet(Awake) /\ Cardinality(Awake) \in Nat
         /\ IsFiniteSet(notifying) /\ Cardinality(notifying) \in Nat
         /\ Len(task_queue_) \in Nat
<1>1. IsFiniteSet(Workers) /\ IsFiniteSet(Clients)
  BY ThreadPoolAssumption
<1>2. IsFiniteSet(Threads)
  BY <1>1, FS_Union DEF Threads
<1>3. Awake \in SUBSET Workers /\ notifying \in SUBSET Threads
  BY DEF Awake, TypeOK
<1>4. IsFiniteSet(Awake) /\ IsFiniteSet(notifying)
  BY <1>1, <1>2, <1>3, FS_Subset
<1> QED BY <1>4, FS_CardinalityType, LenProperties DEF TypeOK

(* Also after a step. *)
LEMMA FiniteCountsNext ==
  ASSUME TypeOK'
  PROVE  Cardinality(Awake') \in Nat /\ Cardinality(notifying') \in Nat
<1>1. IsFiniteSet(Workers) /\ IsFiniteSet(Clients)
  BY ThreadPoolAssumption
<1>2. IsFiniteSet(Threads)
  BY <1>1, FS_Union DEF Threads
<1>3. Awake' \in SUBSET Workers /\ notifying' \in SUBSET Threads
  BY DEF Awake, TypeOK, Threads
<1>4. IsFiniteSet(Awake') /\ IsFiniteSet(notifying')
  BY <1>1, <1>2, <1>3, FS_Subset
<1> QED BY <1>4, FS_CardinalityType

(* A worker that turns from waiting or running to locking is one more awake. *)
LEMMA OneMoreAwake ==
  ASSUME TypeOK, NEW w \in Workers, worker[w] # "locking",
         worker' = [worker EXCEPT ![w] = "locking"]
  PROVE  Cardinality(Awake') = Cardinality(Awake) + 1 /\ Waiting' \subseteq Waiting
<1>1. Awake' = Awake \cup {w} /\ w \notin Awake
  BY DEF TypeOK, Awake
<1>2. Cardinality(Awake') = Cardinality(Awake) + 1
  BY <1>1, FiniteCounts, FS_AddElement
<1>3. Waiting' \subseteq Waiting
  BY DEF TypeOK, Waiting
<1> QED BY <1>2, <1>3

(* And one that leaves locking is one fewer. *)
LEMMA OneFewerAwake ==
  ASSUME TypeOK, NEW w \in Workers, worker[w] = "locking",
         NEW place, place # "locking", worker' = [worker EXCEPT ![w] = place]
  PROVE  Cardinality(Awake') = Cardinality(Awake) - 1
<1>1. Awake' = Awake \ {w} /\ w \in Awake
  BY DEF TypeOK, Awake
<1> QED BY <1>1, FiniteCounts, FS_RemoveElement

(* notify_all leaves nobody waiting. *)
LEMMA NobodyWaits ==
  ASSUME TypeOK, WakeAll
  PROVE  Waiting' = {}
BY DEF TypeOK, WakeAll, Waiting

(* No step loses a wake-up. *)
LEMMA NextNoLostWakeup ==
  ASSUME IInv, [Next]_vars
  PROVE  NoLostWakeup'
<1>1. TypeOK /\ TypeOK'
  BY NextTypeOK DEF IInv
<1>2. /\ Cardinality(Awake) \in Nat /\ Cardinality(notifying) \in Nat
      /\ Len(task_queue_) \in Nat /\ IsFiniteSet(notifying)
  BY <1>1, FiniteCounts
<1>3. Waiting # {} => /\ Len(task_queue_) <= Cardinality(Awake) + Cardinality(notifying)
                      /\ running_ \/ owner = "notifying"
  BY DEF IInv, NoLostWakeup
<1>4. ASSUME NEW th \in Threads, NEW t \in Tasks, PostTask(th, t) PROVE NoLostWakeup'
  <2>1. Len(task_queue_') = Len(task_queue_) + 1
    BY <1>1, <1>4, AppendProperties DEF PostTask, TypeOK
  <2>2. Cardinality(notifying') = Cardinality(notifying) + 1
    BY <1>2, <1>4, FS_AddElement DEF PostTask, MayPost
  <2>3. Awake' = Awake /\ Waiting' = Waiting /\ owner' = owner /\ running_' = running_
    BY <1>4 DEF PostTask, Awake, Waiting
  <2> QED BY <1>2, <1>3, <2>1, <2>2, <2>3 DEF NoLostWakeup
<1>5. ASSUME NEW th \in Threads, NotifyOne(th) PROVE NoLostWakeup'
  <2>1. Cardinality(notifying') = Cardinality(notifying) - 1
    BY <1>2, <1>5, FS_RemoveElement DEF NotifyOne
  <2>2. task_queue_' = task_queue_ /\ owner' = owner /\ running_' = running_
    BY <1>5 DEF NotifyOne
  <2>3. CASE Waiting = {} /\ UNCHANGED worker
    BY <2>3 DEF NoLostWakeup, Waiting
  <2>4. ASSUME NEW w \in Waiting, worker' = [worker EXCEPT ![w] = "locking"]
        PROVE  NoLostWakeup'
    <3>1. Cardinality(Awake') = Cardinality(Awake) + 1
      BY <1>1, <2>4, OneMoreAwake DEF Waiting
    <3> QED BY <1>2, <1>3, <2>1, <2>2, <2>4, <3>1 DEF NoLostWakeup
  <2> QED BY <1>5, <2>3, <2>4 DEF NotifyOne, WakeOne
<1>6. ASSUME NEW th \in Threads, NEW b \in FreshBatches, PostBatch(th, b) PROVE NoLostWakeup'
  BY <1>1, <1>6, NobodyWaits DEF PostBatch, NoLostWakeup
<1>7. ASSUME NEW w \in Workers, Wait(w) PROVE NoLostWakeup'
  <2>1. Len(task_queue_') = 0 /\ running_'
    BY <1>7 DEF Wait
  <2> QED BY <1>1, <2>1, FiniteCountsNext DEF NoLostWakeup
<1>8. ASSUME NEW w \in Workers, WakeSpuriously(w) PROVE NoLostWakeup'
  <2>1. Cardinality(Awake') = Cardinality(Awake) + 1 /\ Waiting' \subseteq Waiting
    BY <1>1, <1>8, OneMoreAwake DEF WakeSpuriously
  <2> QED BY <1>2, <1>3, <1>8, <2>1 DEF WakeSpuriously, NoLostWakeup
<1>9. ASSUME NEW w \in Workers, Exit(w) PROVE NoLostWakeup'
  <2>1. Len(task_queue_') = 0 /\ Waiting' \subseteq Waiting
        /\ owner' = owner /\ running_' = running_
    BY <1>1, <1>9 DEF Exit, Waiting, TypeOK
  <2> QED BY <1>1, <1>3, <2>1, FiniteCountsNext DEF NoLostWakeup
<1>10. ASSUME NEW w \in Workers, Take(w) PROVE NoLostWakeup'
  <2>1. Cardinality(Awake') = Cardinality(Awake) - 1
    BY <1>1, <1>10, OneFewerAwake DEF Take
  <2>2. Len(task_queue_') = Len(task_queue_) - 1
    BY <1>1, <1>10, HeadTailProperties DEF Take, TypeOK
  <2>3. Waiting' = Waiting /\ notifying' = notifying /\ owner' = owner /\ running_' = running_
    BY <1>1, <1>10 DEF Take, Waiting, TypeOK
  <2> QED BY <1>2, <1>3, <2>1, <2>2, <2>3 DEF NoLostWakeup
<1>11. ASSUME NEW w \in Workers, Finish(w) PROVE NoLostWakeup'
  <2>1. Cardinality(Awake') = Cardinality(Awake) + 1 /\ Waiting' \subseteq Waiting
    BY <1>1, <1>11, OneMoreAwake DEF Finish
  <2> QED BY <1>2, <1>3, <1>11, <2>1 DEF Finish, NoLostWakeup
<1>12. CASE StopRunning
  BY <1>3, <1>12 DEF StopRunning, NoLostWakeup, Waiting, Awake
<1>13. CASE NotifyAll
  BY <1>1, <1>13, NobodyWaits DEF NotifyAll, NoLostWakeup
<1>14. CASE JoinWorkers
  BY <1>14 DEF JoinWorkers, NoLostWakeup, Waiting
<1>15. CASE UNCHANGED vars
  BY <1>3, <1>15 DEF vars, NoLostWakeup, Waiting, Awake
<1> QED BY <1>4, <1>5, <1>6, <1>7, <1>8, <1>9, <1>10, <1>11, <1>12, <1>13, <1>14, <1>15
        DEF Next, Step, Terminated

(* The destructor alone clears running_, and workers leave after it has. *)
LEMMA NextLifecycle ==
  ASSUME TypeOK, Lifecycle, [Next]_vars
  PROVE  Lifecycle'
<1> USE DEF Lifecycle
<1>1. ASSUME NEW th \in Threads, NEW t \in Tasks, PostTask(th, t) PROVE Lifecycle'
  BY <1>1 DEF PostTask
<1>2. ASSUME NEW th \in Threads, NotifyOne(th) PROVE Lifecycle'
  BY <1>2, WakingTypes DEF NotifyOne, TypeOK
<1>3. ASSUME NEW th \in Threads, NEW b \in FreshBatches, PostBatch(th, b) PROVE Lifecycle'
  BY <1>3, WakingTypes DEF PostBatch, TypeOK
<1>4. ASSUME NEW w \in Workers, Step(w) \/ WakeSpuriously(w) PROVE Lifecycle'
  BY <1>4 DEF Step, Wait, WakeSpuriously, Exit, Take, Finish, TypeOK
<1>5. CASE StopRunning \/ NotifyAll \/ JoinWorkers
  BY <1>5, WakingTypes DEF StopRunning, NotifyAll, JoinWorkers, TypeOK
<1>6. CASE UNCHANGED vars
  BY <1>6 DEF vars
<1> QED BY <1>1, <1>2, <1>3, <1>4, <1>5, <1>6 DEF Next, Terminated

(* Initially every worker is awake. *)
LEMMA InitIInv == Init => IInv
<1> SUFFICES ASSUME Init PROVE IInv
  OBVIOUS
<1>1. TypeOK
  BY InitTypeOK
<1>2. Lifecycle
  BY DEF Init, Lifecycle
<1>3. Waiting = {}
  BY DEF Init, Waiting
<1> QED BY <1>1, <1>2, <1>3 DEF IInv, NoLostWakeup

(* The three parts are inductive together. *)
LEMMA NextIInv == IInv /\ [Next]_vars => IInv'
BY NextTypeOK, NextLifecycle, NextNoLostWakeup DEF IInv

(* For any number of workers, posters and tasks: while a worker sleeps, each *)
(* queued task has a worker or a notification on its way to it.              *)
THEOREM NoWakeupIsLost == Spec => []NoLostWakeup
<1>1. IInv => NoLostWakeup
  BY DEF IInv
<1> QED BY <1>1, InitIInv, NextIInv, PTL DEF Spec

-----------------------------------------------------------------------------
(***************************************************************************)
(* A task is in one place.  What a worker runs is counted by cb_task alone *)
(* (TypeOK), which turns Executing into the range of cb_task.              *)
(***************************************************************************)

(* Executing is what the workers hold. *)
LEMMA ExecutingHeld ==
  ASSUME TypeOK
  PROVE  /\ Executing = {cb_task[w] : w \in {v \in Workers : cb_task[v] # NoTask}}
         /\ Executing \subseteq Tasks /\ NoTask \notin Executing
BY ThreadPoolAssumption DEF TypeOK, Executing

(* The queue's tasks, element by element. *)
LEMMA QueuedTasks ==
  ASSUME NEW q \in Seq(Tasks)
  PROVE  Range(q) = {q[i] : i \in 1..Len(q)} /\ Range(q) \subseteq Tasks
BY DEF Range

(* Appending fresh, distinct tasks keeps the queue free of repetitions. *)
LEMMA ConcatInjective ==
  ASSUME NEW q \in Seq(Tasks), NEW b \in Seq(Tasks), IsInjective(q), IsInjective(b),
         \A i \in 1..Len(b) : b[i] \notin Range(q)
  PROVE  IsInjective(q \o b) /\ Range(q \o b) = Range(q) \cup Range(b)
<1>1. /\ q \o b \in Seq(Tasks) /\ Len(q \o b) = Len(q) + Len(b)
      /\ Len(q) \in Nat /\ Len(b) \in Nat
      /\ \A i \in 1..Len(q) + Len(b) :
           (q \o b)[i] = IF i <= Len(q) THEN q[i] ELSE b[i - Len(q)]
  BY ConcatProperties, LenProperties
<1>2. DOMAIN (q \o b) = 1..Len(q) + Len(b) /\ DOMAIN q = 1..Len(q) /\ DOMAIN b = 1..Len(b)
  BY <1>1, LenProperties
<1>3. \A i \in 1..Len(q) + Len(b) : i <= Len(q) => i \in 1..Len(q) /\ q[i] \in Range(q)
  BY <1>1, <1>2 DEF Range
<1>4. \A i \in 1..Len(q) + Len(b) : ~(i <= Len(q)) => i - Len(q) \in 1..Len(b)
  BY <1>1
<1>5. ASSUME NEW i \in 1..Len(q) + Len(b), NEW j \in 1..Len(q) + Len(b),
             (q \o b)[i] = (q \o b)[j]
      PROVE  i = j
  <2>1. CASE i <= Len(q) /\ j <= Len(q)
    BY <1>1, <1>2, <1>3, <1>5, <2>1 DEF IsInjective
  <2>2. CASE i <= Len(q) /\ ~(j <= Len(q))
    BY <1>1, <1>3, <1>4, <1>5, <2>2
  <2>3. CASE ~(i <= Len(q)) /\ j <= Len(q)
    BY <1>1, <1>3, <1>4, <1>5, <2>3
  <2>4. CASE ~(i <= Len(q)) /\ ~(j <= Len(q))
    <3>1. i - Len(q) = j - Len(q)
      BY <1>1, <1>2, <1>4, <1>5, <2>4 DEF IsInjective
    <3> QED BY <1>1, <3>1
  <2> QED BY <2>1, <2>2, <2>3, <2>4
<1>6. Range(q \o b) = Range(q) \cup Range(b)
  <2>1. Range(q \o b) \subseteq Range(q) \cup Range(b)
    BY <1>1, <1>2, <1>3, <1>4 DEF Range
  <2>2. ASSUME NEW i \in 1..Len(q) PROVE q[i] \in Range(q \o b)
    <3>1. (q \o b)[i] = q[i] /\ i \in DOMAIN (q \o b)
      BY <1>1, <1>2
    <3> QED BY <3>1 DEF Range
  <2>3. ASSUME NEW i \in 1..Len(b) PROVE b[i] \in Range(q \o b)
    <3>1. (q \o b)[i + Len(q)] = b[i] /\ i + Len(q) \in DOMAIN (q \o b)
      BY <1>1, <1>2
    <3> QED BY <3>1 DEF Range
  <2>4. Range(q) \cup Range(b) \subseteq Range(q \o b)
    <3>1. Range(q) = {q[i] : i \in 1..Len(q)} /\ Range(b) = {b[i] : i \in 1..Len(b)}
      BY <1>2 DEF Range
    <3> QED BY <2>2, <2>3, <3>1
  <2> QED BY <2>1, <2>4
<1> QED BY <1>2, <1>5, <1>6 DEF IsInjective

(* Popping removes exactly the head. *)
LEMMA TailInjective ==
  ASSUME NEW q \in Seq(Tasks), q # <<>>, IsInjective(q)
  PROVE  /\ IsInjective(Tail(q)) /\ Range(Tail(q)) = Range(q) \ {Head(q)}
         /\ Head(q) \in Range(q)
<1>1. /\ Tail(q) \in Seq(Tasks) /\ Len(Tail(q)) = Len(q) - 1 /\ Len(q) \in Nat \ {0}
      /\ \A i \in 1..Len(q)-1 : Tail(q)[i] = q[i + 1]
      /\ Head(q) = q[1]
  BY HeadTailProperties, EmptySeq
<1>2. DOMAIN Tail(q) = 1..Len(q)-1 /\ DOMAIN q = 1..Len(q)
  BY <1>1, LenProperties
<1>3. IsInjective(Tail(q))
  BY <1>1, <1>2 DEF IsInjective
<1>4. \A i \in 1..Len(q) : i = 1 \/ (i - 1 \in 1..Len(q)-1 /\ Tail(q)[i - 1] = q[i])
  BY <1>1
<1>5. \A i \in 1..Len(q)-1 : Tail(q)[i] \in Range(q) /\ Tail(q)[i] # Head(q)
  BY <1>1, <1>2 DEF Range, IsInjective
<1>6. Range(Tail(q)) \subseteq Range(q) \ {Head(q)}
  BY <1>2, <1>5 DEF Range
<1>7. ASSUME NEW i \in 1..Len(q), q[i] # Head(q) PROVE q[i] \in Range(Tail(q))
  <2>1. i - 1 \in DOMAIN Tail(q) /\ Tail(q)[i - 1] = q[i]
    BY <1>1, <1>2, <1>4, <1>7
  <2> QED BY <2>1 DEF Range
<1>8. Range(q) \ {Head(q)} \subseteq Range(Tail(q))
  BY <1>2, <1>7 DEF Range
<1>9. Head(q) \in Range(q)
  BY <1>1, <1>2 DEF Range
<1> QED BY <1>3, <1>6, <1>8, <1>9

(* What is run changes only where cb_task does. *)
LEMMA ExecutingKept ==
  ASSUME TypeOK, TypeOK', cb_task' = cb_task
  PROVE  Executing' = Executing
<1>1. \A w \in Workers : worker[w] = "running" <=> worker'[w] = "running"
  BY DEF TypeOK
<1> QED BY <1>1 DEF Executing

(* Taking a task moves it from the queue to what is run. *)
LEMMA TakeMoves ==
  ASSUME TypeOK, EachTaskOnce, NEW w \in Workers, Take(w)
  PROVE  /\ Executing' = Executing \cup {Head(task_queue_)}
         /\ Head(task_queue_) \in Range(task_queue_)
         /\ Range(task_queue_') = Range(task_queue_) \ {Head(task_queue_)}
         /\ IsInjective(task_queue_')
<1>1. worker[w] # "running" /\ w \notin {v \in Workers : worker[v] = "running"}
  BY DEF Take
<1>2. {v \in Workers : worker'[v] = "running"} = {v \in Workers : worker[v] = "running"} \cup {w}
  BY DEF Take, TypeOK
<1>3. cb_task'[w] = Head(task_queue_) /\ \A v \in Workers \ {w} : cb_task'[v] = cb_task[v]
  BY DEF Take, TypeOK
<1>4. Executing' = Executing \cup {Head(task_queue_)}
  BY <1>1, <1>2, <1>3 DEF Executing
<1> QED BY <1>4, TailInjective DEF Take, TypeOK, EachTaskOnce

(* Finishing moves it from what is run to what is finished. *)
LEMMA FinishMoves ==
  ASSUME TypeOK, EachTaskOnce, NEW w \in Workers, Finish(w)
  PROVE  /\ Executing' = Executing \ {cb_task[w]}
         /\ cb_task[w] \in Executing
         /\ finished' = finished \cup {cb_task[w]}
<1>1. cb_task[w] \in Executing /\ cb_task[w] # NoTask
  BY DEF Finish, Executing, TypeOK
<1>2. {v \in Workers : worker'[v] = "running"} = {v \in Workers : worker[v] = "running"} \ {w}
  BY DEF Finish, TypeOK
<1>3. \A v \in Workers \ {w} : cb_task'[v] = cb_task[v]
  BY DEF Finish, TypeOK
<1>4. \A v \in Workers \ {w} : cb_task[v] # cb_task[w]
  BY <1>1 DEF EachTaskOnce
<1>5. Executing' = Executing \ {cb_task[w]}
  BY <1>2, <1>3, <1>4 DEF Executing
<1> QED BY <1>1, <1>5 DEF Finish

(* A posted task is in one place only, at every step. *)
LEMMA NextEachTaskOnce == TypeOK /\ TypeOK' /\ EachTaskOnce /\ [Next]_vars => EachTaskOnce'
<1> SUFFICES ASSUME TypeOK, TypeOK', EachTaskOnce, [Next]_vars PROVE EachTaskOnce'
  OBVIOUS
<1>1. ASSUME NEW th \in Threads, NEW t \in Tasks, PostTask(th, t) PROVE EachTaskOnce'
  <2> DEFINE b == <<t>>
  <2>1. b \in Seq(Tasks) /\ Len(b) = 1 /\ b[1] = t /\ IsInjective(b) /\ Range(b) = {t}
    BY DEF IsInjective, Range
  <2>2. task_queue_' = task_queue_ \o b
    BY <1>1, AppendIsConcat DEF PostTask, TypeOK
  <2> HIDE DEF b
  <2>3. t \notin Posted
    BY <1>1 DEF PostTask
  <2>4. IsInjective(task_queue_') /\ Range(task_queue_') = Range(task_queue_) \cup {t}
    BY <2>1, <2>2, <2>3, ConcatInjective DEF TypeOK, EachTaskOnce, Posted
  <2>5. Executing' = Executing /\ cb_task' = cb_task /\ finished' = finished
    BY <1>1, ExecutingKept DEF PostTask
  <2> QED BY <2>3, <2>4, <2>5 DEF EachTaskOnce, Posted
<1>2. ASSUME NEW th \in Threads, NEW b \in FreshBatches, PostBatch(th, b) PROVE EachTaskOnce'
  <2>1. b \in Seq(Tasks) /\ IsInjective(b) /\ \A i \in 1..Len(b) : b[i] \notin Posted
    BY BatchIsSequence
  <2>2. task_queue_' = task_queue_ \o b
    BY <1>2 DEF PostBatch
  <2>3. IsInjective(task_queue_') /\ Range(task_queue_') = Range(task_queue_) \cup Range(b)
    BY <2>1, <2>2, ConcatInjective DEF TypeOK, EachTaskOnce, Posted
  <2>4. Range(b) \cap Posted = {}
    BY <2>1, QueuedTasks
  <2>5. Executing' = Executing /\ cb_task' = cb_task /\ finished' = finished
    BY <1>2, ExecutingKept DEF PostBatch
  <2> QED BY <2>3, <2>4, <2>5 DEF EachTaskOnce, Posted
<1>3. ASSUME NEW w \in Workers, Take(w) PROVE EachTaskOnce'
  <2>1. \A v \in Workers : cb_task'[v] = IF v = w THEN Head(task_queue_) ELSE cb_task[v]
    BY <1>3 DEF Take, TypeOK
  <2>2. \A v \in Workers : cb_task[v] # Head(task_queue_)
    <3>1. \A v \in Workers : cb_task[v] # NoTask => cb_task[v] \in Executing
      BY DEF TypeOK, Executing
    <3>2. Head(task_queue_) # NoTask
      BY <1>3, ThreadPoolAssumption DEF Take, TypeOK
    <3> QED BY <1>3, <3>1, <3>2, TakeMoves DEF EachTaskOnce
  <2>3. \A v, u \in Workers : cb_task'[v] = cb_task'[u] => v = u \/ cb_task'[v] = NoTask
    BY <2>1, <2>2 DEF EachTaskOnce
  <2> QED BY <1>3, <2>3, TakeMoves DEF EachTaskOnce, Take
<1>4. ASSUME NEW w \in Workers, Finish(w) PROVE EachTaskOnce'
  <2>1. \A v \in Workers : cb_task'[v] = IF v = w THEN NoTask ELSE cb_task[v]
    BY <1>4 DEF Finish, TypeOK
  <2>2. \A v, u \in Workers : cb_task'[v] = cb_task'[u] => v = u \/ cb_task'[v] = NoTask
    BY <2>1 DEF EachTaskOnce
  <2>3. task_queue_' = task_queue_
    BY <1>4 DEF Finish
  <2> QED BY <1>4, <2>2, <2>3, FinishMoves DEF EachTaskOnce
<1>5. ASSUME UNCHANGED <<task_queue_, cb_task, finished>> PROVE EachTaskOnce'
  BY <1>5, ExecutingKept DEF EachTaskOnce
<1> QED
  BY <1>1, <1>2, <1>3, <1>4, <1>5
     DEF Next, NotifyOne, Step, Wait, WakeSpuriously, Exit, StopRunning, NotifyAll,
         JoinWorkers, Terminated, vars

(* For any number of workers and tasks: no task is run twice, by two workers *)
(* or by one after another, and none is both queued and run.                 *)
THEOREM TasksAreInOnePlace == Spec => []EachTaskOnce
<1>1. Init => EachTaskOnce
  BY DEF Init, EachTaskOnce, Executing, IsInjective, Range
<1> QED BY <1>1, InitTypeOK, NextTypeOK, NextEachTaskOnce, PTL DEF Spec

-----------------------------------------------------------------------------
(***************************************************************************)
(* The pool implements TaskPool.  The destructor returns once every worker *)
(* has left WorkerLoop, so the step to "gone" needs the queue to be empty  *)
(* by then: the last worker saw it empty, and nobody who could have posted *)
(* since is left.  With no worker that fails, vacuously: the assumption    *)
(* Workers # {} is the pool's own, hardware_concurrency() may return 0.    *)
(***************************************************************************)
NothingLeftBehind == (\A w \in Workers : worker[w] = "exited") => task_queue_ = <<>>

(* A task is posted by a running worker or before the shutdown. *)
LEMMA PostersAreAlive ==
  ASSUME Workers # {}, TypeOK, Lifecycle, NEW th \in Threads, MayPost(th)
  PROVE  /\ owner = "using" \/ Executing # {}
         /\ \E w \in Workers : worker[w] # "exited"
<1>1. CASE th \in Workers /\ worker[th] = "running"
  BY <1>1 DEF Executing
<1>2. CASE owner = "using"
  BY <1>2 DEF Lifecycle
<1> QED BY <1>1, <1>2 DEF MayPost

(* Nobody leaves work behind. *)
LEMMA NextNothingLeftBehind ==
  ASSUME Workers # {}, TypeOK, Lifecycle, NothingLeftBehind, [Next]_vars
  PROVE  NothingLeftBehind'
<1> USE DEF NothingLeftBehind
<1>1. ASSUME NEW th \in Threads, NEW t \in Tasks, PostTask(th, t) PROVE NothingLeftBehind'
  BY <1>1, PostersAreAlive DEF PostTask
<1>2. ASSUME NEW th \in Threads, NotifyOne(th) PROVE NothingLeftBehind'
  BY <1>2, WakingTypes DEF NotifyOne, TypeOK
<1>3. ASSUME NEW th \in Threads, NEW b \in FreshBatches, PostBatch(th, b)
      PROVE  NothingLeftBehind'
  <2>1. PICK w \in Workers : worker[w] # "exited"
    BY <1>3, PostersAreAlive DEF PostBatch
  <2>2. worker'[w] # "exited"
    BY <1>3, <2>1, WakingTypes DEF PostBatch, TypeOK
  <2> QED BY <2>2
<1>4. ASSUME NEW w \in Workers, Step(w) \/ WakeSpuriously(w) PROVE NothingLeftBehind'
  BY <1>4 DEF Step, Wait, WakeSpuriously, Exit, Take, Finish, TypeOK
<1>5. CASE StopRunning \/ NotifyAll \/ JoinWorkers
  BY <1>5, WakingTypes DEF StopRunning, NotifyAll, JoinWorkers, TypeOK
<1>6. CASE UNCHANGED vars
  BY <1>6 DEF vars
<1> QED BY <1>1, <1>2, <1>3, <1>4, <1>5, <1>6 DEF Next, Terminated

(* The pool's three abstract phases. *)
Phase == CASE owner = "using" -> "open"
           [] owner = "gone"  -> "gone"
           [] OTHER           -> "closing"

(* Both modules call the same tasks posted and the same batches fresh. *)
LEMMA SameBatches == TP!FreshBatches = FreshBatches
<1>1. TP!Posted = Posted
  BY DEF TP!Posted, TP!Range, Posted, Range
<1>2. ASSUME NEW b PROVE TP!IsInjective(b) <=> IsInjective(b)
  BY DEF TP!IsInjective, IsInjective
<1> QED BY <1>1, <1>2 DEF TP!FreshBatches, FreshBatches

(* A step of the threads is a step of TaskPool or leaves it as it was. *)
LEMMA StepSimulation ==
  ASSUME Workers # {}
  PROVE  TypeOK /\ TypeOK' /\ Lifecycle /\ EachTaskOnce /\ NothingLeftBehind /\ [Next]_vars
           => [TP!Next]_TP!vars
<1> SUFFICES ASSUME TypeOK, TypeOK', Lifecycle, EachTaskOnce, NothingLeftBehind, [Next]_vars
             PROVE  [TP!Next]_TP!vars
  OBVIOUS
<1> DEFINE Kept == /\ task_queue_' = task_queue_ /\ Executing' = Executing
                   /\ finished' = finished /\ Phase' = Phase
<1>0. Kept => UNCHANGED TP!vars
  BY DEF TP!vars, Phase
<1> HIDE DEF Kept
<1>1. ASSUME NEW th \in Threads, NEW t \in Tasks, PostTask(th, t) PROVE TP!Next
  <2> DEFINE b == <<t>>
  <2>1. b \in [1..1 -> Tasks \ Posted] /\ IsInjective(b) /\ 1 \in 0..PostLimit
    BY <1>1, ThreadPoolAssumption DEF PostTask, IsInjective
  <2>2. b \in TP!FreshBatches
    BY <2>1, SameBatches DEF FreshBatches
  <2>3. task_queue_' = task_queue_ \o b
    BY <1>1, AppendIsConcat DEF PostTask, TypeOK
  <2>4. Executing' = Executing
    BY <1>1, ExecutingKept DEF PostTask
  <2>5. owner = "using" \/ Executing # {}
    BY <1>1, PostersAreAlive DEF PostTask
  <2> HIDE DEF b
  <2>6. TP!Post(b)
    BY <1>1, <2>3, <2>4, <2>5 DEF TP!Post, PostTask
  <2> QED BY <2>2, <2>6 DEF TP!Next
<1>2. ASSUME NEW th \in Threads, NEW b \in FreshBatches, PostBatch(th, b) PROVE TP!Next
  <2>1. Executing' = Executing
    BY <1>2, ExecutingKept DEF PostBatch
  <2>2. owner = "using" \/ Executing # {}
    BY <1>2, PostersAreAlive DEF PostBatch
  <2>3. TP!Post(b)
    BY <1>2, <2>1, <2>2 DEF TP!Post, PostBatch
  <2> QED BY <2>3, SameBatches DEF TP!Next
<1>3. ASSUME NEW w \in Workers, Take(w) PROVE TP!Next
  <2>1. TP!Start
    BY <1>3, TakeMoves DEF TP!Start, Take
  <2> QED BY <2>1 DEF TP!Next
<1>4. ASSUME NEW w \in Workers, Finish(w) PROVE TP!Next
  <2>1. cb_task[w] \in Tasks /\ cb_task[w] \in Executing
    BY <1>4, FinishMoves, ExecutingHeld
  <2>2. TP!Finish(cb_task[w])
    BY <1>4, <2>1, FinishMoves DEF TP!Finish, Finish
  <2> QED BY <2>1, <2>2 DEF TP!Next
<1>5. CASE StopRunning
  <2>1. Executing' = Executing
    BY <1>5, ExecutingKept DEF StopRunning
  <2>2. TP!Close
    BY <1>5, <2>1 DEF TP!Close, StopRunning
  <2> QED BY <2>2 DEF TP!Next
<1>6. CASE JoinWorkers
  <2>1. Executing' = Executing /\ Executing = {}
    BY <1>6, ExecutingKept DEF JoinWorkers, Executing
  <2>2. task_queue_ = <<>>
    BY <1>6 DEF JoinWorkers, NothingLeftBehind
  <2>3. TP!Vanish
    BY <1>6, <2>1, <2>2 DEF TP!Vanish, JoinWorkers
  <2> QED BY <2>3 DEF TP!Next
<1>7. ASSUME UNCHANGED <<task_queue_, cb_task, finished>>, Phase' = Phase PROVE Kept
  BY <1>7, ExecutingKept DEF Kept
<1>8. ASSUME NEW th \in Threads, NotifyOne(th) PROVE Kept
  BY <1>7, <1>8 DEF NotifyOne, Phase
<1>9. ASSUME NEW w \in Workers, Wait(w) \/ WakeSpuriously(w) \/ Exit(w) PROVE Kept
  BY <1>7, <1>9 DEF Wait, WakeSpuriously, Exit, Phase
<1>10. ASSUME NotifyAll PROVE Kept
  BY <1>7, <1>10 DEF NotifyAll, Phase
<1>11. ASSUME UNCHANGED vars PROVE Kept
  BY <1>7, <1>11 DEF vars, Phase
<1> QED
  BY <1>0, <1>1, <1>2, <1>3, <1>4, <1>5, <1>6, <1>8, <1>9, <1>10, <1>11
     DEF Next, Step, Terminated

(* For any number of workers but none, any clients and tasks: the threads,   *)
(* the queue and the condition variable do what TaskPool promises.           *)
THEOREM ThreadPoolImplementsTaskPool ==
  ASSUME Workers # {}
  PROVE  Spec => ImplementsTaskPool
<1>1. Init => TP!Init /\ NothingLeftBehind /\ Lifecycle /\ EachTaskOnce
  BY DEF Init, TP!Init, NothingLeftBehind, Lifecycle, EachTaskOnce, Executing,
         IsInjective, Range
<1>2. TypeOK /\ Lifecycle /\ NothingLeftBehind /\ [Next]_vars
        => Lifecycle' /\ NothingLeftBehind'
  BY NextLifecycle, NextNothingLeftBehind
<1>3. TypeOK /\ TypeOK' /\ Lifecycle /\ EachTaskOnce /\ NothingLeftBehind /\ [Next]_vars
        => [TP!Next]_TP!vars
  BY StepSimulation
<1> QED
  BY <1>1, <1>2, <1>3, InitTypeOK, NextTypeOK, NextEachTaskOnce, PTL
     DEF Spec, ImplementsTaskPool, TP!Spec

=============================================================================
