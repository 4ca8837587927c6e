------------------------------- MODULE TaskPool ------------------------------
(***************************************************************************)
(* What ThreadPool promises, with no threads, locks or wake-ups: tasks     *)
(* start in the order in which they were posted, each runs once, and the   *)
(* pool is gone only after every posted task has run.                      *)
(***************************************************************************)
EXTENDS Naturals, Sequences, Functions

CONSTANTS
  Tasks,
  PostLimit      \* bound: tasks one call may post

VARIABLES
  queued,        \* posted and not started, oldest first
  executing,     \* started and not finished
  finished,
  pool           \* "open", "closing" or "gone"

vars == <<queued, executing, finished, pool>>

Posted == Range(queued) \cup executing \cup finished

Init ==
  /\ queued = <<>> /\ executing = {} /\ finished = {}
  /\ pool = "open"

(* Tasks nobody has posted before, in some order. *)
FreshBatches ==
  {b \in UNION {[1..n -> Tasks \ Posted] : n \in 0..PostLimit} : IsInjective(b)}

(* Running tasks may post more of them while the pool is closing. *)
Post(batch) ==
  /\ pool = "open" \/ executing # {}
  /\ queued' = queued \o batch
  /\ UNCHANGED <<executing, finished, pool>>

Start ==
  /\ queued # <<>>
  /\ executing' = executing \cup {Head(queued)}
  /\ queued' = Tail(queued)
  /\ UNCHANGED <<finished, pool>>

Finish(t) ==
  /\ t \in executing
  /\ executing' = executing \ {t}
  /\ finished' = finished \cup {t}
  /\ UNCHANGED <<queued, pool>>

Close ==
  /\ pool = "open"
  /\ pool' = "closing"
  /\ UNCHANGED <<queued, executing, finished>>

Vanish ==
  /\ pool = "closing" /\ queued = <<>> /\ executing = {}
  /\ pool' = "gone"
  /\ UNCHANGED <<queued, executing, finished>>

Next ==
  \/ \E batch \in FreshBatches : Post(batch)
  \/ Start
  \/ \E t \in Tasks : Finish(t)
  \/ Close
  \/ Vanish

Spec == Init /\ [][Next]_vars
=============================================================================
