----------------------------- MODULE TimerService ----------------------------
(***************************************************************************)
(* What TimerScheduler promises, with no threads, heap or wake-ups: a task *)
(* that was scheduled and not cancelled fires at most once, never before   *)
(* its time, never ahead of an earlier one, and only while the service is  *)
(* on.                                                                     *)
(***************************************************************************)
EXTENDS Naturals

CONSTANTS
  TimerTasks,    \* records with a task_id and an exec_time
  MaxTime        \* bound: the clock stops there

VARIABLES
  now,
  pending,       \* scheduled, not cancelled, not fired
  fired,
  service        \* "off" or "on"

vars == <<now, pending, fired, service>>

Init ==
  /\ now = 0
  /\ pending = {} /\ fired = {}
  /\ service = "off"

Advance ==
  /\ now < MaxTime
  /\ now' = now + 1
  /\ UNCHANGED <<pending, fired, service>>

Schedule(t) ==
  /\ \A u \in pending \cup fired : u.task_id # t.task_id
  /\ pending' = pending \cup {t}
  /\ UNCHANGED <<now, fired, service>>

Cancel(id) ==
  /\ pending' = {t \in pending : t.task_id # id}
  /\ UNCHANGED <<now, fired, service>>

Fire(t) ==
  /\ service = "on"
  /\ t \in pending /\ t.exec_time <= now
  /\ \A u \in pending : t.exec_time <= u.exec_time
  /\ pending' = pending \ {t}
  /\ fired' = fired \cup {t}
  /\ UNCHANGED <<now, service>>

Switch ==
  /\ service' \in {"off", "on"} \ {service}
  /\ UNCHANGED <<now, pending, fired>>

Next ==
  \/ Advance
  \/ \E t \in TimerTasks : Schedule(t) \/ Cancel(t.task_id) \/ Fire(t)
  \/ Switch

Spec == Init /\ [][Next]_vars
=============================================================================
