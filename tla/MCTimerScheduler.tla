--------------------------- MODULE MCTimerScheduler --------------------------
(* Two tasks from any callers, each cancelled or not, over three instants.   *)
EXTENDS TimerScheduler
=============================================================================
