SPECIFICATION FairSpec
CONSTANTS
  MaxTasks = 2
  MaxTime = 2
  NoTask = NoTask
INVARIANT
  StopWakesScheduler
