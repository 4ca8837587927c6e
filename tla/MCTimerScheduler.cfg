SPECIFICATION FairSpec
CONSTANTS
  MaxTasks = 2
  MaxTime = 2
  NoTask = NoTask
INVARIANTS
  TypeOK
  NoOversleep
PROPERTIES
  ImplementsTimerService
  ScheduledTaskRuns
  StopReturns
