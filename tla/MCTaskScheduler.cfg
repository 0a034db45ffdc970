SPECIFICATION Spec
CONSTANTS
  Task = {t1}
  NoTask = NoTask
  Run = {r1}
  Scheduled = {r1}
  Manual = {r1}
  MaxCancels = 1
  MaxRestarts = 1
INVARIANTS
  TypeOK
  RunningIsExecuted
  ReachedIsCancelled
PROPERTIES
  CompletedByRunOrResumption
  RunsEnd
  DueTasksAreRun
CHECK_DEADLOCK FALSE
