SPECIFICATION Spec
CONSTANTS
  Task = {t1}
  NoTask = NoTask
  Run = {r1, r2}
  Scheduled = {r1, r2}
  Manual = {}
  MaxCancels = 0
  MaxRestarts = 0
INVARIANTS
  OnceRunsOnce
CHECK_DEADLOCK FALSE
