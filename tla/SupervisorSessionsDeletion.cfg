SPECIFICATION Spec
CONSTANTS
  Session = {s1}
  NoSession = NoSession
  Caller = {c1, c2, c3}
  MayCall <- Conversation
  c1 = c1
  c2 = c2
  c3 = c3
  Listener = Listener
  Boot = Boot
  NoTask = NoTask
  Absent = Absent
  MaxTitles = 0
  MaxFailures = 0
  MaxRestarts = 1
PROPERTIES
  DeletionIsPermanent
CHECK_DEADLOCK FALSE
