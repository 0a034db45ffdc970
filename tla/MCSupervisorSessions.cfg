SPECIFICATION Spec
CONSTANTS
  Session = {s1}
  NoSession = NoSession
  Caller = {c1, c2}
  MayCall <- LiveCallers
  c1 = c1
  c2 = c2
  c3 = c3
  Listener = Listener
  Boot = Boot
  NoTask = NoTask
  Absent = Absent
  MaxTitles = 1
  MaxFailures = 1
  MaxRestarts = 1
INVARIANTS
  TypeOK
  SavedOrBeingSaved
  DeletedIsGone
  GivenNameIsKept
PROPERTIES
  RestartKeepsSessions
  CallsEnd
  TitlesAreTaken
CHECK_DEADLOCK FALSE
