SPECIFICATION Spec
CONSTANTS
  Session = {s1}
  NoSession = NoSession
  MaxTurns = 2
  MaxBatch = 2
  MaxRequests = 1
  PastJournals <- Fresh
  HistoryTurns = 5
  MaxDisturbances = 0
INVARIANTS
  HistoryIsWellFormed
CHECK_DEADLOCK FALSE
