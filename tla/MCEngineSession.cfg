SPECIFICATION Spec
CONSTANTS
  Session = {s1}
  NoSession = NoSession
  MaxTurns = 2
  MaxBatch = 1
  MaxRequests = 1
  PastJournals <- Reopened
  HistoryTurns = 1
  MaxDisturbances = 1
INVARIANTS
  TypeOK
  LiveTurnIsReachable
  IdleMeansSettled
  CancelledTurnWritesOnce
  InterleavedTurnsWereCancelled
  UndisturbedHistoryIsWellFormed
PROPERTIES
  SlotSpec
  EntriesAreGivenBack
CHECK_DEADLOCK FALSE
