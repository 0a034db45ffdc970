SPECIFICATION TurnSpec
CONSTANTS
  Fingerprint = {f, g}
  NoFingerprint = NoFingerprint
  Budget = 6
  MinBudget = 2
  SoftFloor = 2
  FirmFloor = 4
  RepeatStreak = 2
  RepeatTotal = 3
  StepLimits = {0, 3}
  MaxBatch = 3
  MaxEmptyRetries = 2
  MaxReviewRetries = 2
INVARIANTS
  TurnTypeOK
  RequestsAreAnswered
  NoSilentEnd
  WarningsOnTime
PROPERTIES
  TurnEnds
CHECK_DEADLOCK FALSE
