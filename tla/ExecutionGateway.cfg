SPECIFICATION Spec
CONSTANTS
  Request = {r1, r2, r3, r4, r5}
  DegradedAt = 1
  OpenAt = 2
  RequiredProbes = 2
  Estimates = {2}
  Reports = {0, 3}
  Fallback = 1
  Limit = 6
INVARIANTS
  TypeOK
  FailuresMatchState
  OverrunIsAllThatExceeds
  ReservationsAreSettled
SYMMETRY Symmetry
CHECK_DEADLOCK FALSE
