\* The breaker trips over the third protocol violation.
CONSTANTS
  t1 = t1
  t2 = t2
  t3 = t3
  Tasks = {t1}
  Parents <- NoParents
  FailureLimit = 2
  DefaultLimit = 2
  ViolationLimit = 3
  SystemicCount = 3
  BlockLimit = 2
  MaxRuns = 3
  MaxMoves = 0
  MaxCrashes = 0
  Runtime = FALSE
  Unkillable = FALSE
  Torn = FALSE
  Terminals = FALSE

SPECIFICATION Spec

PROPERTY
  TripHolds
CHECK_DEADLOCK FALSE
