\* Workers and dispatchers that die, left to themselves.
CONSTANTS
  t1 = t1
  t2 = t2
  t3 = t3
  Tasks = {t1}
  Parents <- NoParents
  FailureLimit = 1
  DefaultLimit = 1
  ViolationLimit = 2
  SystemicCount = 3
  BlockLimit = 2
  MaxRuns = 3
  MaxMoves = 0
  MaxCrashes = 1
  Runtime = FALSE
  Unkillable = TRUE
  Torn = FALSE
  Terminals = TRUE

SPECIFICATION FairSpec

INVARIANTS
  OneWorker
  PhaseKept
  RetriesEnd
PROPERTY
  Recovered
CHECK_DEADLOCK FALSE
