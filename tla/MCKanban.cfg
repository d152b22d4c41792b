\* Two tasks, one waiting for the other, under an operator's hands.
CONSTANTS
  t1 = t1
  t2 = t2
  t3 = t3
  Tasks = {t1, t2}
  Parents <- Chain
  FailureLimit = 2
  DefaultLimit = 2
  ViolationLimit = 2
  SystemicCount = 3
  BlockLimit = 2
  MaxRuns = 2
  MaxMoves = 2
  MaxCrashes = 0
  Runtime = TRUE
  Unkillable = FALSE
  Torn = FALSE
  Terminals = FALSE

SPECIFICATION Spec

INVARIANTS
  IInv
  PremiseHolds
CHECK_DEADLOCK FALSE
