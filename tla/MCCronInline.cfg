\* A manual run that found the pool of background runs at capacity.
CONSTANTS
  p1 = p1
  p2 = p2
  Procs = {p1, p2}
  NoProc = NoProc
  Jobs <- Recurring
  MaxAttempts = 2
  MaxDue = 1
  MaxMoves = 0
  Vias = {"tick", "manual"}
  Inline = TRUE

SPECIFICATION Spec

INVARIANT
  OneRunner
CHECK_DEADLOCK FALSE
