\* A manual run of a one-shot when the schedule falls due.
CONSTANTS
  p1 = p1
  p2 = p2
  Procs = {p1, p2}
  NoProc = NoProc
  Jobs <- OneShots
  MaxAttempts = 2
  MaxDue = 1
  MaxMoves = 0
  Vias = {"tick", "manual"}
  Inline = FALSE

SPECIFICATION Spec

PROPERTY
  RetiredIsIdle
CHECK_DEADLOCK FALSE
