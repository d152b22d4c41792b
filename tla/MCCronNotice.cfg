\* The notice of an exception when the host sleeps.
CONSTANTS
  p1 = p1
  p2 = p2
  Procs = {p1, p2}
  NoProc = NoProc
  Jobs <- OneShots
  MaxAttempts = 2
  MaxDue = 1
  MaxMoves = 1
  Vias = {"tick", "fire"}
  Inline = FALSE

SPECIFICATION Spec

INVARIANT
  NoticeIsCurrent
CHECK_DEADLOCK FALSE
