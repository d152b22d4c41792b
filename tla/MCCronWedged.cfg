\* A one-shot whose run dies with its process.
CONSTANTS
  p1 = p1
  p2 = p2
  Procs = {p1, p2}
  NoProc = NoProc
  Jobs <- OneShots
  MaxAttempts = 2
  MaxDue = 1
  MaxMoves = 0
  Vias = {"tick"}
  Inline = FALSE

SPECIFICATION FairSpec

PROPERTY
  NotWedged
CHECK_DEADLOCK FALSE
