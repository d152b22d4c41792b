\* Two processes that tick, are called back and run by hand, and may sleep or die.
CONSTANTS
  p1 = p1
  p2 = p2
  Procs = {p1, p2}
  NoProc = NoProc
  Jobs <- AllJobs
  MaxAttempts = 2
  MaxDue = 1
  MaxMoves = 1
  Vias = {"tick", "fire", "manual"}
  Inline = FALSE

SYMMETRY Symmetry

SPECIFICATION Spec

INVARIANTS
  IInv
  OneRunner
  OccurrenceOnce
CHECK_DEADLOCK FALSE
