\* Two workers share the runs of one slot; they may be late and die.
CONSTANTS
  t1 = t1
  w1 = w1
  w2 = w2
  Tasks = {t1}
  Workers = {w1, w2}
  MaxAttempts = 2
  Limit = 1
  MaxSlot = 1
  MaxFaults = 1
  MaxTries = 0
  Slow = TRUE

SPECIFICATION Spec

SYMMETRY WorkerSymmetry

INVARIANTS
  OneHolder
  IInv

PROPERTY
  OverStaysOver
