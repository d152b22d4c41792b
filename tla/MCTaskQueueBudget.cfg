\* A failing handler is called more often than its budget allows.
CONSTANTS
  t1 = t1
  w1 = w1
  w2 = w2
  Tasks = {t1}
  Workers = {w1, w2}
  MaxAttempts = 2
  Limit = 2
  MaxSlot = 1
  MaxFaults = 0
  MaxTries = 3
  Slow = FALSE

SPECIFICATION Spec

INVARIANT
  RetryBudget
