\* Two slots are enqueued from old snapshots and leases recovered, with fair workers.
CONSTANTS
  t1 = t1
  w1 = w1
  w2 = w2
  Tasks = {t1}
  Workers = {w1, w2}
  MaxAttempts = 1
  Limit = 1
  MaxSlot = 2
  MaxFaults = 1
  MaxTries = 0
  Slow = FALSE

SPECIFICATION FairSpec

INVARIANT
  NoSlotSkipped

PROPERTIES
  SlotIsEnqueued
  RunningEnds
