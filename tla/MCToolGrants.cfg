\* Two frozen copies of one call, two service threads, replays and callbacks delivered any number of times.
CONSTANTS
  i1 = i1
  i2 = i2
  c1 = c1
  t1 = t1
  t2 = t2
  Invocations = {i1, i2}
  Calls = {c1}
  CallOf <- SameCall
  Threads = {t1, t2}
  NoMsg = NoMsg
  Redelivery = TRUE
  MaxGrants = 2
  MaxExecutions = 2

SPECIFICATION Spec

SYMMETRY TwinSymmetry

INVARIANTS
  RanOnce
  RunsAreApproved
  OneResume
  ExecutedIsOnFile
  IInv

CHECK_DEADLOCK FALSE
