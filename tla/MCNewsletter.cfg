\* Two workers send a newsletter, may be late, and heed opt-outs.
CONSTANTS
  r1 = r1
  r2 = r2
  w1 = w1
  w2 = w2
  Workers = {w1, w2}
  Recipients = {r1}
  Newsletters = {r1}
  MaxAttempts = 2
  MaxCampaigns = 0
  MaxFaults = 1
  Slow = TRUE
  None = None

SPECIFICATION FairSpec

PROPERTIES
  OptOutsAreHeeded
  TasksSettle
