\* A recipient uses the unsubscribe link.
CONSTANTS
  r1 = r1
  r2 = r2
  w1 = w1
  w2 = w2
  Workers = {w1}
  Recipients = {r1}
  Newsletters = {r1}
  MaxAttempts = 2
  MaxCampaigns = 0
  MaxFaults = 0
  Slow = FALSE
  None = None

SPECIFICATION Spec

INVARIANT
  ClickTakesEffect
