\* A campaign whose worker dies before completing it.
CONSTANTS
  r1 = r1
  r2 = r2
  w1 = w1
  w2 = w2
  Workers = {w1}
  Recipients = {r1}
  Newsletters = {}
  MaxAttempts = 2
  MaxCampaigns = 1
  MaxFaults = 1
  Slow = FALSE
  None = None

SPECIFICATION FairSpec

PROPERTY
  CampaignsComplete
