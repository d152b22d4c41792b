\* Two workers send the mails of a campaign.
CONSTANTS
  r1 = r1
  r2 = r2
  w1 = w1
  w2 = w2
  Workers = {w1, w2}
  Recipients = {r1, r2}
  Newsletters = {}
  MaxAttempts = 2
  MaxCampaigns = 1
  MaxFaults = 1
  Slow = FALSE
  None = None

SPECIFICATION Spec

SYMMETRY AllSymmetry

INVARIANTS
  OneSender
  SentOncePerFault
  BudgetKept
  SentIsComplete
  IInv

PROPERTY
  SettledIsFinal
