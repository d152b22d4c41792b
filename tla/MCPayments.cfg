\* Checkout, webhooks, two refunds and reconciliation of one payment.
CONSTANTS
  a1 = a1
  a2 = a2
  h1 = h1
  h2 = h2
  e1 = e1
  e2 = e2
  Amount = 2
  Refunds = {a1, a2}
  Asked <- HalfAndRest
  Successes = {e1, e2}
  Handlers = {h1, h2}
  NoEvent = NoEvent
  MaxFaults = 1

SPECIFICATION Spec
SYMMETRY Symmetry

INVARIANTS
  OneHandler
  PaidIsReal
  RecordedIsReturned
  OpenIsHeld
  IInv

CHECK_DEADLOCK FALSE
