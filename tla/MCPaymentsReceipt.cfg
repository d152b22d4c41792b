\* One payment and two handlers, either of which may die.
CONSTANTS
  a1 = a1
  a2 = a2
  h1 = h1
  h2 = h2
  e1 = e1
  e2 = e2
  Amount = 1
  Refunds = {a1}
  Asked <- Half
  Successes = {e1, e2}
  Handlers = {h1, h2}
  NoEvent = NoEvent
  MaxFaults = 1

SPECIFICATION FairSpec

PROPERTY EventsAreProcessed

CHECK_DEADLOCK FALSE
