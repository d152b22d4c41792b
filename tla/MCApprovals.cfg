\* A manager and an owner race over one row: claims, lease recoveries, replays, crashes.
CONSTANTS
  a1 = a1
  s1 = s1
  s2 = s2
  Approvals <- MCApprovals
  Sessions = {s1, s2}
  RoleOf <- ManagerAndOwner
  ActionTypes = {"stripe.refund", "purchase.create_draft"}
  RequiredRoles = {"manager", "owner"}
  Lease = 2
  Ttl = 3
  MaxTime = 5
  MaxExecutions = 3

SPECIFICATION Spec

INVARIANTS
  OneLiveExecution
  ExecutedHadItsEffect
  FailedHasNoExecutor
  FirstRefusalHolds
  IInv

PROPERTIES
  FinalIsFinal
  ImplementsContract

CHECK_DEADLOCK FALSE
