\* A refusal after a lease recovery does not undo the action that already ran.
CONSTANTS
  a1 = a1
  s1 = s1
  s2 = s2
  Approvals <- MCApprovals
  Sessions = {s1, s2}
  RoleOf <- TwoManagers
  ActionTypes = {"stripe.refund"}
  RequiredRoles = {"manager"}
  Lease = 2
  Ttl = 3
  MaxTime = 6
  MaxExecutions = 3

SPECIFICATION Spec

INVARIANT
  RefusalNeverExecutes

CHECK_DEADLOCK FALSE
