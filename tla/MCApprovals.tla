----------------------------- MODULE MCApprovals -----------------------------
(* Instances of the approval bus for TLC.                                  *)
EXTENDS Approvals, TLC

CONSTANTS a1, s1, s2

MCApprovals == {a1}

(* Two approvers of the same rank: interchangeable.                        *)
TwoManagers == s1 :> "manager" @@ s2 :> "manager"

(* An approver too junior for an owner's decision, and an owner.           *)
ManagerAndOwner == s1 :> "manager" @@ s2 :> "owner"

=============================================================================
