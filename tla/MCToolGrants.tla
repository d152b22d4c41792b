----------------------------- MODULE MCToolGrants -----------------------------
(* Instances of the approved tool calls for TLC.                           *)
EXTENDS ToolGrants, TLC

CONSTANTS i1, i2, c1, t1, t2

(* Both invocations freeze the same call: an agent that tries again.       *)
SameCall == i1 :> c1 @@ i2 :> c1

(* The threads are interchangeable, and so are the two copies.             *)
TwinSymmetry == Permutations({t1, t2}) \cup Permutations({i1, i2})

=============================================================================
