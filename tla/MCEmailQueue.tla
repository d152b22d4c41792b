------------------------------ MODULE MCEmailQueue ------------------------------
(* Instances of the outgoing mail for TLC.                                 *)
EXTENDS EmailQueue, TLC

CONSTANTS r1, r2, w1, w2

AllSymmetry == Permutations({w1, w2}) \cup Permutations({r1, r2})

===============================================================================
