------------------------------- MODULE MCPayments -------------------------------
(* Instances of the payment for TLC.                                       *)
EXTENDS Payments, TLC

CONSTANTS a1, a2, h1, h2, e1, e2

(* A refund of half the amount, and one of all that remains.               *)
HalfAndRest == a1 :> 1 @@ a2 :> 0

(* Only the first of them.                                                 *)
Half == a1 :> 1

(* The handlers are alike, and so are the two reports of a payment.        *)
Symmetry == Permutations(Handlers) \cup Permutations(Successes)

===============================================================================
