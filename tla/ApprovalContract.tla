--------------------------- MODULE ApprovalContract ---------------------------
(***************************************************************************)
(* What the approval bus promises of one frozen action, without sessions,  *)
(* clocks, leases or execution ids: the action waits, open, for a          *)
(* decision; it can take effect only once somebody granted it; it can be   *)
(* reported done only once it has taken effect; and refusals, successes    *)
(* and failures are final.  A granted action may be reopened, which is     *)
(* what a lapsed lease amounts to, and from then on its effect may come    *)
(* late: the contract does not say that a refusal after a grant undoes it. *)
(***************************************************************************)
CONSTANT Actions

VARIABLES
  phase,     (* Where each action stands.                                  *)
  granted,   (* Whether anybody ever approved it.                          *)
  applied    (* Whether its side effect took place.                        *)

vars == <<phase, granted, applied>>

Phase == {"absent", "open", "running", "refused", "done", "failed"}

Init ==
  /\ phase   = [a \in Actions |-> "absent"]
  /\ granted = [a \in Actions |-> FALSE]
  /\ applied = [a \in Actions |-> FALSE]

Move(a, from, to) == phase[a] = from /\ phase' = [phase EXCEPT ![a] = to]

Submit(a) == Move(a, "absent", "open")     /\ UNCHANGED <<granted, applied>>
Refuse(a) == Move(a, "open", "refused")    /\ UNCHANGED <<granted, applied>>
Reopen(a) == Move(a, "running", "open")    /\ UNCHANGED <<granted, applied>>
Failed(a) == Move(a, "running", "failed")  /\ UNCHANGED <<granted, applied>>

Grant(a) == /\ Move(a, "open", "running")
            /\ granted' = [granted EXCEPT ![a] = TRUE]
            /\ UNCHANGED applied

Apply(a) == /\ granted[a]
            /\ applied' = [applied EXCEPT ![a] = TRUE]
            /\ UNCHANGED <<phase, granted>>

Done(a) == /\ applied[a]
           /\ Move(a, "running", "done")
           /\ UNCHANGED <<granted, applied>>

Next == \E a \in Actions :
  \/ Submit(a) \/ Refuse(a) \/ Grant(a) \/ Reopen(a)
  \/ Apply(a) \/ Done(a) \/ Failed(a)

Spec == Init /\ [][Next]_vars

=============================================================================
