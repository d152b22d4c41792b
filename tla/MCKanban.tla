------------------------------- MODULE MCKanban -------------------------------
(* Instances of the Kanban board for TLC.                                  *)
EXTENDS Kanban

CONSTANTS t1, t2, t3

NoParents == [t \in Tasks |-> {}]
Chain     == [t \in Tasks |-> CASE t = t2 -> {t1} [] t = t3 -> {t2} [] OTHER -> {}]

===============================================================================
