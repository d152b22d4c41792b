-------------------------------- MODULE MCCron --------------------------------
(* Instances of the cron job for TLC.                                      *)
EXTENDS Cron, TLC

CONSTANTS p1, p2

Symmetry  == Permutations(Procs)

OneShot   == [kind |-> "once", times |-> 1]
Endless   == [kind |-> "recurring", times |-> 0]
Twice     == [kind |-> "recurring", times |-> 2]
AllJobs   == {OneShot, Twice}
OneShots  == {OneShot}
Recurring == {Endless}

===============================================================================
