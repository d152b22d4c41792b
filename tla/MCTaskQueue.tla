------------------------------ MODULE MCTaskQueue ------------------------------
(* Instances of the task queue for TLC.                                    *)
EXTENDS TaskQueue, TLC

CONSTANTS t1, w1, w2

WorkerSymmetry == Permutations({w1, w2})

===============================================================================
