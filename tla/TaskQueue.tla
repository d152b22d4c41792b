------------------------------- MODULE TaskQueue -------------------------------
(***************************************************************************)
(* The durable task queue: agent_tasks with their schedule, their runs in  *)
(* agent_task_runs, and the workers that create, enqueue, claim, execute   *)
(* and retry them (pollAndExecuteTasks, src/lib/agent/tasks/worker.ts).    *)
(* Workers share nothing but the database.  A statement is atomic, and so  *)
(* is the SQL function claim_agent_task_runs; everything else interleaves. *)
(*                                                                         *)
(* Time is counted in slots: slot s of a task is its s-th next_run_at.  A  *)
(* claim's lease of 15 minutes and a run's available_at are a flag each,   *)
(* raised when their time has come.                                        *)
(***************************************************************************)
EXTENDS Naturals, FiniteSets

CONSTANTS
  Workers,      (* Polls that may be under way at once.                    *)
  Tasks,        (* The system tasks, by business and name.                 *)
  MaxAttempts,  (* max_attempts of every run: DEFAULT_MAX_ATTEMPTS, 3.     *)
  Limit,        (* How many runs one poll claims: 10.                      *)
  MaxSlot,      (* Bound on the slots that come due.                       *)
  MaxFaults,    (* Bound on dying workers and writes lost with an error.   *)
  MaxTries,     (* Bound on the handler calls counted; 0 counts none.      *)
  Slow          (* Whether a worker may hold a claim beyond its lease.     *)

ASSUME BoundsAssumption == /\ MaxAttempts \in Nat \ {0}
                           /\ Limit \in Nat \ {0}
                           /\ MaxSlot \in Nat
                           /\ MaxFaults \in Nat
                           /\ MaxTries \in Nat
                           /\ Slow \in BOOLEAN
ASSUME TasksAssumption  == Tasks # {}

VARIABLES
  clock,    (* The last slot whose time has come.                          *)
  nextRun,  (* next_run_at of each task; 0 while the task does not exist.  *)
  status,   (* status of each run; "none" while the row does not exist.    *)
  due,      (* available_at of the run is past.                            *)
  expired,  (* The claim on the run is older than the lease.               *)
  pc,       (* Where each worker is in its poll.                           *)
  snap,     (* The due tasks it has read and not enqueued yet.             *)
  cur,      (* The run, or the due task's run, it is busy with.            *)
  batch,    (* The runs it has claimed and not disposed of.                *)
  late,     (* Those of them whose lease it has outlived.                  *)
  lapsed,   (* The runs whose lease was ever outlived by a worker.         *)
  tries,    (* How often a slot's handler was called, up to MaxTries.      *)
  faults    (* How many faults there have been.                            *)

runVars    == <<status, due, expired>>
workerVars == <<pc, snap, cur, batch, late>>
vars       == <<clock, nextRun, runVars, workerVars, lapsed, tries, faults>>

(***************************************************************************)
(* A run is known by its idempotency_key: the task, the slot and, in the   *)
(* suffixes :retry:2, :retry:3, the attempt.  Slot 0 is the initial run,   *)
(* whose key ends in :run:1.                                               *)
(***************************************************************************)
Run    == [task : Tasks, slot : 0..MaxSlot, attempt : 1..MaxAttempts]
Status == {"none", "pending", "running", "completed", "failed"}
Pc     == {"idle", "created", "enqueue", "advance", "claim", "work", "handler", "retry"}

First(t, s) == [task |-> t, slot |-> s, attempt |-> 1]
Last(r)     == r.attempt >= MaxAttempts
Retry(r)    == [r EXCEPT !.attempt = r.attempt + 1]

NoRun == [task |-> CHOOSE t \in Tasks : TRUE, slot |-> 0, attempt |-> 1]

Init ==
  /\ clock   = 0
  /\ nextRun = [t \in Tasks |-> 0]
  /\ status  = [r \in Run |-> "none"]
  /\ due     = [r \in Run |-> FALSE]
  /\ expired = [r \in Run |-> FALSE]
  /\ pc      = [w \in Workers |-> "idle"]
  /\ snap    = [w \in Workers |-> {}]
  /\ cur     = [w \in Workers |-> NoRun]
  /\ batch   = [w \in Workers |-> {}]
  /\ late    = [w \in Workers |-> {}]
  /\ lapsed  = {}
  /\ tries   = [t \in Tasks |-> [s \in 0..MaxSlot |-> 0]]
  /\ faults  = 0

-----------------------------------------------------------------------------
(* Time.                                                                   *)

Tick == /\ clock < MaxSlot
        /\ clock' = clock + 1
        /\ UNCHANGED <<nextRun, runVars, workerVars, lapsed, tries, faults>>

(* available_at passes: the initial run's is the first slot, a retry's the *)
(* end of its back-off.                                                    *)
Due(r) ==
  /\ status[r] = "pending" /\ ~due[r]
  /\ r.slot = 0 => clock >= 1
  /\ due' = [due EXCEPT ![r] = TRUE]
  /\ UNCHANGED <<clock, nextRun, status, expired, workerVars, lapsed, tries, faults>>

Holders(r) == {w \in Workers : r \in batch[w]}

(***************************************************************************)
(* 15 minutes pass since the claim.  Its holder, if it still lives, is     *)
(* late, and so is whoever claimed the run before it.                      *)
(***************************************************************************)
Expire(r) ==
  /\ status[r] = "running" /\ ~expired[r]
  /\ Slow \/ Holders(r) = {}
  /\ expired' = [expired EXCEPT ![r] = TRUE]
  /\ late'    = [w \in Workers |-> IF r \in batch[w] THEN late[w] \cup {r} ELSE late[w]]
  /\ lapsed'  = IF Holders(r) = {} THEN lapsed ELSE lapsed \cup {r}
  /\ UNCHANGED <<clock, nextRun, status, due, pc, snap, cur, batch, tries, faults>>

-----------------------------------------------------------------------------
(* ensureSystemAgentTasks and createAgentTask.                             *)

(* Worker w goes on at p, busy with run r.                                 *)
Goto(w, p, r) == pc' = [pc EXCEPT ![w] = p] /\ cur' = [cur EXCEPT ![w] = r]

(* The unique index on (business_id, name) lets one worker insert a task.  *)
Create(w, t) ==
  /\ pc[w] = "idle"
  /\ nextRun[t] = 0
  /\ nextRun' = [nextRun EXCEPT ![t] = 1]
  /\ Goto(w, "created", First(t, 0))
  /\ UNCHANGED <<clock, runVars, snap, batch, late, lapsed, tries, faults>>

(* The insertion of a pending row, unless its key is taken.                *)
Insert(r, isDue) ==
  /\ status' = [status EXCEPT ![r] = IF @ = "none" THEN "pending" ELSE @]
  /\ due'    = [due EXCEPT ![r] = IF status[r] = "none" THEN isDue ELSE @]
  /\ UNCHANGED expired

CreateInitial(w) ==
  /\ pc[w] = "created"
  /\ Insert(cur[w], FALSE)
  /\ Goto(w, "idle", NoRun)
  /\ UNCHANGED <<clock, nextRun, snap, batch, late, lapsed, tries, faults>>

-----------------------------------------------------------------------------
(* enqueueDueTaskRuns: a snapshot of the due tasks, then for each of them  *)
(* the upsert of its run and the new next_run_at, in two statements.       *)

DueTasks == {t \in Tasks : nextRun[t] \in 1..clock}

Snapshot(w) ==
  /\ pc[w] = "idle"
  /\ snap' = [snap EXCEPT ![w] = {First(t, nextRun[t]) : t \in DueTasks}]
  /\ pc'   = [pc EXCEPT ![w] = "enqueue"]
  /\ UNCHANGED <<clock, nextRun, runVars, cur, batch, late, lapsed, tries, faults>>

Enqueue(w) ==
  /\ pc[w] = "enqueue"
  /\ \E r \in snap[w] :
       /\ \A q \in snap[w] : r.slot <= q.slot
       /\ Insert(r, TRUE)
       /\ snap' = [snap EXCEPT ![w] = @ \ {r}]
       /\ Goto(w, "advance", r)
  /\ UNCHANGED <<clock, nextRun, batch, late, lapsed, tries, faults>>

(* Slip: the next slot is counted from now, not from the slot enqueued.    *)
NextSlotFromNow(r) == clock + 1

NextSlot(r) == r.slot + 1

(* The new time is computed from the snapshot, whatever the row has now.   *)
Advance(w) ==
  /\ pc[w] = "advance"
  /\ nextRun' = [nextRun EXCEPT ![cur[w].task] = NextSlot(cur[w])]
  /\ Goto(w, "enqueue", NoRun)
  /\ UNCHANGED <<clock, runVars, snap, batch, late, lapsed, tries, faults>>

(* A failed upsert is passed over: the task stays due.                     *)
UpsertFails(w) ==
  /\ pc[w] = "enqueue"
  /\ faults < MaxFaults
  /\ \E r \in snap[w] : snap' = [snap EXCEPT ![w] = @ \ {r}]
  /\ faults' = faults + 1
  /\ UNCHANGED <<clock, nextRun, runVars, pc, cur, batch, late, lapsed, tries>>

Enqueued(w) ==
  /\ pc[w] = "enqueue"
  /\ snap[w] = {}
  /\ pc' = [pc EXCEPT ![w] = "claim"]
  /\ UNCHANGED <<clock, nextRun, runVars, snap, cur, batch, late, lapsed, tries, faults>>

-----------------------------------------------------------------------------
(* claim_agent_task_runs.                                                  *)

Expired(r) == status[r] = "running" /\ expired[r]

(* Slip: the lease is not looked at.                                       *)
ReclaimedRunning(r) == IF status[r] # "running" THEN status[r]
                       ELSE IF Last(r) THEN "failed" ELSE "pending"

(* Slip: a run at its last attempt is left as it is.                       *)
ReclaimedUnlessLast(r) == IF Expired(r) /\ ~Last(r) THEN "pending" ELSE status[r]

(* An expired run is given up at its last attempt and else taken back; its *)
(* attempt stays what it was.                                              *)
Reclaimed(r) == IF ~Expired(r) THEN status[r]
                ELSE IF Last(r) THEN "failed" ELSE "pending"

(* Worker w goes on with the runs S it still has.                          *)
WorkOn(w, S) == Goto(w, IF S = {} THEN "idle" ELSE "work", NoRun)

(* Slip: status is not looked at.                                          *)
ClaimableDone(r) == status[r] # "none" /\ due[r]

Claimable(r) == Reclaimed(r) = "pending" /\ due[r]

Claim(w) ==
  LET candidates == {r \in Run : Claimable(r)} IN
  /\ pc[w] = "claim"
  /\ \E S \in SUBSET candidates :
       /\ \/ Cardinality(S) = Limit
          \/ Cardinality(S) < Limit /\ S = candidates
       /\ status'  = [r \in Run |-> IF r \in S THEN "running" ELSE Reclaimed(r)]
       /\ expired' = [r \in Run |-> expired[r] /\ ~Expired(r)]
       /\ batch'   = [batch EXCEPT ![w] = S]
       /\ WorkOn(w, S)
  /\ UNCHANGED <<clock, nextRun, due, snap, late, lapsed, tries, faults>>

-----------------------------------------------------------------------------
(* The worker goes through its claims one by one.                          *)

Work(w) ==
  /\ pc[w] = "work"
  /\ \E r \in batch[w] :
       /\ Goto(w, "handler", r)
       /\ tries' = [tries EXCEPT ![r.task][r.slot] = IF @ < MaxTries THEN @ + 1 ELSE @]
  /\ UNCHANGED <<clock, nextRun, runVars, snap, batch, late, lapsed, faults>>

(* Worker w disposes of run r.                                             *)
Drop(w, r) ==
  /\ batch' = [batch EXCEPT ![w] = @ \ {r}]
  /\ late'  = [late EXCEPT ![w] = @ \ {r}]

(* completeTaskRun: by id alone, whoever holds the claim by now.           *)
Complete(w) ==
  LET r == cur[w] IN
  /\ pc[w] = "handler"
  /\ status'  = [status EXCEPT ![r] = "completed"]
  /\ expired' = [expired EXCEPT ![r] = FALSE]
  /\ Drop(w, r)
  /\ WorkOn(w, batch[w] \ {cur[w]})
  /\ UNCHANGED <<clock, nextRun, due, snap, lapsed, tries, faults>>

(* The update comes back with an error, which nobody looks at.             *)
CompleteIsLost(w) ==
  /\ pc[w] = "handler"
  /\ faults < MaxFaults
  /\ faults' = faults + 1
  /\ Drop(w, cur[w])
  /\ WorkOn(w, batch[w] \ {cur[w]})
  /\ UNCHANGED <<clock, nextRun, runVars, snap, lapsed, tries>>

(***************************************************************************)
(* failTaskRun of a run with attempts left: the row itself is pending      *)
(* again, with its attempt unchanged, and a second row is inserted for the *)
(* next attempt; both are due after the back-off.                          *)
(***************************************************************************)
FailAgain(w) ==
  LET r == cur[w] IN
  /\ pc[w] = "handler"
  /\ ~Last(r)
  /\ status'  = [status EXCEPT ![r] = "pending"]
  /\ due'     = [due EXCEPT ![r] = FALSE]
  /\ expired' = [expired EXCEPT ![r] = FALSE]
  /\ Drop(w, r)
  /\ Goto(w, "retry", r)
  /\ UNCHANGED <<clock, nextRun, snap, lapsed, tries, faults>>

InsertRetry(w) ==
  /\ pc[w] = "retry"
  /\ Insert(Retry(cur[w]), FALSE)
  /\ WorkOn(w, batch[w])
  /\ UNCHANGED <<clock, nextRun, snap, batch, late, lapsed, tries, faults>>

(* failTaskRun of the last attempt sets available_at to null, in a column  *)
(* that is NOT NULL: the update is rejected, and nobody looks.             *)
FailLast(w) ==
  /\ pc[w] = "handler"
  /\ Last(cur[w])
  /\ Drop(w, cur[w])
  /\ WorkOn(w, batch[w] \ {cur[w]})
  /\ UNCHANGED <<clock, nextRun, runVars, snap, lapsed, tries, faults>>

(* The process dies, or a statement throws out of the poll.                *)
Die(w) ==
  /\ pc[w] # "idle"
  /\ faults < MaxFaults
  /\ faults' = faults + 1
  /\ Goto(w, "idle", NoRun)
  /\ snap'   = [snap EXCEPT ![w] = {}]
  /\ batch'  = [batch EXCEPT ![w] = {}]
  /\ late'   = [late EXCEPT ![w] = {}]
  /\ UNCHANGED <<clock, nextRun, runVars, lapsed, tries>>

(* What a worker does as long as it lives.                                 *)
Poll(w) == \/ CreateInitial(w)
           \/ Snapshot(w) \/ Enqueue(w) \/ Advance(w) \/ Enqueued(w)
           \/ Claim(w) \/ Work(w)
           \/ Complete(w) \/ FailAgain(w) \/ InsertRetry(w) \/ FailLast(w)

Next ==
  \/ Tick
  \/ \E r \in Run : Due(r) \/ Expire(r)
  \/ \E w \in Workers, t \in Tasks : Create(w, t)
  \/ \E w \in Workers :
       Poll(w) \/ UpsertFails(w) \/ CompleteIsLost(w) \/ Die(w)

Spec == Init /\ [][Next]_vars

(***************************************************************************)
(* The scheduler starts a poll every minute and a poll goes on as long as  *)
(* its handlers return; leases run out by themselves.                      *)
(***************************************************************************)
Fairness == /\ \A w \in Workers : WF_vars(Poll(w))
            /\ \A r \in Run : WF_vars(Expire(r))

FairSpec == Spec /\ Fairness

-----------------------------------------------------------------------------
(* Properties.                                                             *)

TypeOK ==
  /\ clock   \in 0..MaxSlot
  /\ nextRun \in [Tasks -> 0..(MaxSlot + 1)]
  /\ status  \in [Run -> Status]
  /\ due     \in [Run -> BOOLEAN]
  /\ expired \in [Run -> BOOLEAN]
  /\ pc      \in [Workers -> Pc]
  /\ snap    \in [Workers -> SUBSET Run]
  /\ cur     \in [Workers -> Run]
  /\ batch   \in [Workers -> SUBSET Run]
  /\ late    \in [Workers -> SUBSET Run]
  /\ lapsed  \subseteq Run
  /\ tries   \in [Tasks -> [0..MaxSlot -> 0..MaxTries]]
  /\ faults  \in 0..MaxFaults

(***************************************************************************)
(* No slot is skipped: next_run_at has moved past a slot only if that      *)
(* slot's run is in the table, even when two workers enqueue from old      *)
(* snapshots, an upsert fails or a worker dies between the two statements  *)
(* (worker.ts lines 247-273).                                              *)
(***************************************************************************)
NoSlotSkipped ==
  \A t \in Tasks, s \in 1..MaxSlot :
    s < nextRun[t] => status[First(t, s)] # "none"

(***************************************************************************)
(* Instances do not run the same run together: as long as no worker        *)
(* outlives its lease on a run, one worker at most has it claimed, through *)
(* failures, retries, deaths and lost writes (migrate.sql lines 624-640).  *)
(***************************************************************************)
OneHolder ==
  \A r \in Run : r \notin lapsed =>
    \A v, w \in Holders(r) : v = w

(***************************************************************************)
(* A run that is over stays over: as long as no worker outlives its lease  *)
(* on it, a completed or failed run is never taken up again (the status    *)
(* vocabulary, worker.ts lines 18-23).                                     *)
(***************************************************************************)
OverStaysOver ==
  [][\A r \in Run :
       /\ status[r] \in {"completed", "failed"}
       /\ r \notin lapsed
       => status'[r] = status[r]]_vars

(* A slot's run is enqueued once its time has come, whatever dies.         *)
SlotIsEnqueued ==
  \A t \in Tasks, s \in 1..MaxSlot :
    nextRun[t] # 0 /\ clock >= s ~> status[First(t, s)] # "none"

(* Lease recovery: no run reads running forever, although its worker died, *)
(* or its completion or last failure never reached the row.                *)
RunningEnds == \A r \in Run : status[r] = "running" ~> status[r] # "running"

-----------------------------------------------------------------------------
(* The inductive invariant behind the safety properties.                   *)

(* What a worker is about to enqueue, or has, and its slots before that.   *)
Snapshots ==
  \A w \in Workers :
    /\ \A r \in snap[w] : r = First(r.task, r.slot)
    /\ pc[w] = "created" => cur[w] = First(cur[w].task, 0)
    /\ pc[w] = "advance" => /\ cur[w] = First(cur[w].task, cur[w].slot)
                            /\ status[cur[w]] # "none"
    /\ \A r \in snap[w] \cup IF pc[w] = "advance" THEN {cur[w]} ELSE {} :
         \A s \in 1..(r.slot - 1) : status[First(r.task, s)] # "none"

(* A run that nobody was late with is running as long as it is held.       *)
Held ==
  /\ \A r \in Run : expired[r] => status[r] = "running"
  /\ \A w \in Workers :
       /\ pc[w] = "handler" => cur[w] \in batch[w]
       /\ pc[w] = "retry"   => ~Last(cur[w])
  /\ \A w \in Workers : \A r \in batch[w] :
       r \notin lapsed => status[r] = "running" /\ ~expired[r]

IInv == TypeOK /\ NoSlotSkipped /\ Snapshots /\ Held /\ OneHolder

-----------------------------------------------------------------------------
(* What the code and the documents say, and the queue does not keep.       *)

(***************************************************************************)
(* "A durable task queue with ... retry budgets" (README.md:64-65), a      *)
(* budget of max_attempts: the handler of one slot is called at most so    *)
(* often, even while no worker is late or dies.                            *)
(***************************************************************************)
RetryBudget == \A t \in Tasks, s \in 0..MaxSlot : tries[t][s] <= MaxAttempts

=============================================================================
