-------------------------------- MODULE Kanban --------------------------------
(***************************************************************************)
(* The Kanban board of the execution plane (clisupport/kanban_db.py): the  *)
(* rows of tasks and task_runs in SQLite, the dispatcher that claims tasks *)
(* and spawns a worker process for each, the workers that hand their       *)
(* verdict back, and an operator at the dashboard or the command line.     *)
(*                                                                         *)
(* Each write transaction is one step, for SQLite serialises the writers.  *)
(* What a process read before its transaction, the signal it sent to a     *)
(* worker and the bookkeeping it does in a transaction of its own are      *)
(* steps apart, and the process may die between them.  There is one        *)
(* dispatcher at a time (_dispatch_tick_lock), on the workers' host; the   *)
(* passes of its tick are independent of each other and are taken in any   *)
(* order.  A claim's 15 minutes are a flag, raised when they have passed.  *)
(***************************************************************************)
EXTENDS Naturals, Sequences, FiniteSets

CONSTANTS
  Tasks,          (* The tasks of the board.                               *)
  Parents,        (* The parents of each task in task_links.               *)
  FailureLimit,   (* kanban.failure_limit, which the dispatcher passes on. *)
  DefaultLimit,   (* DEFAULT_FAILURE_LIMIT: 2.                             *)
  ViolationLimit, (* _PROTOCOL_VIOLATION_FAILURE_LIMIT: 3.                 *)
  SystemicCount,  (* How many equal crashes are systemic: 3.               *)
  BlockLimit,     (* BLOCK_RECURRENCE_LIMIT: 2.                            *)
  MaxRuns,        (* Bound on the runs.                                    *)
  MaxMoves,       (* Bound on the operator's moves.                        *)
  MaxCrashes,     (* Bound on the dispatcher's crashes.                    *)
  Runtime,        (* Whether the tasks have a max_runtime_seconds.         *)
  Unkillable,     (* Whether a worker may survive SIGKILL for a while.     *)
  Torn,           (* Whether it may die before a worker's pid is written.  *)
  Terminals       (* Whether a terminal may claim (kanban claim).          *)

ASSUME LimitsAssumption == /\ {FailureLimit, DefaultLimit, ViolationLimit,
                               SystemicCount, BlockLimit} \subseteq Nat \ {0}
                           /\ {MaxRuns, MaxMoves, MaxCrashes} \subseteq Nat
                           /\ {Runtime, Unkillable, Torn, Terminals} \subseteq BOOLEAN
ASSUME TasksAssumption == Tasks # {} /\ Parents \in [Tasks -> SUBSET Tasks]

VARIABLES
  task,     (* The row of each task, with what its events say of it.       *)
  runs,     (* The rows of task_runs.                                      *)
  proc,     (* The worker process of each run.                             *)
  disp,     (* Where the dispatcher is, and what it remembers.             *)
  op,       (* The same of the operator's process.                         *)
  moves,    (* How many moves the operator has made.                       *)
  crashes,  (* How many dispatchers have died.                             *)
  asked,    (* The phase each task was last sent to.                       *)
  tried     (* How many of its runs have failed since it was last forgiven. *)

board == <<task, runs>>
hist  == <<asked, tried>>
vars  == <<board, proc, disp, op, moves, crashes, hist>>

Status  == {"triage", "todo", "ready", "running", "review", "blocked",
            "scheduled", "done", "archived"}
Phase   == {"ready", "review"}
Kind    == {"none", "dependency", "input"}
Outcome == {"open", "completed", "review_requested", "changes_requested",
            "blocked", "scheduled", "reclaimed", "stale", "crashed", "violation",
            "rate_limited", "timed_out", "spawn_failed", "gave_up"}
RunId   == 1..MaxRuns

(***************************************************************************)
(* A claim_lock is the host and process of the claimer: a number for each  *)
(* dispatcher process, one more for a terminal, 0 for NULL.                *)
(***************************************************************************)
Me      == crashes + 1
Lane    == MaxCrashes + 2
Lock    == 0..Lane

(***************************************************************************)
(* resume is what _resume_status_from_events makes of the task's events,   *)
(* sticky what _has_sticky_block does, streak the trailing run of protocol *)
(* violations.                                                             *)
(***************************************************************************)
Row == [status : Status, lock : Lock, expired : BOOLEAN, pid : 0..MaxRuns,
        run : 0..MaxRuns, failures : Nat, streak : Nat, sticky : BOOLEAN,
        resume : Phase, kind : Kind, recur : Nat]
Run == [task : Tasks, source : Phase, lock : Lock, outcome : Outcome]

(***************************************************************************)
(* A process works, has handed its verdict in and clears up after it, or   *)
(* is dead; how it died is known to the dispatcher that has reaped it.     *)
(***************************************************************************)
Dead  == {"gone", "clean", "limited"}
Alive == {"work", "clear", "promote"}
Proc  == {"none"} \cup Alive \cup Dead

DispPc == {"idle", "reclaim", "timeout", "account", "spawn", "setpid"}
Disp   == [pc : DispPc, t : Tasks, lock : Lock, pid : 0..MaxRuns,
           why : {"ttl", "stale"}, failed : SUBSET [t : Tasks, violation : BOOLEAN],
           systemic : BOOLEAN]
Column == {"ready", "todo", "triage"}
OpPc   == {"idle", "reclaim", "drag", "kill", "clear", "promote", "forgive"}
Op     == [pc : OpPc, t : Tasks, lock : Lock, to : Column, kill : SUBSET RunId,
           after : {"idle", "promote"}]

Anyone   == CHOOSE t \in Tasks : TRUE
DispIdle == [pc |-> "idle", t |-> Anyone, lock |-> 0, pid |-> 0, why |-> "ttl",
             failed |-> {}, systemic |-> FALSE]
OpIdle   == [pc |-> "idle", t |-> Anyone, lock |-> 0, to |-> "todo", kill |-> {},
             after |-> "idle"]

(* create_task: ready without parents, todo with some. *)
Init ==
  /\ task = [t \in Tasks |->
       [status |-> IF Parents[t] = {} THEN "ready" ELSE "todo", lock |-> 0,
        expired |-> FALSE, pid |-> 0, run |-> 0, failures |-> 0, streak |-> 0,
        sticky |-> FALSE, resume |-> "ready", kind |-> "none", recur |-> 0]]
  /\ runs = <<>>
  /\ proc = [r \in RunId |-> "none"]
  /\ disp = DispIdle
  /\ op = OpIdle
  /\ moves = 0
  /\ crashes = 0
  /\ asked = [t \in Tasks |-> "ready"]
  /\ tried = [t \in Tasks |-> 0]

-----------------------------------------------------------------------------
(* What the transactions have in common.                                    *)

Satisfied(t) == \A p \in Parents[t] : task[p].status \in {"done", "archived"}

\* Slip: a reviewer's run goes back as an implementer's.
RetryReady(t) == "ready"

(* The phase an interrupted run goes back to: where it was claimed from. *)
RetryStatus(t) == IF task[t].run = 0 THEN "ready" ELSE runs[task[t].run].source

Landing(t) == IF Satisfied(t) THEN "ready" ELSE "todo"

Freed(row) == [row EXCEPT !.lock = 0, !.expired = FALSE, !.pid = 0]

\* Slip: the pointer is cleared and the run is left open.
LeftOpen(t, outcome) == runs

(* _end_run closes the open run of a task and clears the pointer to it. *)
Ended(t, outcome) ==
  IF task[t].run = 0 THEN runs
  ELSE [runs EXCEPT ![task[t].run].outcome = IF @ = "open" THEN outcome ELSE @]

Streak(row, outcome) ==
  CASE outcome = "violation"    -> row.streak + 1
    [] outcome = "rate_limited" -> row.streak
    [] OTHER                    -> IF row.run = 0 THEN row.streak ELSE 0

Without(row, outcome) == [row EXCEPT !.run = 0, !.streak = Streak(row, outcome)]

(* A transaction that writes the row and ends the run. *)
Close(t, row, outcome) ==
  /\ task' = [task EXCEPT ![t] = Without(row, outcome)]
  /\ runs' = Ended(t, outcome)

Failed(t, outcome) ==
  tried' = [tried EXCEPT ![t] = CASE outcome = "rate_limited" -> @
                                  [] outcome \in {"crashed", "violation", "timed_out",
                                                  "spawn_failed"} -> @ + 1
                                  [] OTHER -> 0]

(***************************************************************************)
(* recompute_ready: todo and blocked tasks whose parents are done go to    *)
(* the phase they resume in, unless a block is sticky or the failures have *)
(* reached the limit its caller passes.                                    *)
(***************************************************************************)
Promotable(t, limit) ==
  /\ Satisfied(t)
  /\ \/ task[t].status = "todo"
     \/ task[t].status = "blocked" /\ ~task[t].sticky /\ task[t].failures < limit

RecomputeReady(limit) ==
  task' = [t \in Tasks |-> IF Promotable(t, limit)
                           THEN [task[t] EXCEPT !.status = task[t].resume]
                           ELSE task[t]]

(* SIGTERM, then SIGKILL, to processes: those that do not survive it die. *)
Signal(pids) ==
  \E survivors \in IF Unkillable THEN SUBSET pids ELSE {{}} :
    proc' = [r \in RunId |-> IF r \in pids \ survivors /\ proc[r] \in Alive
                             THEN "gone" ELSE proc[r]]

\* Slip: a claim that no worker has is taken for a live one's.
TakenForAlive(pid) == IF pid = 0 THEN TRUE ELSE proc[pid] \in Alive

IsAlive(pid) == pid # 0 /\ proc[pid] \in Alive

\* Slip: the breaker never trips.
NeverTripped(row, limit, force) == [row EXCEPT !.failures = row.failures + 1]

(***************************************************************************)
(* _record_task_failure of a crash or a timeout.  Its caller has restored  *)
(* the phase and closed the run; the status it finds may be another one.   *)
(***************************************************************************)
Counted(row, limit, force) ==
  LET n == row.failures + 1
      open == row.status \in {"ready", "review", "running"}
  IN  IF force \/ n >= limit
      THEN [row EXCEPT !.status = IF open THEN "blocked" ELSE @,
                       !.failures = IF open THEN n ELSE @,
                       !.resume = IF row.status = "review" THEN "review" ELSE "ready"]
      ELSE [row EXCEPT !.failures = n]

-----------------------------------------------------------------------------
(* The dispatcher's tick.                                                    *)

DispIsIdle == disp.pc = "idle"
DispStep   == UNCHANGED <<op, moves, crashes>>

(* claim_task and claim_review_task, refused: the parents are not done. *)
ClaimRejected(t) ==
  /\ ~Satisfied(t)
  /\ task[t].status \in Phase
  /\ task[t].status = "review" => task[t].lock = 0
  /\ task' = [task EXCEPT ![t] =
       IF @.status = "ready" THEN [@ EXCEPT !.status = "todo"]
       ELSE [@ EXCEPT !.status = "todo", !.resume = "review"]]
  /\ UNCHANGED <<runs, proc, disp, hist>>

(* The claim: the task runs and has a new run; claim_task closes a leaked  *)
(* one, which it would also do before it fails on a ready task whose lock  *)
(* is set.  That needs a terminal's claim between a crash and its          *)
(* accounting, and an operator's move after it, and is left out.           *)
Claimed(t, from, by) ==
  /\ Satisfied(t)
  /\ task[t].status = from
  /\ task[t].lock = 0
  /\ Len(runs) < MaxRuns
  /\ runs' = Append(IF from = "ready" THEN Ended(t, "reclaimed") ELSE runs,
                    [task |-> t, source |-> from, lock |-> by, outcome |-> "open"])
  /\ task' = [task EXCEPT ![t] = [@ EXCEPT !.status = "running", !.lock = by,
                                           !.expired = FALSE, !.run = Len(runs) + 1]]

Claim(t) ==
  /\ DispIsIdle
  /\ DispStep
  /\ \/ ClaimRejected(t)
     \/ /\ \E from \in Phase : Claimed(t, from, Me)
        /\ disp' = [DispIdle EXCEPT !.pc = "spawn", !.t = t, !.pid = Len(runs) + 1]
        /\ UNCHANGED <<proc, hist>>

(* The worker is started with its run's id in its environment ... *)
Spawn ==
  /\ disp.pc = "spawn"
  /\ proc' = [proc EXCEPT ![disp.pid] = "work"]
  /\ disp' = [disp EXCEPT !.pc = "setpid"]
  /\ UNCHANGED <<board, hist>> /\ DispStep

(* ... and its pid is written, whatever has become of the task meanwhile. *)
SetWorkerPid ==
  /\ disp.pc = "setpid"
  /\ task' = [task EXCEPT ![disp.t].pid = disp.pid]
  /\ disp' = DispIdle
  /\ UNCHANGED <<runs, proc, hist>> /\ DispStep

(* _record_task_failure of a worker that could not be started. *)
SpawnFailed ==
  /\ disp.pc = "spawn"
  /\ LET t == disp.t
         row == task[t]
         n == row.failures + 1
         trip == n >= FailureLimit
         hit == row.status \in (IF trip THEN {"running", "ready", "review"} ELSE {"running"})
         new == [Freed(row) EXCEPT !.status = IF trip THEN "blocked" ELSE RetryStatus(t),
                                   !.failures = n]
         outcome == IF trip THEN "gave_up" ELSE "spawn_failed"
     IN  /\ Close(t, [IF hit THEN new ELSE row EXCEPT !.resume = RetryStatus(t)], outcome)
         /\ IF row.run = 0 THEN UNCHANGED tried ELSE Failed(t, "spawn_failed")
  /\ disp' = DispIdle
  /\ UNCHANGED <<proc, asked>> /\ DispStep

(***************************************************************************)
(* release_stale_claims ("ttl") and detect_stale_running ("stale"), for    *)
(* one row of their snapshot: a live worker's claim is extended unless it  *)
(* has been silent for an hour; one that survives its killing keeps the    *)
(* claim; otherwise the claim is released in a step of its own.            *)
(***************************************************************************)
Extended(t) == task' = [task EXCEPT ![t].expired = FALSE]

ReclaimStart(t, why) ==
  /\ DispIsIdle
  /\ task[t].status = "running"
  /\ why = "ttl" => task[t].expired
  /\ LET pid == task[t].pid IN
     \/ IsAlive(pid) /\ (why = "ttl" \/ Unkillable)
        /\ Extended(t) /\ UNCHANGED <<runs, proc, disp, hist>>
     \/ /\ proc' = [r \in RunId |-> IF r = pid /\ IsAlive(pid) THEN "gone" ELSE proc[r]]
        /\ disp' = [DispIdle EXCEPT !.pc = "reclaim", !.t = t, !.why = why,
                                    !.lock = task[t].lock, !.pid = pid]
        /\ UNCHANGED <<board, hist>>
  /\ DispStep

Retried(t) == [Freed(task[t]) EXCEPT !.status = RetryStatus(t), !.resume = RetryStatus(t)]

Reclaim ==
  /\ disp.pc = "reclaim"
  /\ LET t == disp.t
         outcome == IF disp.why = "ttl" THEN "reclaimed" ELSE "stale"
     IN  IF /\ task[t].status = "running" /\ task[t].lock = disp.lock
            /\ disp.why = "ttl" => task[t].expired
         THEN Close(t, Retried(t), outcome) /\ Failed(t, outcome)
         ELSE UNCHANGED <<board, tried>>
  /\ disp' = DispIdle
  /\ UNCHANGED <<proc, asked>> /\ DispStep

(* enforce_max_runtime: the worker is killed, and its run ends in a step of its own. *)
TimeoutStart(t) ==
  /\ Runtime
  /\ DispIsIdle
  /\ task[t].status = "running" /\ task[t].pid # 0 /\ task[t].lock # 0
  /\ Signal({task[t].pid})
  /\ disp' = [DispIdle EXCEPT !.pc = "timeout", !.t = t, !.lock = task[t].lock,
                              !.pid = task[t].pid]
  /\ UNCHANGED <<board, hist>> /\ DispStep

Timeout ==
  /\ disp.pc = "timeout"
  /\ LET t == disp.t IN
     IF /\ task[t].status = "running"
        /\ task[t].lock = disp.lock /\ task[t].pid = disp.pid
     THEN /\ Close(t, Retried(t), "timed_out")
          /\ Failed(t, "timed_out")
          /\ disp' = [DispIdle EXCEPT !.pc = "account",
                                      !.failed = {[t |-> t, violation |-> FALSE]}]
     ELSE disp' = DispIdle /\ UNCHANGED <<board, tried>>
  /\ UNCHANGED <<proc, asked>> /\ DispStep

(***************************************************************************)
(* detect_crashed_workers: one transaction over the running tasks whose    *)
(* worker is dead; those first started a moment ago are left for later.  A *)
(* clean exit without a verdict is a protocol violation, a rate-limited    *)
(* one no failure at all.                                                  *)
(***************************************************************************)
Verdict(pid) == CASE proc[pid] = "clean"   -> "violation"
                  [] proc[pid] = "limited" -> "rate_limited"
                  [] OTHER                 -> "crashed"

(* The event of a violation, protocol_violation, is none that resume heeds. *)
CrashedRow(t) ==
  IF Verdict(task[t].pid) = "violation"
  THEN [Retried(t) EXCEPT !.resume = task[t].resume]
  ELSE Retried(t)

\* Slip: the pid is not looked at.
HasRun(t) == task[t].status = "running" /\ task[t].pid # 0 /\ task[t].lock # 0

HasCrashed(t) == /\ task[t].status = "running"
                 /\ task[t].pid # 0 /\ task[t].lock # 0
                 /\ ~IsAlive(task[t].pid)

DetectCrashed(S) ==
  /\ DispIsIdle
  /\ S # {} /\ \A t \in S : HasCrashed(t)
  /\ LET how(t) == Verdict(task[t].pid)
         closed == {task[t].run : t \in S} \ {0}
     IN  /\ task' = [t \in Tasks |-> IF t \in S THEN Without(CrashedRow(t), how(t))
                                     ELSE task[t]]
         /\ runs' = [r \in DOMAIN runs |->
              IF r \in closed /\ runs[r].outcome = "open"
              THEN [runs[r] EXCEPT !.outcome = how(runs[r].task)] ELSE runs[r]]
         /\ tried' = [t \in Tasks |-> IF t \in S /\ how(t) # "rate_limited"
                                      THEN tried[t] + 1 ELSE tried[t]]
         /\ LET failed == {[t |-> t, violation |-> how(t) = "violation"] :
                             t \in {u \in S : how(u) # "rate_limited"}}
            IN  disp' = IF failed = {} THEN DispIdle
                        ELSE [DispIdle EXCEPT !.pc = "account", !.failed = failed,
                                !.systemic = Cardinality({f \in failed : ~f.violation})
                                               >= SystemicCount]
  /\ UNCHANGED <<proc, asked>> /\ DispStep

(***************************************************************************)
(* The failures are counted after that, each in a transaction of its own.  *)
(* Violations have a budget of their own and trip the breaker only at its  *)
(* end.                                                                    *)
(***************************************************************************)
Account(f) ==
  /\ disp.pc = "account"
  /\ f \in disp.failed
  /\ task' = [task EXCEPT ![f.t] =
       IF ~f.violation
       THEN Counted(@, IF disp.systemic THEN 1 ELSE DefaultLimit, FALSE)
       ELSE IF @.streak < ViolationLimit THEN @
       ELSE Counted(@, ViolationLimit, TRUE)]
  /\ disp' = IF disp.failed = {f} THEN DispIdle ELSE [disp EXCEPT !.failed = @ \ {f}]
  /\ UNCHANGED <<runs, proc, hist>> /\ DispStep

DispPromote ==
  /\ DispIsIdle
  /\ RecomputeReady(FailureLimit)
  /\ UNCHANGED <<runs, proc, disp, hist>> /\ DispStep

(* The dispatcher dies, and with it the failures it has not counted; the     *)
(* next one does not know how the workers exited.                           *)
DispDies ==
  /\ crashes < MaxCrashes
  /\ disp.pc = "setpid" => Torn
  /\ crashes' = crashes + 1
  /\ disp' = DispIdle
  /\ proc' = [r \in RunId |-> IF proc[r] \in Dead THEN "gone" ELSE proc[r]]
  /\ tried' = [t \in Tasks |-> IF \E f \in disp.failed : f.t = t THEN 0 ELSE tried[t]]
  /\ UNCHANGED <<board, op, moves, asked>>

-----------------------------------------------------------------------------
(* The transitions that a worker and an operator share.                     *)

Completed(t) ==
  /\ Satisfied(t)
  /\ task[t].status \in {"running", "ready", "blocked", "review"}
  /\ Close(t, [Freed(task[t]) EXCEPT !.status = "done", !.kind = "none", !.recur = 0],
           "completed")
  /\ asked' = [asked EXCEPT ![t] = "ready"]
  /\ Failed(t, "completed")

(* block_task: a dependency waits in todo, the rest in blocked or, again, in triage. *)
Blocked(t, kind) ==
  LET row == task[t]
      source == IF row.status = "running" THEN RetryStatus(t) ELSE "ready"
      n == IF row.kind = kind THEN row.recur + 1 ELSE 1
      new == [Freed(row) EXCEPT !.kind = kind, !.resume = source]
  IN  /\ row.status \in {"running", "ready"}
      /\ Close(t, IF kind = "dependency" THEN [new EXCEPT !.status = "todo"]
                  ELSE IF n >= BlockLimit
                  THEN [new EXCEPT !.status = "triage", !.recur = n]
                  ELSE [new EXCEPT !.status = "blocked", !.recur = n, !.sticky = TRUE],
               "blocked")
      /\ Failed(t, "blocked")
      /\ UNCHANGED asked

ReviewRequested(t) ==
  /\ Satisfied(t)
  /\ task[t].status \in {"running", "ready"}
  /\ Close(t, [Freed(task[t]) EXCEPT !.status = "review"], "review_requested")
  /\ asked' = [asked EXCEPT ![t] = "review"]
  /\ Failed(t, "review_requested")

-----------------------------------------------------------------------------
(* A worker, which is held to its own run by expected_run_id.               *)

WorkerStep == UNCHANGED <<disp, op, moves, crashes>>

Owns(r) == task[runs[r].task].run = r

WorkerComplete(r) ==
  /\ proc[r] = "work" /\ Owns(r)
  /\ Completed(runs[r].task)
  /\ proc' = [proc EXCEPT ![r] = "clear"]
  /\ WorkerStep

(* The worker has handed over and is about to exit. *)
WorkerBlock(r, kind) ==
  /\ proc[r] = "work" /\ Owns(r)
  /\ Blocked(runs[r].task, kind)
  /\ proc' = [proc EXCEPT ![r] = "clean"]
  /\ WorkerStep

WorkerRequestReview(r) ==
  /\ proc[r] = "work" /\ Owns(r)
  /\ ReviewRequested(runs[r].task)
  /\ proc' = [proc EXCEPT ![r] = "clean"]
  /\ WorkerStep

(* request_changes: only a run that was claimed from review may. *)
WorkerRequestChanges(r) ==
  /\ proc[r] = "work" /\ Owns(r)
  /\ LET t == runs[r].task IN
     /\ task[t].status = "running" /\ runs[r].source = "review"
     /\ Close(t, [Freed(task[t]) EXCEPT !.status = Landing(t), !.resume = "ready"],
              "changes_requested")
     /\ asked' = [asked EXCEPT ![t] = "ready"]
     /\ Failed(t, "changes_requested")
  /\ proc' = [proc EXCEPT ![r] = "clean"]
  /\ WorkerStep

(* complete_task goes on in two more transactions. *)
ClearFailures(t) ==
  /\ task' = [task EXCEPT ![t].failures = 0]
  /\ tried' = [tried EXCEPT ![t] = 0]

WorkerClear(r) ==
  /\ proc[r] = "clear"
  /\ ClearFailures(runs[r].task)
  /\ proc' = [proc EXCEPT ![r] = "promote"]
  /\ UNCHANGED <<runs, asked>> /\ WorkerStep

WorkerPromote(r) ==
  /\ proc[r] = "promote"
  /\ RecomputeReady(DefaultLimit)
  /\ proc' = [proc EXCEPT ![r] = "clean"]
  /\ UNCHANGED <<runs, hist>> /\ WorkerStep

(* heartbeat_claim, by the lock the worker was given. *)
Heartbeat(r) ==
  LET t == runs[r].task IN
  /\ proc[r] = "work"
  /\ task[t].status = "running" /\ task[t].lock = runs[r].lock
  /\ task[t].expired /\ Extended(t)
  /\ UNCHANGED <<runs, proc, hist>> /\ WorkerStep

Exit(r, how) ==
  /\ proc[r] \in Alive
  /\ how # "gone" => proc[r] = "work"
  /\ proc' = [proc EXCEPT ![r] = how]
  /\ UNCHANGED <<board, hist>> /\ WorkerStep

Expire(t) ==
  /\ task[t].status = "running" /\ task[t].lock # 0 /\ ~task[t].expired
  /\ task' = [task EXCEPT ![t].expired = TRUE]
  /\ UNCHANGED <<runs, proc, hist>> /\ WorkerStep

-----------------------------------------------------------------------------
(* The operator: each move is a transaction, some go on after it.           *)

OpMove ==
  /\ op.pc = "idle"
  /\ moves < MaxMoves
  /\ moves' = moves + 1
  /\ UNCHANGED <<disp, crashes>>

OpGoto(pc, t) == op' = [OpIdle EXCEPT !.pc = pc, !.t = t]

OpComplete(t) == OpMove /\ Completed(t) /\ OpGoto("clear", t) /\ UNCHANGED proc

OpBlock(t) == OpMove /\ Blocked(t, "input") /\ UNCHANGED <<op, proc>>

(* force=True: the operator may take a live worker's claim away. *)
OpRequestReview(t) == OpMove /\ ReviewRequested(t) /\ UNCHANGED <<op, proc>>

(* unblock_task closes a leaked run and leaves the claim as it is. *)
Unblocked(t) ==
  LET row == task[t]
      resume == IF row.status = "blocked" THEN row.resume ELSE "ready"
  IN  [row EXCEPT !.status = IF Satisfied(t) THEN resume ELSE "todo",
                  !.failures = 0, !.sticky = FALSE, !.resume = resume]

OpUnblock(t) ==
  /\ OpMove
  /\ task[t].status \in {"blocked", "scheduled"}
  /\ Close(t, Unblocked(t), "reclaimed")
  /\ tried' = [tried EXCEPT ![t] = 0]
  /\ UNCHANGED <<op, proc, asked>>

(* The parents are read before the transaction: a promotion that they       *)
(* overtake comes to the same as a forced one.                              *)
OpPromote(t, force) ==
  /\ OpMove
  /\ task[t].status \in {"todo", "blocked"}
  /\ force \/ Satisfied(t)
  /\ task' = [task EXCEPT ![t].status = "ready"]
  /\ asked' = [asked EXCEPT ![t] = "ready"]
  /\ UNCHANGED <<runs, op, proc, tried>>

OpReopenReview(t) ==
  /\ OpMove
  /\ task[t].status = "review"
  /\ Close(t, [Freed(task[t]) EXCEPT !.status = Landing(t), !.resume = "ready"],
           "reclaimed")
  /\ asked' = [asked EXCEPT ![t] = "ready"]
  /\ UNCHANGED <<op, proc, tried>>

(* A scheduled task resumes as an implementation, whatever it was before. *)
OpSchedule(t) ==
  /\ OpMove
  /\ task[t].status \in {"todo", "ready", "running", "blocked"}
  /\ Close(t, [Freed(task[t]) EXCEPT !.status = "scheduled"], "scheduled")
  /\ asked' = [asked EXCEPT ![t] = "ready"]
  /\ Failed(t, "scheduled")
  /\ UNCHANGED <<op, proc>>

OpArchive(t) ==
  /\ OpMove
  /\ task[t].status # "archived"
  /\ Close(t, [Freed(task[t]) EXCEPT !.status = "archived"], "reclaimed")
  /\ Failed(t, "reclaimed")
  /\ OpGoto("promote", t)
  /\ UNCHANGED <<proc, asked>>

OpSpecify(t) ==
  /\ OpMove
  /\ task[t].status = "triage"
  /\ task' = [task EXCEPT ![t].status = "todo"]
  /\ OpGoto("promote", t)
  /\ UNCHANGED <<runs, proc, hist>>

(***************************************************************************)
(* A card that is dragged (_set_status_direct).  One that was done or      *)
(* archived takes back, in the same transaction, every descendant that     *)
(* builds on it (invalidate_descendants_for_parent_reopen); the workers    *)
(* that lose their run by it are killed after the commit.                  *)
(***************************************************************************)
Children(t) == {c \in Tasks : t \in Parents[c]}
Descendants(t) ==
  {c \in Tasks : \A S \in SUBSET Tasks :
     Children(t) \subseteq S /\ (\A s \in S : Children(s) \subseteq S) => c \in S}

\* Slip: the descendants that are already done are left alone.
RetractedOpen(t) ==
  {c \in Descendants(t) \ {t} : task[c].status \in {"ready", "review", "running"}}

Retracted(t) ==
  {c \in Descendants(t) \ {t} : task[c].status \in {"ready", "review", "running", "done"}}

RetractedRow(c) ==
  LET row == task[c]
      resume == CASE row.status = "review"  -> "review"
                  [] row.status = "running" -> RetryStatus(c)
                  [] OTHER                  -> "ready"
  IN  [Freed(row) EXCEPT !.status = "todo", !.run = 0, !.failures = 0, !.resume = resume,
         !.streak = IF row.status = "running" THEN Streak(row, "reclaimed") ELSE @]

(***************************************************************************)
(* A card is dragged.  The board reads the task to leave what has a verb   *)
(* of its own to that (unblock, reopen); what it writes then, in a         *)
(* transaction of its own, is written whatever the task has become.  The   *)
(* workers are killed and the children looked at after that.               *)
(***************************************************************************)
OpDrag(t, new) ==
  /\ OpMove
  /\ CASE new = "ready" -> task[t].status \notin {"blocked", "scheduled", "review"}
       [] new = "todo"  -> task[t].status # "review"
       [] OTHER         -> TRUE
  /\ op' = [OpIdle EXCEPT !.pc = "drag", !.t = t, !.to = new]
  /\ UNCHANGED <<board, proc, hist>>

DragStatus(t, new) ==
  IF task[t].status = "running" /\ new = "ready" /\ RetryStatus(t) = "review"
  THEN IF Satisfied(t) THEN "review" ELSE "todo"
  ELSE new

StatusRefused(t, new) ==
  /\ DragStatus(t, new) = "ready" /\ ~Satisfied(t)
  /\ op' = OpIdle
  /\ UNCHANGED <<board, hist>>

StatusSet(t, new) ==
  LET row    == task[t]
      status == DragStatus(t, new)
      lost == IF row.status \in {"done", "archived"} THEN Retracted(t) ELSE {}
      ended == {c \in lost \cup {t} : task[c].status = "running" /\ task[c].run # 0}
  IN  /\ status = "ready" => Satisfied(t)
      /\ task' = [c \in Tasks |->
           IF c = t THEN LET moved == [Freed(row) EXCEPT !.status = status, !.resume = "ready"]
                         IN  IF t \in ended THEN Without(moved, "reclaimed") ELSE moved
           ELSE IF c \in lost THEN RetractedRow(c) ELSE task[c]]
      /\ runs' = [r \in DOMAIN runs |->
           IF runs[r].outcome = "open" /\ \E c \in ended : task[c].run = r
           THEN [runs[r] EXCEPT !.outcome = "reclaimed"] ELSE runs[r]]
      /\ asked' = [c \in Tasks |-> IF c = t /\ status # "review" THEN "ready" ELSE asked[c]]
      /\ tried' = [c \in Tasks |-> IF c \in lost \cup ended THEN 0 ELSE tried[c]]
      /\ op' = [OpIdle EXCEPT !.pc = "kill", !.t = t,
                  !.kill = {task[c].pid : c \in ended} \ {0},
                  !.after = IF status \in {"ready", "review"} THEN "promote" ELSE "idle"]

OpSetStatus ==
  /\ op.pc = "drag"
  /\ StatusSet(op.t, op.to) \/ StatusRefused(op.t, op.to)
  /\ UNCHANGED <<proc, disp, moves, crashes>>

OpKill ==
  /\ op.pc = "kill"
  /\ Signal(op.kill)
  /\ IF op.after = "promote" THEN OpGoto("promote", op.t) ELSE op' = OpIdle
  /\ UNCHANGED <<board, disp, moves, crashes, hist>>

(***************************************************************************)
(* reclaim_task: the claim is read, its worker killed, and the claim       *)
(* released if the lock is still the same, whether the worker died or not. *)
(***************************************************************************)
OpReclaimStart(t) ==
  /\ OpMove
  /\ task[t].status = "running" \/ task[t].lock # 0
  /\ IF task[t].lock # 0 THEN Signal({task[t].pid} \ {0}) ELSE UNCHANGED proc
  /\ op' = [OpIdle EXCEPT !.pc = "reclaim", !.t = t, !.lock = task[t].lock]
  /\ UNCHANGED <<board, hist>>

OpReclaim ==
  /\ op.pc = "reclaim"
  /\ LET t == op.t IN
     IF task[t].status \in {"running", "ready", "blocked"} /\ task[t].lock = op.lock
     THEN Close(t, Retried(t), "reclaimed") /\ Failed(t, "reclaimed") /\ OpGoto("forgive", t)
     ELSE op' = OpIdle /\ UNCHANGED <<board, tried>>
  /\ UNCHANGED <<proc, disp, moves, crashes, asked>>

OpClear ==
  /\ op.pc \in {"clear", "forgive"}
  /\ ClearFailures(op.t)
  /\ IF op.pc = "clear" THEN OpGoto("promote", op.t) ELSE op' = OpIdle
  /\ UNCHANGED <<runs, proc, disp, moves, crashes, asked>>

OpRecompute ==
  /\ op.pc = "promote"
  /\ RecomputeReady(DefaultLimit)
  /\ op' = OpIdle
  /\ UNCHANGED <<runs, proc, disp, moves, crashes, hist>>

OpDies ==
  /\ op.pc # "idle"
  /\ op' = OpIdle
  /\ UNCHANGED <<board, proc, disp, moves, crashes, hist>>

(***************************************************************************)
(* kanban claim, at a terminal, for one who does the work by hand: there   *)
(* is no worker process, and the lock is the terminal's.                   *)
(***************************************************************************)
TerminalClaim(t) ==
  /\ Terminals
  /\ \/ ClaimRejected(t)
     \/ Claimed(t, "ready", Lane) /\ UNCHANGED <<proc, disp, hist>>
  /\ UNCHANGED <<op, moves, crashes>>

-----------------------------------------------------------------------------
DispPass(t) == \/ Claim(t) \/ TimeoutStart(t)
               \/ \E why \in {"ttl", "stale"} : ReclaimStart(t, why)
DispGoesOn == \/ Spawn \/ SetWorkerPid \/ SpawnFailed \/ Reclaim \/ Timeout
              \/ \E f \in disp.failed : Account(f)
Dispatcher == \/ \E t \in Tasks : DispPass(t)
              \/ \E S \in SUBSET Tasks : DetectCrashed(S)
              \/ DispGoesOn \/ DispPromote

Worker(r) == \/ WorkerComplete(r) \/ WorkerRequestReview(r) \/ WorkerRequestChanges(r)
             \/ \E kind \in {"dependency", "input"} : WorkerBlock(r, kind)
             \/ WorkerClear(r) \/ WorkerPromote(r) \/ Heartbeat(r)
             \/ \E how \in Dead : Exit(r, how)

Operator == \/ \E t \in Tasks :
                 \/ OpComplete(t) \/ OpBlock(t) \/ OpUnblock(t) \/ OpRequestReview(t)
                 \/ OpReopenReview(t) \/ OpSchedule(t) \/ OpArchive(t) \/ OpSpecify(t)
                 \/ OpReclaimStart(t)
                 \/ \E force \in BOOLEAN : OpPromote(t, force)
                 \/ \E new \in Column : OpDrag(t, new)
            \/ OpSetStatus \/ OpKill \/ OpReclaim \/ OpClear \/ OpRecompute \/ OpDies

Next == \/ Dispatcher \/ DispDies \/ Operator
        \/ \E r \in DOMAIN runs : Worker(r)
        \/ \E t \in Tasks : Expire(t) \/ TerminalClaim(t)

Spec == Init /\ [][Next]_vars

(***************************************************************************)
(* The dispatcher ticks for ever and takes every pass in each of its       *)
(* ticks; a claim that nobody extends expires.  Nothing is assumed of a    *)
(* worker or of the operator.                                              *)
(***************************************************************************)
Fairness ==
  /\ WF_vars(DispGoesOn)
  /\ SF_vars(\E S \in SUBSET Tasks : DetectCrashed(S))
  /\ \A t \in Tasks : WF_vars(Expire(t)) /\ SF_vars(ReclaimStart(t, "ttl"))

FairSpec == Spec /\ Fairness

-----------------------------------------------------------------------------
TypeOK ==
  /\ task \in [Tasks -> Row]
  /\ runs \in Seq(Run) /\ Len(runs) <= MaxRuns
  /\ proc \in [RunId -> Proc]
  /\ disp \in Disp
  /\ op \in Op
  /\ moves \in 0..MaxMoves
  /\ crashes \in 0..MaxCrashes
  /\ asked \in [Tasks -> Phase]
  /\ tried \in [Tasks -> Nat]

IsOpen(r) == r \in DOMAIN runs /\ runs[r].outcome = "open"

(***************************************************************************)
(* The runs invariant of _reclaim_dangling_run: an open run is the current *)
(* run of its task, and a task has a run and a claim while it is running   *)
(* and at no other time.  A terminal breaks it: it may claim the task of a *)
(* crashed worker before the crash is counted, and the breaker that trips  *)
(* over that failure then blocks a running task.                           *)
(***************************************************************************)
Ledger ==
  /\ \A r \in DOMAIN runs : IsOpen(r) => task[runs[r].task].run = r
  /\ \A t \in Tasks :
       IF task[t].status = "running"
       THEN task[t].lock # 0 /\ IsOpen(task[t].run) /\ runs[task[t].run].task = t
       ELSE task[t].lock = 0 /\ task[t].run = 0

(* A task points to a run of its own, while it runs; a pointer that is left *)
(* when it does not is that of an implementer's run.                        *)
PointersHold ==
  \A t \in Tasks :
    /\ task[t].run # 0 => task[t].run \in DOMAIN runs
    /\ task[t].status = "running" => task[t].run # 0
    /\ task[t].status # "running" /\ task[t].run # 0 => runs[task[t].run].source = "ready"

(* The worker to be started has the latest run.  A failure that is still to *)
(* be counted is that of a task that has been taken back, or taken up again *)
(* at a terminal.                                                           *)
DispAgrees ==
  /\ disp.pc \in {"spawn", "setpid"} => disp.pid \in DOMAIN runs
  /\ disp.pc # "account" => disp.failed = {}
  /\ \A f \in disp.failed :
       task[f.t].status = "running" => Terminals /\ runs[task[f.t].run].source = "ready"

IInv == TypeOK /\ PointersHold /\ DispAgrees /\ (Terminals \/ Ledger)

(***************************************************************************)
(* A task that is carried out, reviewed or done stands on parents that are *)
(* done: the promise of claim_task, for as long as it is kept.             *)
(***************************************************************************)
PremiseHolds ==
  \A t \in Tasks : task[t].status \in {"running", "review", "done"} => Satisfied(t)

(* A task runs in the phase it was last sent to: a review whose worker     *)
(* crashed, timed out, blocked or was reclaimed is taken up as a review.   *)
PhaseKept ==
  \A t \in Tasks : task[t].status = "running" => runs[task[t].run].source = asked[t]

(* The breaker ends the retries: of each task only so many runs fail       *)
(* before somebody forgives them or moves the task.                        *)
RetriesEnd ==
  \A t \in Tasks : tried[t] <= ViolationLimit * (FailureLimit + moves)

(* No two workers work on a task at the same time. *)
OneWorker ==
  \A r, s \in DOMAIN runs :
    runs[r].task = runs[s].task /\ proc[r] = "work" /\ proc[s] = "work" => r = s

(* recompute_ready agrees with the breaker: what it has parked leaves      *)
(* blocked by a move of the operator only.                                 *)
TripHolds ==
  [][\A t \in Tasks : task[t].status = "blocked" /\ task'[t].status # "blocked"
                        => moves' # moves]_vars

(* A running task without a live worker is taken back or gets one. *)
Recovered ==
  \A t \in Tasks :
    LET unattended == task[t].status = "running" /\ proc[task[t].run] \notin Alive
    IN  unattended ~> ~unattended

===============================================================================
