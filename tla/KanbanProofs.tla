----------------------------- MODULE KanbanProofs -----------------------------
(* Proofs about Kanban: for any tasks, links, limits, runs and crashes.    *)
EXTENDS Kanban, TLAPS

USE LimitsAssumption, TasksAssumption

-------------------------------------------------------------------------------
(* The rows.                                                               *)

LEMMA IdleTypes ==
  /\ Anyone \in Tasks /\ DispIdle \in Disp /\ OpIdle \in Op
  /\ DispIdle.pc = "idle" /\ DispIdle.failed = {}
<1>1. Anyone \in Tasks
  BY DEF Anyone
<1>2. 0 \in Lock /\ 0 \in 0..MaxRuns
  BY DEF Lock, Lane
<1> QED
  BY <1>1, <1>2 DEF DispIdle, Disp, DispPc, OpIdle, Op, OpPc, Column

LEMMA RowFields ==
  ASSUME NEW row \in Row
  PROVE  /\ row.status \in Status /\ row.lock \in Lock /\ row.pid \in 0..MaxRuns
         /\ row.run \in 0..MaxRuns /\ row.failures \in Nat /\ row.streak \in Nat
         /\ row.resume \in Phase /\ row.kind \in Kind /\ row.recur \in Nat
BY DEF Row

(* The claim is given up: the fields that no claim has a part in stay.     *)
LEMMA FreedFacts ==
  ASSUME NEW row \in Row
  PROVE  /\ Freed(row) \in Row /\ Freed(row).lock = 0 /\ Freed(row).run = row.run
         /\ Freed(row).status = row.status /\ Freed(row).failures = row.failures
         /\ Freed(row).resume = row.resume /\ Freed(row).streak = row.streak
         /\ Freed(row).pid = 0
<1>1. 0 \in Lock /\ 0 \in 0..MaxRuns
  BY DEF Lock, Lane
<1> QED
  BY <1>1 DEF Freed, Row

LEMMA WithoutFacts ==
  ASSUME NEW row \in Row, NEW outcome
  PROVE  /\ Without(row, outcome) \in Row /\ Without(row, outcome).run = 0
         /\ Without(row, outcome).lock = row.lock
         /\ Without(row, outcome).status = row.status
         /\ Without(row, outcome).resume = row.resume
         /\ Without(row, outcome).failures = row.failures
         /\ Without(row, outcome).pid = row.pid
         /\ Without(row, outcome).sticky = row.sticky
<1>1. Streak(row, outcome) \in Nat
  BY DEF Streak, Row
<1>2. 0 \in 0..MaxRuns
  OBVIOUS
<1> HIDE DEF Streak
<1> QED
  BY <1>1, <1>2 DEF Without, Row

(* A failure is counted: the breaker trips, or finds the task at rest, or  *)
(* has more patience.                                                      *)
CountedAs(row, new) ==
  LET n == row.failures + 1
      open == row.status \in {"ready", "review", "running"}
  IN  \/ open /\ new = [row EXCEPT !.status = "blocked", !.failures = n,
               !.resume = IF row.status = "review" THEN "review" ELSE "ready"]
      \/ ~open /\ new = [row EXCEPT !.resume = "ready"]
      \/ new = [row EXCEPT !.failures = n]

LEMMA CountedFacts ==
  ASSUME NEW row \in Row, NEW new, CountedAs(row, new)
  PROVE  /\ new \in Row /\ new.run = row.run /\ new.lock = row.lock /\ new.pid = row.pid
         /\ \/ /\ new.status = "blocked" /\ row.status \in {"ready", "review", "running"}
               /\ new.resume = (IF row.status = "review" THEN "review" ELSE "ready")
            \/ /\ new.status = row.status /\ row.status \notin {"ready", "review", "running"}
               /\ new.resume = "ready"
            \/ new.status = row.status /\ new.resume = row.resume
         /\ new.sticky = row.sticky
<1> DEFINE n == row.failures + 1
           open == row.status \in {"ready", "review", "running"}
           resume == IF row.status = "review" THEN "review" ELSE "ready"
<1>1. n \in Nat /\ resume \in Phase /\ "ready" \in Phase /\ "blocked" \in Status
  BY DEF Row, Status, Phase
<1>2. \/ open /\ new = [row EXCEPT !.status = "blocked", !.failures = n, !.resume = resume]
      \/ ~open /\ new = [row EXCEPT !.resume = "ready"]
      \/ new = [row EXCEPT !.failures = n]
  BY DEF CountedAs
<1> HIDE DEF n
<1>3. CASE open /\ new = [row EXCEPT !.status = "blocked", !.failures = n, !.resume = resume]
  <2>1. PICK p \in Phase : p = resume
    BY <1>1
  <2>2. new = [row EXCEPT !.status = "blocked", !.failures = n, !.resume = p]
    BY <1>3, <2>1
  <2>3. /\ new \in Row /\ new.run = row.run /\ new.lock = row.lock /\ new.pid = row.pid
        /\ new.status = "blocked" /\ new.resume = p /\ new.sticky = row.sticky
    BY <1>1, <2>2 DEF Row
  <2> QED
    BY <1>3, <2>1, <2>3
<1>4. CASE ~open /\ new = [row EXCEPT !.resume = "ready"]
  <2>1. /\ new \in Row /\ new.run = row.run /\ new.lock = row.lock /\ new.pid = row.pid
        /\ new.status = row.status /\ new.resume = "ready" /\ new.sticky = row.sticky
    BY <1>1, <1>4 DEF Row
  <2> QED
    BY <1>4, <2>1
<1>5. CASE new = [row EXCEPT !.failures = n]
  <2>1. /\ new \in Row /\ new.run = row.run /\ new.lock = row.lock /\ new.pid = row.pid
        /\ new.status = row.status /\ new.resume = row.resume /\ new.sticky = row.sticky
    BY <1>1, <1>5 DEF Row
  <2> QED
    BY <2>1
<1> QED
  BY <1>2, <1>3, <1>4, <1>5

-------------------------------------------------------------------------------
(* The board before and after a transaction.                               *)

BoardType == task \in [Tasks -> Row] /\ runs \in Seq(Run) /\ Len(runs) <= MaxRuns

LEMMA RunTypes ==
  ASSUME BoardType
  PROVE  /\ Len(runs) \in Nat /\ DOMAIN runs = 1..Len(runs) /\ DOMAIN runs \subseteq RunId
         /\ \A r \in DOMAIN runs :
              /\ runs[r] \in Run /\ runs[r].task \in Tasks /\ runs[r].source \in Phase
              /\ runs[r].outcome \in Outcome /\ r # 0
         /\ \A t \in Tasks : task[t] \in Row
<1>1. Len(runs) \in Nat /\ DOMAIN runs = 1..Len(runs) /\ Len(runs) <= MaxRuns
  BY DEF BoardType
<1>2. DOMAIN runs \subseteq RunId
  BY <1>1 DEF RunId
<1>3. \A r \in DOMAIN runs : runs[r] \in Run
  BY DEF BoardType
<1> QED
  BY <1>1, <1>2, <1>3 DEF BoardType, Run

(* What a transaction does to the run of a task that it has ended, and to  *)
(* every other run.                                                        *)
RunsStay ==
  /\ runs' \in Seq(Run) /\ Len(runs') = Len(runs) /\ DOMAIN runs' = DOMAIN runs
  /\ \A r \in DOMAIN runs :
       /\ runs'[r].task = runs[r].task /\ runs'[r].source = runs[r].source
       /\ runs'[r].lock = runs[r].lock
       /\ runs[r].outcome # "open" => runs'[r].outcome # "open"

Keeps(t) ==
  /\ task'[t].run = task[t].run /\ task'[t].lock = task[t].lock
  /\ task'[t].status = "running" <=> task[t].status = "running"
  /\ Terminals \/ task[t].run = 0 \/ runs'[task[t].run] = runs[task[t].run]

Frees(t) ==
  /\ task'[t].run = 0 /\ task'[t].lock = 0 /\ task'[t].status # "running"
  /\ task[t].run # 0 => runs'[task[t].run].outcome # "open"

Leaks(t) ==
  /\ Terminals
  /\ task'[t].status # "running"
  /\ task'[t].run = 0
       \/ /\ task'[t].run = task[t].run
          /\ task[t].status = "running" => runs[task[t].run].source = "ready"

RowsStay == task' \in [Tasks -> Row] /\ \A t \in Tasks : Keeps(t) \/ Frees(t) \/ Leaks(t)

BoardHolds == PointersHold /\ (Terminals \/ Ledger)

LEMMA BoardStep ==
  ASSUME BoardType, BoardHolds, RunsStay, RowsStay
  PROVE  BoardType' /\ BoardHolds'
<1>1. BoardType'
  BY DEF BoardType, RunsStay, RowsStay
<1>2. PointersHold'
  <2> SUFFICES ASSUME NEW t \in Tasks
               PROVE  /\ task'[t].run # 0 => task'[t].run \in DOMAIN runs'
                      /\ task'[t].status = "running" => task'[t].run # 0
                      /\ task'[t].status # "running" /\ task'[t].run # 0
                           => runs'[task'[t].run].source = "ready"
    BY DEF PointersHold
  <2>1. /\ task[t].run # 0 => task[t].run \in DOMAIN runs
        /\ task[t].status = "running" => task[t].run # 0
        /\ task[t].status # "running" /\ task[t].run # 0
             => runs[task[t].run].source = "ready"
    BY DEF BoardHolds, PointersHold
  <2>2. CASE Keeps(t)
    BY <2>1, <2>2 DEF Keeps, RunsStay
  <2>3. CASE Frees(t)
    BY <2>3 DEF Frees
  <2>4. CASE Leaks(t)
    BY <2>1, <2>4 DEF Leaks, RunsStay
  <2> QED
    BY <2>2, <2>3, <2>4 DEF RowsStay
<1>3. ASSUME ~Terminals
      PROVE  Ledger'
  <2>1. /\ \A r \in DOMAIN runs : IsOpen(r) => task[runs[r].task].run = r
        /\ \A t \in Tasks :
             IF task[t].status = "running"
             THEN task[t].lock # 0 /\ IsOpen(task[t].run) /\ runs[task[t].run].task = t
             ELSE task[t].lock = 0 /\ task[t].run = 0
    BY <1>3 DEF BoardHolds, Ledger
  <2>2. \A t \in Tasks : Keeps(t) \/ Frees(t)
    BY <1>3 DEF RowsStay, Leaks
  <2>3. ASSUME NEW r \in DOMAIN runs, runs'[r].outcome = "open"
        PROVE  task'[runs'[r].task].run = r
    <3>1. /\ runs'[r].task = runs[r].task /\ runs[r].task \in Tasks /\ r # 0
          /\ runs[r].outcome = "open"
      BY <2>3, RunTypes DEF RunsStay
    <3>2. task[runs[r].task].run = r
      BY <2>1, <3>1 DEF IsOpen
    <3>3. ~Frees(runs[r].task)
      BY <2>3, <3>1, <3>2 DEF Frees
    <3> QED
      BY <2>2, <3>1, <3>2, <3>3 DEF Keeps
  <2>4. ASSUME NEW t \in Tasks
        PROVE  IF task'[t].status = "running"
               THEN /\ task'[t].lock # 0 /\ runs'[task'[t].run].task = t
                    /\ task'[t].run \in DOMAIN runs' /\ runs'[task'[t].run].outcome = "open"
               ELSE task'[t].lock = 0 /\ task'[t].run = 0
    <3>1. CASE Frees(t)
      BY <3>1 DEF Frees
    <3>2. CASE Keeps(t) /\ task[t].status = "running"
      <4>1. task[t].run \in DOMAIN runs /\ task[t].run # 0
        BY <2>1, <3>2, RunTypes DEF IsOpen
      <4> QED
        BY <1>3, <2>1, <3>2, <4>1 DEF Keeps, IsOpen, RunsStay
    <3>3. CASE Keeps(t) /\ task[t].status # "running"
      BY <2>1, <3>3 DEF Keeps
    <3> QED
      BY <2>2, <3>1, <3>2, <3>3
  <2> QED
    BY <2>3, <2>4 DEF Ledger, IsOpen, RunsStay
<1> QED
  BY <1>1, <1>2, <1>3 DEF BoardHolds

LEMMA RunsUnchanged ==
  ASSUME BoardType, runs' = runs
  PROVE  RunsStay
BY RunTypes DEF RunsStay, BoardType

(* _end_run: the run of the task is not open afterwards, the others stay.  *)
LEMMA EndedFacts ==
  ASSUME BoardType, PointersHold, NEW t \in Tasks, NEW outcome \in Outcome \ {"open"},
         runs' = Ended(t, outcome)
  PROVE  /\ RunsStay
         /\ task[t].run # 0 => runs'[task[t].run].outcome # "open"
         /\ \A r \in DOMAIN runs \ {task[t].run} : runs'[r] = runs[r]
<1>1. /\ Len(runs) \in Nat /\ DOMAIN runs = 1..Len(runs)
      /\ \A r \in DOMAIN runs : runs[r] \in Run
      /\ runs \in Seq(Run) /\ runs = [r \in DOMAIN runs |-> runs[r]]
  BY RunTypes DEF BoardType
<1>2. CASE task[t].run = 0
  BY <1>2, RunsUnchanged DEF Ended
<1>3. CASE task[t].run # 0
  <2> DEFINE r == task[t].run
             o == IF runs[r].outcome = "open" THEN outcome ELSE runs[r].outcome
             new == [runs[r] EXCEPT !.outcome = o]
  <2>1. r \in DOMAIN runs /\ runs[r] \in Run
    BY <1>1, <1>3 DEF PointersHold
  <2>2. o \in Outcome /\ o # "open" /\ (runs[r].outcome # "open" => o # "open")
    BY <2>1 DEF Run
  <2> HIDE DEF o
  <2>3. /\ new \in Run /\ new.task = runs[r].task /\ new.source = runs[r].source
        /\ new.lock = runs[r].lock /\ new.outcome = o
    BY <2>1, <2>2 DEF Run
  <2>4. runs' = [runs EXCEPT ![r] = new]
    BY <1>3, <2>1 DEF Ended, o
  <2> HIDE DEF new, r
  <2>5. runs' \in Seq(Run) /\ Len(runs') = Len(runs) /\ DOMAIN runs' = DOMAIN runs
    BY <1>1, <2>1, <2>3, <2>4
  <2>6. runs'[r] = new /\ \A s \in DOMAIN runs \ {r} : runs'[s] = runs[s]
    BY <1>1, <2>1, <2>4
  <2>7. RunsStay
    BY <2>2, <2>3, <2>5, <2>6 DEF RunsStay
  <2> QED
    BY <2>2, <2>3, <2>6, <2>7 DEF r
<1> QED
  BY <1>2, <1>3

(* The pointers of two tasks are not the same.                             *)
LEMMA PointersDiffer ==
  ASSUME BoardType, BoardHolds, ~Terminals, NEW t \in Tasks, NEW u \in Tasks,
         task[t].run # 0, task[t].run = task[u].run
  PROVE  t = u
BY DEF BoardHolds, Ledger

(* A transaction that writes one row and ends its run.                     *)
LEMMA CloseStep ==
  ASSUME BoardType, BoardHolds, NEW t \in Tasks, NEW row \in Row,
         NEW outcome \in Outcome \ {"open"}, Close(t, row, outcome),
         row.status # "running", row.lock = 0
  PROVE  /\ RunsStay /\ RowsStay
         /\ task'[t] = Without(row, outcome)
         /\ \A u \in Tasks \ {t} : task'[u] = task[u]
<1>1. /\ task' = [task EXCEPT ![t] = Without(row, outcome)] /\ runs' = Ended(t, outcome)
  BY DEF Close
<1>2. /\ Without(row, outcome) \in Row /\ Without(row, outcome).run = 0
      /\ Without(row, outcome).lock = 0 /\ Without(row, outcome).status # "running"
  BY WithoutFacts
<1>3. /\ task' \in [Tasks -> Row] /\ task'[t] = Without(row, outcome)
      /\ \A u \in Tasks \ {t} : task'[u] = task[u]
  BY <1>1, <1>2 DEF BoardType
<1>4. /\ RunsStay
      /\ task[t].run # 0 => runs'[task[t].run].outcome # "open"
      /\ \A r \in DOMAIN runs \ {task[t].run} : runs'[r] = runs[r]
  BY <1>1, EndedFacts DEF BoardHolds
<1>5. Frees(t)
  BY <1>2, <1>3, <1>4 DEF Frees
<1>6. ASSUME NEW u \in Tasks \ {t}
      PROVE  Keeps(u)
  <2>1. task'[u] = task[u]
    BY <1>3
  <2>2. Terminals \/ task[u].run = 0 \/ runs'[task[u].run] = runs[task[u].run]
    BY <1>4, PointersDiffer DEF BoardHolds, PointersHold
  <2> QED
    BY <2>1, <2>2 DEF Keeps
<1> QED
  BY <1>3, <1>4, <1>5, <1>6 DEF RowsStay

(* One that ends no run, and gives and takes no claim.                     *)
LEMMA RowsKept ==
  ASSUME BoardType, runs' = runs, task' \in [Tasks -> Row],
         \A t \in Tasks : /\ task'[t].run = task[t].run /\ task'[t].lock = task[t].lock
                          /\ task'[t].status = "running" <=> task[t].status = "running"
  PROVE  RunsStay /\ RowsStay
BY RunsUnchanged DEF RowsStay, Keeps

LEMMA NoRows ==
  ASSUME BoardType, UNCHANGED board
  PROVE  RunsStay /\ RowsStay
BY RowsKept DEF board, BoardType

(* recompute_ready.                                                        *)
LEMMA RecomputeStep ==
  ASSUME BoardType, NEW limit, RecomputeReady(limit), runs' = runs
  PROVE  /\ RunsStay /\ RowsStay
         /\ \A t \in Tasks :
              \/ task'[t] = task[t]
              \/ /\ Promotable(t, limit) /\ task'[t] \in Row
                 /\ task'[t] = [task[t] EXCEPT !.status = task[t].resume]
                 /\ task'[t].status = task[t].resume
<1>1. ASSUME NEW t \in Tasks
      PROVE  /\ task'[t] \in Row
             /\ task'[t].run = task[t].run /\ task'[t].lock = task[t].lock
             /\ task'[t].status = "running" <=> task[t].status = "running"
             /\ \/ task'[t] = task[t]
                \/ /\ Promotable(t, limit)
                   /\ task'[t] = [task[t] EXCEPT !.status = task[t].resume]
                   /\ task'[t].status = task[t].resume
  <2>1. task[t] \in Row
    BY DEF BoardType
  <2>2. CASE Promotable(t, limit)
    <3>1. task'[t] = [task[t] EXCEPT !.status = task[t].resume]
      BY <2>2 DEF RecomputeReady
    <3>2. /\ task[t].resume \in Status /\ task[t].resume # "running"
          /\ task[t].status # "running"
      BY <2>1, <2>2 DEF Row, Phase, Status, Promotable
    <3> QED
      BY <2>1, <2>2, <3>1, <3>2 DEF Row
  <2>3. CASE ~Promotable(t, limit)
    BY <2>1, <2>3 DEF RecomputeReady
  <2> QED
    BY <2>2, <2>3
<1>2. task' \in [Tasks -> Row]
  BY <1>1 DEF RecomputeReady
<1> QED
  BY <1>1, <1>2, RowsKept

-------------------------------------------------------------------------------
(* The invariant and its parts.                                            *)

OtherType ==
  /\ proc \in [RunId -> Proc] /\ disp \in Disp /\ op \in Op
  /\ moves \in 0..MaxMoves /\ crashes \in 0..MaxCrashes
  /\ asked \in [Tasks -> Phase] /\ tried \in [Tasks -> Nat]

LEMMA Parts == IInv <=> BoardType /\ OtherType /\ BoardHolds /\ DispAgrees
BY DEF IInv, TypeOK, BoardType, OtherType, BoardHolds

(* What the dispatcher goes on with it had before.                         *)
DispStays ==
  /\ disp'.failed \subseteq disp.failed
  /\ disp'.pc # "account" => disp'.failed = {}
  /\ disp'.pc \in {"spawn", "setpid"}
       => disp.pc \in {"spawn", "setpid"} /\ disp'.pid = disp.pid

LEMMA DispSame ==
  ASSUME DispAgrees, disp' \in {disp, DispIdle}
  PROVE  DispStays
BY IdleTypes DEF DispStays, DispAgrees

LEMMA DispKept ==
  ASSUME BoardType, BoardHolds, DispAgrees, OtherType, RunsStay, RowsStay, DispStays
  PROVE  DispAgrees'
<1>1. /\ disp'.pc \in {"spawn", "setpid"} => disp'.pid \in DOMAIN runs'
      /\ disp'.pc # "account" => disp'.failed = {}
  BY DEF DispAgrees, DispStays, RunsStay
<1>2. ASSUME NEW f \in disp'.failed, task'[f.t].status = "running"
      PROVE  Terminals /\ runs'[task'[f.t].run].source = "ready"
  <2>1. f \in disp.failed /\ f.t \in Tasks
    BY <1>2 DEF DispStays, OtherType, Disp
  <2>2. task[f.t].status = "running" /\ task'[f.t].run = task[f.t].run
    BY <1>2, <2>1 DEF RowsStay, Keeps, Frees, Leaks
  <2>3. task[f.t].run \in DOMAIN runs
    BY <2>1, <2>2 DEF BoardHolds, PointersHold
  <2> QED
    BY <2>1, <2>2, <2>3 DEF DispAgrees, RunsStay
<1> QED
  BY <1>1, <1>2 DEF DispAgrees

LEMMA StepKeeps ==
  ASSUME IInv, RunsStay, RowsStay, DispStays, OtherType'
  PROVE  IInv'
<1>1. BoardType /\ OtherType /\ BoardHolds /\ DispAgrees
  BY Parts
<1>2. BoardType' /\ BoardHolds' /\ DispAgrees'
  BY <1>1, BoardStep, DispKept
<1> QED
  BY <1>2 DEF IInv, TypeOK, BoardType, OtherType, BoardHolds

LEMMA CloseKeeps ==
  ASSUME IInv, NEW t \in Tasks, NEW row \in Row, NEW outcome \in Outcome \ {"open"},
         Close(t, row, outcome), row.status # "running", row.lock = 0, DispStays, OtherType'
  PROVE  IInv'
BY Parts, CloseStep, StepKeeps

LEMMA FailedType ==
  ASSUME tried \in [Tasks -> Nat], NEW t \in Tasks, NEW outcome, Failed(t, outcome)
  PROVE  tried' \in [Tasks -> Nat]
BY DEF Failed

LEMMA SignalType ==
  ASSUME proc \in [RunId -> Proc], NEW pids, Signal(pids)
  PROVE  proc' \in [RunId -> Proc]
<1>1. PICK survivors \in IF Unkillable THEN SUBSET pids ELSE {{}} :
        proc' = [r \in RunId |-> IF r \in pids \ survivors /\ proc[r] \in Alive
                                 THEN "gone" ELSE proc[r]]
  BY DEF Signal
<1>2. "gone" \in Proc
  BY DEF Proc, Dead
<1> QED
  BY <1>1, <1>2

LEMMA RetriedFacts ==
  ASSUME IInv, NEW t \in Tasks
  PROVE  /\ RetryStatus(t) \in Phase /\ task[t] \in Row
         /\ Retried(t) \in Row /\ Retried(t).lock = 0 /\ Retried(t).pid = 0
         /\ Retried(t).status = RetryStatus(t) /\ Retried(t).resume = RetryStatus(t)
         /\ Retried(t).run = task[t].run /\ Retried(t).failures = task[t].failures
         /\ Retried(t).streak = task[t].streak
<1>1. RetryStatus(t) \in Phase /\ task[t] \in Row
  <2>1. task[t].run # 0 => task[t].run \in DOMAIN runs
    BY Parts DEF BoardHolds, PointersHold
  <2> QED
    BY <2>1, Parts, RunTypes DEF RetryStatus, Phase
<1>2. /\ Freed(task[t]) \in Row /\ Freed(task[t]).lock = 0 /\ Freed(task[t]).pid = 0
      /\ Freed(task[t]).run = task[t].run /\ Freed(task[t]).failures = task[t].failures
      /\ Freed(task[t]).streak = task[t].streak
  BY <1>1, FreedFacts
<1>3. \A x \in Phase : x \in Status
  BY DEF Phase, Status
<1> QED
  BY <1>1, <1>2, <1>3 DEF Retried, Row

LEMMA PhaseFacts == "running" \notin Phase /\ Phase \subseteq Status
BY DEF Phase, Status

-------------------------------------------------------------------------------
(* The steps of the dispatcher.                                            *)

LEMMA ClaimRejectedStep ==
  ASSUME IInv, NEW t \in Tasks, ClaimRejected(t)
  PROVE  RunsStay /\ RowsStay /\ UNCHANGED <<proc, disp, hist>>
<1>1. /\ task[t] \in Row /\ task[t].status \in {"ready", "review"} /\ runs' = runs
      /\ task' = [task EXCEPT ![t] =
           IF @.status = "ready" THEN [@ EXCEPT !.status = "todo"]
           ELSE [@ EXCEPT !.status = "todo", !.resume = "review"]]
      /\ UNCHANGED <<proc, disp, hist>> /\ task \in [Tasks -> Row]
  BY Parts, RunTypes DEF ClaimRejected, Phase, BoardType
<1> DEFINE new == IF task[t].status = "ready" THEN [task[t] EXCEPT !.status = "todo"]
                  ELSE [task[t] EXCEPT !.status = "todo", !.resume = "review"]
<1>2. /\ new \in Row /\ new.run = task[t].run /\ new.lock = task[t].lock
      /\ new.status = "todo"
  BY <1>1 DEF Row, Status, Phase
<1>3. task' = [task EXCEPT ![t] = new]
  BY <1>1
<1> HIDE DEF new
<1>4. /\ task' \in [Tasks -> Row] /\ task'[t] = new
      /\ \A u \in Tasks \ {t} : task'[u] = task[u]
  BY <1>1, <1>2, <1>3
<1> QED
  BY <1>1, <1>2, <1>4, Parts, RowsKept

(* A claim: its run, n, is the last one.                                   *)
ClaimEffect(t, from, by, n) ==
  /\ BoardType' /\ BoardHolds' /\ DOMAIN runs' = DOMAIN runs \cup {n}
  /\ n \in RunId /\ n \notin DOMAIN runs
  /\ runs'[n] = [task |-> t, source |-> from, lock |-> by, outcome |-> "open"]
  /\ \A r \in DOMAIN runs :
       /\ runs'[r].task = runs[r].task /\ runs'[r].source = runs[r].source
       /\ runs'[r].lock = runs[r].lock
  /\ task' = [task EXCEPT ![t] = [@ EXCEPT !.status = "running", !.lock = by,
                                           !.expired = FALSE, !.run = n]]

LEMMA ClaimedStep ==
  ASSUME IInv, NEW t \in Tasks, NEW from \in Phase, NEW by \in Lock \ {0},
         Claimed(t, from, by), NEW n \in Nat
  PROVE  n = Len(runs) + 1 => ClaimEffect(t, from, by, n)
<1>1. /\ task[t].status = from /\ task[t].lock = 0 /\ Len(runs) < MaxRuns
      /\ runs' = Append(IF from = "ready" THEN Ended(t, "reclaimed") ELSE runs,
                        [task |-> t, source |-> from, lock |-> by, outcome |-> "open"])
      /\ task' = [task EXCEPT ![t] = [@ EXCEPT !.status = "running", !.lock = by,
                                               !.expired = FALSE, !.run = Len(runs) + 1]]
  BY DEF Claimed
<1>2. BoardType /\ BoardHolds /\ OtherType /\ PointersHold
  BY Parts DEF BoardHolds
<1>3. SUFFICES ASSUME n = Len(runs) + 1
               PROVE  ClaimEffect(t, from, by, n)
  OBVIOUS
<1>4. n \in RunId /\ n \in 0..MaxRuns /\ n # 0 /\ n \notin DOMAIN runs
  BY <1>1, <1>2, <1>3, RunTypes DEF RunId
<1> DEFINE run == [task |-> t, source |-> from, lock |-> by, outcome |-> "open"]
           old == IF from = "ready" THEN Ended(t, "reclaimed") ELSE runs
           row == [task[t] EXCEPT !.status = "running", !.lock = by, !.expired = FALSE,
                                  !.run = n]
<1>5. run \in Run /\ run.source = from /\ run.task = t /\ run.outcome = "open"
  BY DEF Run, Outcome
<1>6. /\ row \in Row /\ row.status = "running" /\ row.lock = by /\ row.run = n
  <2>1. task[t] \in Row /\ "running" \in Status
    BY <1>2, RunTypes DEF Status
  <2> QED
    BY <1>4, <2>1 DEF Row
<1>7. /\ old \in Seq(Run) /\ Len(old) = Len(runs) /\ DOMAIN old = DOMAIN runs
      /\ \A r \in DOMAIN runs :
           /\ old[r].task = runs[r].task /\ old[r].source = runs[r].source
           /\ old[r].lock = runs[r].lock
      /\ ~Terminals => old = runs
  <2>1. CASE task[t].run = 0
    <3>1. old = runs
      BY <2>1 DEF Ended
    <3> QED
      BY <1>2, <3>1 DEF BoardType
  <2>2. CASE task[t].run # 0
    <3> DEFINE p == task[t].run
               o == IF runs[p].outcome = "open" THEN "reclaimed" ELSE runs[p].outcome
               new == [runs[p] EXCEPT !.outcome = o]
    <3>1. Terminals
      BY <1>1, <1>2, <2>2, PhaseFacts DEF BoardHolds, Ledger
    <3>2. p \in DOMAIN runs /\ runs[p] \in Run /\ o \in Outcome
      BY <1>2, <2>2, RunTypes DEF PointersHold, Run, Outcome
    <3> HIDE DEF o
    <3>3. /\ new \in Run /\ new.task = runs[p].task /\ new.source = runs[p].source
          /\ new.lock = runs[p].lock
      BY <3>2 DEF Run
    <3>4. Ended(t, "reclaimed") = [runs EXCEPT ![p] = new]
      BY <2>2, <3>2 DEF Ended, o
    <3> HIDE DEF new, p
    <3>5. old \in {runs, [runs EXCEPT ![p] = new]} /\ runs \in Seq(Run)
      BY <1>2, <3>4 DEF BoardType
    <3> HIDE DEF old
    <3>6. CASE old = runs
      BY <3>1, <3>5, <3>6
    <3>7. CASE old = [runs EXCEPT ![p] = new]
      <4>1. old \in Seq(Run) /\ Len(old) = Len(runs) /\ DOMAIN old = DOMAIN runs
        BY <3>2, <3>3, <3>5, <3>7
      <4>2. \A r \in DOMAIN runs : old[r] = IF r = p THEN new ELSE runs[r]
        BY <3>5, <3>7
      <4> QED
        BY <3>1, <3>3, <4>1, <4>2
    <3> QED
      BY <3>5, <3>6, <3>7
  <2> QED
    BY <2>1, <2>2
<1>8. runs' = Append(old, run)
  BY <1>1
<1>9. task' = [task EXCEPT ![t] = row]
  BY <1>1, <1>3
<1> HIDE DEF old, run, row
<1>10. /\ runs' \in Seq(Run) /\ Len(runs') = n /\ DOMAIN runs' = DOMAIN runs \cup {n}
       /\ runs'[n] = run /\ \A r \in DOMAIN runs : runs'[r] = old[r]
  <2>1. DOMAIN runs = 1..Len(runs) /\ Len(runs) \in Nat
    BY <1>2, RunTypes
  <2> QED
    BY <1>3, <1>5, <1>7, <1>8, <2>1
<1>11. /\ task' \in [Tasks -> Row] /\ task'[t] = row
       /\ \A u \in Tasks \ {t} : task'[u] = task[u]
  BY <1>2, <1>6, <1>9 DEF BoardType
<1>12. BoardType'
  BY <1>1, <1>3, <1>10, <1>11 DEF BoardType
<1>13. PointersHold'
  <2> SUFFICES ASSUME NEW u \in Tasks
               PROVE  /\ task'[u].run # 0 => task'[u].run \in DOMAIN runs'
                      /\ task'[u].status = "running" => task'[u].run # 0
                      /\ task'[u].status # "running" /\ task'[u].run # 0
                           => runs'[task'[u].run].source = "ready"
    BY DEF PointersHold
  <2>1. CASE u = t
    BY <1>4, <1>6, <1>10, <1>11, <2>1
  <2>2. CASE u # t
    <3>1. task'[u] = task[u]
      BY <1>11, <2>2
    <3> QED
      BY <1>2, <1>7, <1>10, <3>1 DEF PointersHold
  <2> QED
    BY <2>1, <2>2
<1>14. ASSUME ~Terminals
       PROVE  Ledger'
  <2>1. /\ \A r \in DOMAIN runs : IsOpen(r) => task[runs[r].task].run = r
        /\ \A u \in Tasks :
             IF task[u].status = "running"
             THEN task[u].lock # 0 /\ IsOpen(task[u].run) /\ runs[task[u].run].task = u
             ELSE task[u].lock = 0 /\ task[u].run = 0
    BY <1>2, <1>14 DEF BoardHolds, Ledger
  <2>2. \A r \in DOMAIN runs : runs'[r] = runs[r] /\ r # n
    BY <1>4, <1>7, <1>10, <1>14
  <2>3. task[t].run = 0
    BY <1>1, <2>1, PhaseFacts
  <2>4. ASSUME NEW r \in DOMAIN runs', runs'[r].outcome = "open"
        PROVE  task'[runs'[r].task].run = r
    <3>1. CASE r = n
      BY <1>5, <1>6, <1>10, <1>11, <3>1
    <3>2. CASE r \in DOMAIN runs
      <4>1. /\ runs'[r] = runs[r] /\ runs[r].task \in Tasks /\ r # 0
            /\ task[runs[r].task].run = r
        BY <1>2, <2>1, <2>2, <2>4, <3>2, RunTypes DEF IsOpen
      <4> QED
        BY <1>11, <2>3, <4>1
    <3> QED
      BY <1>10, <3>1, <3>2
  <2>5. ASSUME NEW u \in Tasks
        PROVE  IF task'[u].status = "running"
               THEN /\ task'[u].lock # 0 /\ runs'[task'[u].run].task = u
                    /\ task'[u].run \in DOMAIN runs' /\ runs'[task'[u].run].outcome = "open"
               ELSE task'[u].lock = 0 /\ task'[u].run = 0
    <3>1. CASE u = t
      BY <1>5, <1>6, <1>10, <1>11, <3>1
    <3>2. CASE u # t
      <4>1. task'[u] = task[u]
        BY <1>11, <3>2
      <4> QED
        BY <1>10, <2>1, <2>2, <4>1 DEF IsOpen
    <3> QED
      BY <3>1, <3>2
  <2> QED
    BY <2>4, <2>5 DEF Ledger, IsOpen
<1> QED
  BY <1>2, <1>3, <1>4, <1>7, <1>9, <1>10, <1>12, <1>13, <1>14
  DEF ClaimEffect, BoardHolds, run, row

LEMMA ClaimKeeps ==
  ASSUME IInv, NEW t \in Tasks, Claim(t)
  PROVE  IInv'
<1>1. /\ BoardType /\ OtherType /\ BoardHolds /\ DispAgrees
      /\ DispIsIdle /\ UNCHANGED <<op, moves, crashes>>
  BY Parts DEF Claim, DispStep
<1>2. CASE ClaimRejected(t)
  <2>1. RunsStay /\ RowsStay /\ UNCHANGED <<proc, disp, hist>>
    BY <1>2, ClaimRejectedStep
  <2>2. OtherType'
    BY <1>1, <2>1 DEF OtherType, hist
  <2> QED
    BY <1>1, <2>1, <2>2, DispSame, StepKeeps
<1>3. CASE /\ \E from \in Phase : Claimed(t, from, Me)
           /\ disp' = [DispIdle EXCEPT !.pc = "spawn", !.t = t, !.pid = Len(runs) + 1]
           /\ UNCHANGED <<proc, hist>>
  <2>1. PICK from \in Phase : Claimed(t, from, Me)
    BY <1>3
  <2> DEFINE n == Len(runs) + 1
  <2> n \in Nat
    BY <1>1, RunTypes
  <2>2. Me \in Lock \ {0}
    BY <1>1 DEF OtherType, Me, Lock, Lane
  <2>3. /\ BoardType' /\ BoardHolds' /\ DOMAIN runs' = DOMAIN runs \cup {n} /\ n \in RunId
    BY <2>1, <2>2, ClaimedStep DEF ClaimEffect
  <2>4. disp' \in Disp /\ disp'.failed = {} /\ disp'.pc = "spawn" /\ disp'.pid = n
    <3>1. n \in 0..MaxRuns
      BY <2>3 DEF RunId
    <3> QED
      BY <1>3, <3>1, IdleTypes DEF Disp, DispPc
  <2>5. DispAgrees'
    BY <2>3, <2>4 DEF DispAgrees
  <2>6. OtherType'
    BY <1>1, <1>3, <2>4 DEF OtherType, hist
  <2> QED
    BY <2>3, <2>5, <2>6 DEF IInv, TypeOK, BoardType, OtherType, BoardHolds
<1> QED
  BY <1>2, <1>3 DEF Claim

LEMMA TerminalClaimKeeps ==
  ASSUME IInv, NEW t \in Tasks, TerminalClaim(t)
  PROVE  IInv'
<1>1. /\ BoardType /\ OtherType /\ BoardHolds /\ DispAgrees /\ Terminals
      /\ UNCHANGED <<op, moves, crashes>>
  BY Parts DEF TerminalClaim
<1>2. CASE ClaimRejected(t)
  <2>1. RunsStay /\ RowsStay /\ UNCHANGED <<proc, disp, hist>>
    BY <1>2, ClaimRejectedStep
  <2>2. OtherType'
    BY <1>1, <2>1 DEF OtherType, hist
  <2> QED
    BY <1>1, <2>1, <2>2, DispSame, StepKeeps
<1>3. CASE Claimed(t, "ready", Lane) /\ UNCHANGED <<proc, disp, hist>>
  <2>1. Lane \in Lock \ {0} /\ "ready" \in Phase
    BY DEF Lock, Lane, Phase
  <2>2. PICK n \in Nat : n = Len(runs) + 1
    BY <1>1, RunTypes
  <2>3. ClaimEffect(t, "ready", Lane, n)
    BY <1>3, <2>1, <2>2, ClaimedStep
  <2>4. /\ task'[t].run = n
        /\ \A u \in Tasks \ {t} : task'[u] = task[u]
    BY <1>1, <2>3, RunTypes DEF ClaimEffect, BoardType, Row
  <2>5. DispAgrees'
    <3>1. ASSUME NEW f \in disp.failed, task'[f.t].status = "running"
          PROVE  runs'[task'[f.t].run].source = "ready"
      <4>1. f.t \in Tasks
        BY <1>1 DEF OtherType, Disp
      <4>2. CASE f.t = t
        BY <2>3, <2>4, <4>2 DEF ClaimEffect
      <4>3. CASE f.t # t
        <5>1. task'[f.t] = task[f.t]
          BY <2>4, <4>1, <4>3
        <5>2. task[f.t].run \in DOMAIN runs /\ runs[task[f.t].run].source = "ready"
          BY <1>1, <3>1, <4>1, <5>1 DEF DispAgrees, BoardHolds, PointersHold
        <5> QED
          BY <2>3, <5>1, <5>2 DEF ClaimEffect
      <4> QED
        BY <4>2, <4>3
    <3> QED
      BY <1>1, <1>3, <2>3, <3>1 DEF DispAgrees, ClaimEffect
  <2>6. OtherType'
    BY <1>1, <1>3 DEF OtherType, hist
  <2> QED
    BY <2>3, <2>5, <2>6 DEF IInv, TypeOK, BoardType, OtherType, BoardHolds, ClaimEffect
<1> QED
  BY <1>2, <1>3 DEF TerminalClaim

LEMMA SpawnKeeps ==
  ASSUME IInv, Spawn
  PROVE  IInv'
<1>1. /\ BoardType /\ OtherType /\ BoardHolds /\ DispAgrees
      /\ disp.pc = "spawn" /\ proc' = [proc EXCEPT ![disp.pid] = "work"]
      /\ disp' = [disp EXCEPT !.pc = "setpid"]
      /\ UNCHANGED <<task, runs, asked, tried, op, moves, crashes>>
  BY Parts DEF Spawn, DispStep, board, hist
<1>2. /\ disp' \in Disp /\ disp'.pc = "setpid" /\ disp'.pid = disp.pid
      /\ disp'.failed = disp.failed
  BY <1>1 DEF OtherType, Disp, DispPc
<1>3. OtherType'
  BY <1>1, <1>2 DEF OtherType, Proc, Alive
<1>4. DispStays
  BY <1>1, <1>2 DEF DispStays, DispAgrees
<1> QED
  BY <1>1, <1>3, <1>4, NoRows, StepKeeps DEF board

(* A row that is changed in the fields no claim has a part in.             *)
LEMMA FieldKeeps ==
  ASSUME IInv, NEW t \in Tasks, NEW row \in Row, task' = [task EXCEPT ![t] = row],
         row.run = task[t].run, row.lock = task[t].lock,
         row.status = "running" <=> task[t].status = "running",
         runs' = runs, DispStays, OtherType'
  PROVE  IInv'
<1>1. BoardType
  BY Parts
<1>2. /\ task' \in [Tasks -> Row] /\ task'[t] = row
      /\ \A u \in Tasks \ {t} : task'[u] = task[u]
  BY <1>1 DEF BoardType
<1>3. RunsStay /\ RowsStay
  BY <1>1, <1>2, RowsKept
<1> QED
  BY <1>3, StepKeeps

LEMMA SetWorkerPidKeeps ==
  ASSUME IInv, SetWorkerPid
  PROVE  IInv'
<1> DEFINE t == disp.t
           row == [task[t] EXCEPT !.pid = disp.pid]
<1>1. /\ BoardType /\ OtherType /\ DispAgrees /\ task' = [task EXCEPT ![t].pid = disp.pid]
      /\ disp' = DispIdle /\ UNCHANGED <<runs, proc, asked, tried, op, moves, crashes>>
  BY Parts DEF SetWorkerPid, DispStep, hist
<1>2. t \in Tasks /\ disp.pid \in 0..MaxRuns
  BY <1>1 DEF OtherType, Disp
<1>3. /\ row \in Row /\ row.run = task[t].run /\ row.lock = task[t].lock
      /\ row.status = task[t].status
  BY <1>1, <1>2, RunTypes DEF Row
<1>4. task' = [task EXCEPT ![t] = row]
  BY <1>1
<1> HIDE DEF row, t
<1>5. OtherType'
  BY <1>1, IdleTypes DEF OtherType
<1> QED
  BY <1>1, <1>2, <1>3, <1>4, <1>5, DispSame, FieldKeeps DEF t

(* A task at rest is written, and a run it may have left is ended.         *)
LEMMA RestKeeps ==
  ASSUME IInv, NEW t \in Tasks, NEW row \in Row, NEW outcome \in Outcome \ {"open"},
         Close(t, row, outcome), row.status # "running", row.lock = task[t].lock,
         task[t].status # "running", DispStays, OtherType'
  PROVE  IInv'
<1>1. BoardType /\ BoardHolds
  BY Parts
<1>2. CASE ~Terminals
  <2>1. task[t].lock = 0
    BY <1>1, <1>2 DEF BoardHolds, Ledger
  <2> QED
    BY <2>1, CloseKeeps
<1>3. CASE Terminals
  <2>1. task' = [task EXCEPT ![t] = Without(row, outcome)] /\ runs' = Ended(t, outcome)
    BY DEF Close
  <2>2. /\ Without(row, outcome) \in Row /\ Without(row, outcome).run = 0
        /\ Without(row, outcome).status # "running"
    BY WithoutFacts
  <2>3. RunsStay
    BY <1>1, <2>1, EndedFacts DEF BoardHolds
  <2>4. RowsStay
    BY <1>1, <1>3, <2>1, <2>2 DEF RowsStay, Leaks, Keeps, BoardType
  <2> QED
    BY <2>3, <2>4, StepKeeps
<1> QED
  BY <1>2, <1>3

LEMMA SpawnFailedKeeps ==
  ASSUME IInv, SpawnFailed
  PROVE  IInv'
<1> DEFINE t == disp.t
           row == task[t]
           n == row.failures + 1
           trip == n >= FailureLimit
           hit == row.status \in (IF trip THEN {"running", "ready", "review"} ELSE {"running"})
           status == IF trip THEN "blocked" ELSE RetryStatus(t)
           new == [Freed(row) EXCEPT !.status = status, !.failures = n]
           resumed == [IF hit THEN new ELSE row EXCEPT !.resume = RetryStatus(t)]
           outcome == IF trip THEN "gave_up" ELSE "spawn_failed"
<1>1. /\ BoardType /\ OtherType /\ BoardHolds /\ DispAgrees
      /\ Close(t, resumed, outcome)
      /\ IF row.run = 0 THEN UNCHANGED tried ELSE Failed(t, "spawn_failed")
      /\ disp' = DispIdle /\ UNCHANGED <<proc, asked, op, moves, crashes>>
  BY Parts DEF SpawnFailed, DispStep
<1>2. t \in Tasks
  BY <1>1 DEF OtherType, Disp
<1> HIDE DEF t
<1>3. row \in Row /\ RetryStatus(t) \in Phase /\ row.failures + 1 \in Nat
  BY <1>2, RetriedFacts, RowFields
<1>4. new \in Row /\ new.lock = 0 /\ new.status # "running"
  <2>1. status \in Status /\ status # "running"
    BY <1>3, PhaseFacts DEF Status
  <2>2. Freed(row) \in Row /\ Freed(row).lock = 0 /\ n \in Nat
    BY <1>3, FreedFacts
  <2> HIDE DEF status, n, row
  <2> QED
    BY <2>1, <2>2 DEF Row
<1>5. CASE hit
  <2>1. resumed = [new EXCEPT !.resume = RetryStatus(t)]
    BY <1>5
  <2> HIDE DEF new, hit
  <2>2. resumed \in Row /\ resumed.lock = 0 /\ resumed.status # "running"
    BY <1>3, <1>4, <2>1 DEF Row
  <2> HIDE DEF resumed
  <2>3. outcome \in Outcome \ {"open"}
    BY DEF Outcome
  <2>4. OtherType'
    BY <1>1, <1>2, IdleTypes, FailedType DEF OtherType
  <2> HIDE DEF outcome
  <2> QED
    BY <1>1, <1>2, <2>2, <2>3, <2>4, DispSame, CloseKeeps
<1>6. CASE ~hit
  <2>1. resumed = [row EXCEPT !.resume = RetryStatus(t)]
    BY <1>6
  <2>2. row.status # "running"
    BY <1>6
  <2> HIDE DEF new, hit
  <2>3. resumed \in Row /\ resumed.lock = row.lock /\ resumed.status = row.status
    BY <1>3, <2>1 DEF Row
  <2>4. outcome \in Outcome \ {"open"}
    BY DEF Outcome
  <2>5. OtherType'
    BY <1>1, <1>2, IdleTypes, FailedType DEF OtherType
  <2> HIDE DEF resumed, outcome
  <2> QED
    BY <1>1, <1>2, <2>2, <2>3, <2>4, <2>5, DispSame, RestKeeps
<1> QED
  BY <1>5, <1>6

LEMMA ReclaimStartKeeps ==
  ASSUME IInv, NEW t \in Tasks, NEW why \in {"ttl", "stale"}, ReclaimStart(t, why)
  PROVE  IInv'
<1> DEFINE pid == task[t].pid
<1>1. /\ BoardType /\ OtherType /\ BoardHolds /\ DispAgrees
      /\ UNCHANGED <<op, moves, crashes>> /\ task[t] \in Row
  BY Parts, RunTypes DEF ReclaimStart, DispStep
<1>2. CASE Extended(t) /\ UNCHANGED <<runs, proc, disp, hist>>
  <2> DEFINE row == [task[t] EXCEPT !.expired = FALSE]
  <2>1. /\ row \in Row /\ row.run = task[t].run /\ row.lock = task[t].lock
        /\ row.status = task[t].status
    BY <1>1 DEF Row
  <2>2. task' = [task EXCEPT ![t] = row]
    BY <1>2 DEF Extended
  <2> HIDE DEF row
  <2>3. OtherType'
    BY <1>1, <1>2 DEF OtherType, hist
  <2> QED
    BY <1>1, <1>2, <2>1, <2>2, <2>3, DispSame, FieldKeeps
<1>3. CASE /\ proc' = [r \in RunId |-> IF r = pid /\ IsAlive(pid) THEN "gone" ELSE proc[r]]
           /\ disp' = [DispIdle EXCEPT !.pc = "reclaim", !.t = t, !.why = why,
                                       !.lock = task[t].lock, !.pid = pid]
           /\ UNCHANGED <<board, hist>>
  <2>1. proc' \in [RunId -> Proc]
    BY <1>1, <1>3 DEF OtherType, Proc, Dead
  <2>2. task[t].lock \in Lock /\ pid \in 0..MaxRuns
    BY <1>1, RowFields
  <2>3. disp' \in Disp /\ disp'.pc = "reclaim" /\ disp'.failed = {}
    BY <1>3, <2>2, IdleTypes DEF Disp, DispPc
  <2>4. DispStays
    BY <2>3 DEF DispStays
  <2>5. OtherType'
    BY <1>1, <1>3, <2>1, <2>3 DEF OtherType, hist
  <2> QED
    BY <1>1, <1>3, <2>4, <2>5, NoRows, StepKeeps
<1> QED
  BY <1>2, <1>3 DEF ReclaimStart

LEMMA ReclaimKeeps ==
  ASSUME IInv, Reclaim
  PROVE  IInv'
<1> DEFINE t == disp.t
           outcome == IF disp.why = "ttl" THEN "reclaimed" ELSE "stale"
<1>1. /\ BoardType /\ OtherType /\ BoardHolds /\ DispAgrees
      /\ disp' = DispIdle /\ UNCHANGED <<proc, asked, op, moves, crashes>>
      /\ \/ Close(t, Retried(t), outcome) /\ Failed(t, outcome)
         \/ UNCHANGED <<board, tried>>
  BY Parts DEF Reclaim, DispStep
<1>2. t \in Tasks /\ outcome \in Outcome \ {"open"}
  BY <1>1 DEF OtherType, Disp, Outcome
<1>3. OtherType'
  BY <1>1, <1>2, IdleTypes, FailedType DEF OtherType
<1> HIDE DEF t, outcome
<1>4. CASE Close(t, Retried(t), outcome)
  BY <1>1, <1>2, <1>3, <1>4, RetriedFacts, PhaseFacts, DispSame, CloseKeeps
<1>5. CASE UNCHANGED board
  BY <1>1, <1>3, <1>5, DispSame, NoRows, StepKeeps
<1> QED
  BY <1>1, <1>4, <1>5

LEMMA TimeoutStartKeeps ==
  ASSUME IInv, NEW t \in Tasks, TimeoutStart(t)
  PROVE  IInv'
<1>1. /\ BoardType /\ OtherType /\ BoardHolds /\ DispAgrees /\ Signal({task[t].pid})
      /\ disp' = [DispIdle EXCEPT !.pc = "timeout", !.t = t, !.lock = task[t].lock,
                                  !.pid = task[t].pid]
      /\ UNCHANGED <<board, hist, op, moves, crashes>>
  BY Parts DEF TimeoutStart, DispStep
<1>2. task[t].lock \in Lock /\ task[t].pid \in 0..MaxRuns
  BY <1>1, RunTypes, RowFields
<1>3. disp' \in Disp /\ disp'.pc = "timeout" /\ disp'.failed = {}
  BY <1>1, <1>2, IdleTypes DEF Disp, DispPc
<1>4. OtherType'
  BY <1>1, <1>3, SignalType DEF OtherType, hist
<1>5. DispStays
  BY <1>3 DEF DispStays
<1> QED
  BY <1>1, <1>4, <1>5, NoRows, StepKeeps

LEMMA TimeoutKeeps ==
  ASSUME IInv, Timeout
  PROVE  IInv'
<1> DEFINE t == disp.t
           f == [t |-> t, violation |-> FALSE]
<1>1. /\ BoardType /\ OtherType /\ BoardHolds /\ DispAgrees
      /\ UNCHANGED <<proc, asked, op, moves, crashes>>
  BY Parts DEF Timeout, DispStep
<1>2. t \in Tasks
  BY <1>1 DEF OtherType, Disp
<1>3. CASE /\ Close(t, Retried(t), "timed_out") /\ Failed(t, "timed_out")
           /\ disp' = [DispIdle EXCEPT !.pc = "account", !.failed = {f}]
  <2>1. /\ disp' \in Disp /\ disp'.pc = "account" /\ disp'.failed = {f}
        /\ f.t = t
    <3>1. {f} \in SUBSET [t : Tasks, violation : BOOLEAN] /\ f.t = t
      BY <1>2
    <3> HIDE DEF f
    <3> QED
      BY <1>3, <3>1, IdleTypes DEF Disp, DispPc
  <2> HIDE DEF f, t
  <2>2. OtherType'
    BY <1>1, <1>2, <1>3, <2>1, FailedType DEF OtherType
  <2>3. /\ Retried(t) \in Row /\ Retried(t).lock = 0 /\ Retried(t).status # "running"
    BY <1>2, RetriedFacts, PhaseFacts
  <2>4. /\ RunsStay /\ RowsStay /\ task'[t] = Without(Retried(t), "timed_out")
    <3>1. "timed_out" \in Outcome \ {"open"}
      BY DEF Outcome
    <3> QED
      BY <1>1, <1>2, <1>3, <2>3, <3>1, CloseStep
  <2>5. task'[t].status # "running"
    BY <2>3, <2>4, WithoutFacts
  <2>6. DispAgrees'
    BY <2>1, <2>5 DEF DispAgrees
  <2> QED
    BY <1>1, <2>2, <2>4, <2>6, BoardStep DEF IInv, TypeOK, BoardType, OtherType, BoardHolds
<1>4. CASE disp' = DispIdle /\ UNCHANGED <<board, tried>>
  <2>1. OtherType'
    BY <1>1, <1>4, IdleTypes DEF OtherType
  <2> QED
    BY <1>1, <1>4, <2>1, DispSame, NoRows, StepKeeps
<1> QED
  BY <1>3, <1>4 DEF Timeout

(* A transaction that ends several runs.                                   *)
LEMMA ManyEnded ==
  ASSUME BoardType, NEW closed, NEW how,
         \A r \in DOMAIN runs : how[r] \in Outcome \ {"open"},
         runs' = [r \in DOMAIN runs |->
                    IF r \in closed /\ runs[r].outcome = "open"
                    THEN [runs[r] EXCEPT !.outcome = how[r]] ELSE runs[r]]
  PROVE  /\ RunsStay
         /\ \A r \in DOMAIN runs : r \in closed => runs'[r].outcome # "open"
         /\ \A r \in DOMAIN runs : r \notin closed => runs'[r] = runs[r]
<1>1. Len(runs) \in Nat /\ DOMAIN runs = 1..Len(runs)
  BY RunTypes
<1>2. ASSUME NEW r \in DOMAIN runs
      PROVE  /\ runs'[r] \in Run
             /\ runs'[r].task = runs[r].task /\ runs'[r].source = runs[r].source
             /\ runs'[r].lock = runs[r].lock
             /\ runs[r].outcome # "open" => runs'[r].outcome # "open"
             /\ r \in closed => runs'[r].outcome # "open"
             /\ r \notin closed => runs'[r] = runs[r]
  <2>1. runs[r] \in Run /\ how[r] \in Outcome /\ how[r] # "open"
    BY RunTypes
  <2>2. CASE r \in closed /\ runs[r].outcome = "open"
    <3>1. runs'[r] = [runs[r] EXCEPT !.outcome = how[r]]
      BY <2>2
    <3> QED
      BY <2>1, <2>2, <3>1 DEF Run
  <2>3. CASE ~(r \in closed /\ runs[r].outcome = "open")
    BY <2>1, <2>3
  <2> QED
    BY <2>2, <2>3
<1>3. DOMAIN runs' = DOMAIN runs
  OBVIOUS
<1>4. runs' \in Seq(Run) /\ Len(runs') = Len(runs)
  BY <1>1, <1>2
<1> QED
  BY <1>2, <1>3, <1>4 DEF RunsStay

LEMMA CrashedFacts ==
  ASSUME IInv, NEW t \in Tasks
  PROVE  /\ CrashedRow(t) \in Row /\ CrashedRow(t).lock = 0
         /\ CrashedRow(t).status # "running"
<1>1. /\ Retried(t) \in Row /\ Retried(t).lock = 0 /\ Retried(t).status # "running"
      /\ task[t].resume \in Phase
  BY RetriedFacts, PhaseFacts, RowFields
<1> QED
  BY <1>1 DEF CrashedRow, Row

LEMMA DetectCrashedKeeps ==
  ASSUME IInv, NEW S \in SUBSET Tasks, DetectCrashed(S)
  PROVE  IInv'
<1> DEFINE how(t) == Verdict(task[t].pid)
           closed == {task[t].run : t \in S} \ {0}
           outcome == [r \in DOMAIN runs |-> how(runs[r].task)]
           failed == {[t |-> t, violation |-> how(t) = "violation"] :
                        t \in {u \in S : how(u) # "rate_limited"}}
           systemic == Cardinality({f \in failed : ~f.violation}) >= SystemicCount
<1>1. /\ BoardType /\ OtherType /\ BoardHolds /\ DispAgrees
      /\ task' = [t \in Tasks |-> IF t \in S THEN Without(CrashedRow(t), how(t))
                                  ELSE task[t]]
      /\ runs' = [r \in DOMAIN runs |->
           IF r \in closed /\ runs[r].outcome = "open"
           THEN [runs[r] EXCEPT !.outcome = how(runs[r].task)] ELSE runs[r]]
      /\ tried' = [t \in Tasks |-> IF t \in S /\ how(t) # "rate_limited"
                                   THEN tried[t] + 1 ELSE tried[t]]
      /\ disp' = IF failed = {} THEN DispIdle
                 ELSE [DispIdle EXCEPT !.pc = "account", !.failed = failed,
                                       !.systemic = systemic]
      /\ UNCHANGED <<proc, asked, op, moves, crashes>>
  BY Parts DEF DetectCrashed, DispStep
<1>2. \A r \in DOMAIN runs : outcome[r] \in Outcome \ {"open"}
  BY DEF Verdict, Outcome
<1>3. runs' = [r \in DOMAIN runs |->
                 IF r \in closed /\ runs[r].outcome = "open"
                 THEN [runs[r] EXCEPT !.outcome = outcome[r]] ELSE runs[r]]
  BY <1>1
<1>4. failed \subseteq [t : Tasks, violation : BOOLEAN] /\ \A f \in failed : f.t \in S
  <2> HIDE DEF how
  <2>1. \A f \in failed : \E t \in S : f = [t |-> t, violation |-> how(t) = "violation"]
    OBVIOUS
  <2> HIDE DEF failed
  <2>2. ASSUME NEW f \in failed
        PROVE  f \in [t : Tasks, violation : BOOLEAN] /\ f.t \in S
    <3>1. PICK t \in S : f = [t |-> t, violation |-> how(t) = "violation"]
      BY <2>1
    <3> QED
      BY <3>1
  <2> QED
    BY <2>2
<1>5. systemic \in BOOLEAN
  OBVIOUS
<1>6. tried' \in [Tasks -> Nat]
  BY <1>1 DEF OtherType
<1> HIDE DEF outcome, failed, systemic
<1>7. /\ RunsStay
      /\ \A r \in DOMAIN runs : r \in closed => runs'[r].outcome # "open"
      /\ \A r \in DOMAIN runs : r \notin closed => runs'[r] = runs[r]
  <2> HIDE DEF closed
  <2> QED
    BY <1>1, <1>2, <1>3, ManyEnded
<1>8. ASSUME NEW t \in S
      PROVE  /\ task'[t] \in Row /\ task'[t].run = 0 /\ task'[t].lock = 0
             /\ task'[t].status # "running"
  <2>1. task'[t] = Without(CrashedRow(t), how(t))
    BY <1>1
  <2> HIDE DEF how
  <2> QED
    BY <2>1, CrashedFacts, WithoutFacts
<1>9. \A t \in Tasks \ S : task'[t] = task[t] /\ task[t] \in Row
  BY <1>1, RunTypes
<1>10. RowsStay
  <2>1. task' \in [Tasks -> Row]
    <3>1. task' = [t \in Tasks |-> task'[t]]
      BY <1>1
    <3> QED
      BY <1>8, <1>9, <3>1
  <2>2. ASSUME NEW t \in S
        PROVE  Frees(t)
    <3>1. task[t].run # 0 => task[t].run \in closed /\ task[t].run \in DOMAIN runs
      BY <1>1 DEF BoardHolds, PointersHold
    <3> QED
      BY <1>7, <1>8, <3>1 DEF Frees
  <2>3. ASSUME NEW t \in Tasks \ S
        PROVE  Keeps(t)
    <3>1. Terminals \/ task[t].run = 0 \/ task[t].run \notin closed
      BY <1>1, PointersDiffer
    <3>2. task[t].run = 0 \/ task[t].run \in DOMAIN runs
      BY <1>1 DEF BoardHolds, PointersHold
    <3> QED
      BY <1>7, <1>9, <3>1, <3>2 DEF Keeps
  <2> QED
    BY <2>1, <2>2, <2>3 DEF RowsStay
<1>11. /\ disp' \in Disp /\ disp'.failed \subseteq failed
       /\ disp'.pc \in {"idle", "account"}
       /\ disp'.pc # "account" => disp'.failed = {}
  BY <1>1, <1>4, <1>5, IdleTypes DEF Disp, DispPc
<1>12. DispAgrees'
  <2>1. \A f \in failed : f.t \in S
    BY <1>4
  <2>2. /\ disp'.failed \subseteq failed /\ disp'.pc \in {"idle", "account"}
        /\ disp'.pc # "account" => disp'.failed = {}
    BY <1>11
  <2>3. \A f \in disp'.failed : task'[f.t].status # "running"
    BY <1>8, <2>1, <2>2
  <2> QED
    BY <2>2, <2>3 DEF DispAgrees
<1>13. OtherType'
  <2>1. UNCHANGED <<proc, asked, op, moves, crashes>> /\ OtherType
    BY <1>1
  <2>2. disp' \in Disp
    BY <1>11
  <2> QED
    BY <1>6, <2>1, <2>2 DEF OtherType
<1> QED
  BY <1>1, <1>7, <1>10, <1>12, <1>13, BoardStep
     DEF IInv, TypeOK, BoardType, OtherType, BoardHolds

LEMMA AccountKeeps ==
  ASSUME IInv, NEW f \in disp.failed, Account(f)
  PROVE  IInv'
<1> DEFINE t == f.t
           row == task[t]
           new == IF ~f.violation
                  THEN Counted(row, IF disp.systemic THEN 1 ELSE DefaultLimit, FALSE)
                  ELSE IF row.streak < ViolationLimit THEN row
                  ELSE Counted(row, ViolationLimit, TRUE)
<1>1. /\ BoardType /\ OtherType /\ BoardHolds /\ DispAgrees
      /\ disp' = IF disp.failed = {f} THEN DispIdle ELSE [disp EXCEPT !.failed = @ \ {f}]
      /\ UNCHANGED <<runs, proc, asked, tried, op, moves, crashes>>
      /\ disp.pc = "account"
  BY Parts DEF Account, DispStep, hist
<1>2. t \in Tasks /\ task[t] \in Row
  BY <1>1, RunTypes DEF OtherType, Disp
<1>3. task' = [task EXCEPT ![t] = new]
  BY DEF Account
<1>4. /\ new \in Row /\ new.run = row.run /\ new.lock = row.lock
      /\ \/ new.status = row.status
         \/ new.status = "blocked" /\ row.status \in {"ready", "review", "running"}
  <2>1. CountedAs(row, new) \/ new = row
    BY <1>2 DEF CountedAs, Counted, Row
  <2> HIDE DEF new, row
  <2> QED
    BY <1>2, <2>1, CountedFacts DEF row
<1>5. /\ disp' \in Disp /\ DispStays
  <2>1. CASE disp.failed = {f}
    BY <1>1, <2>1, IdleTypes, DispSame
  <2>2. CASE disp.failed # {f}
    <3>1. /\ disp' \in Disp /\ disp'.pc = "account"
          /\ disp'.failed = disp.failed \ {f}
      BY <1>1, <2>2 DEF OtherType, Disp
    <3> QED
      BY <3>1 DEF DispStays
  <2> QED
    BY <2>1, <2>2
<1>6. OtherType'
  BY <1>1, <1>5 DEF OtherType
<1> HIDE DEF new
<1>7. task' \in [Tasks -> Row] /\ task'[t] = new
      /\ \A u \in Tasks \ {t} : task'[u] = task[u]
  BY <1>1, <1>2, <1>3, <1>4 DEF BoardType
<1>8. RunsStay
  BY <1>1, RunsUnchanged
<1>9. Keeps(t) \/ Leaks(t)
  <2>1. CASE row.status = "running" /\ new.status = "blocked"
    <3>1. Terminals /\ runs[row.run].source = "ready"
      BY <1>1, <2>1 DEF DispAgrees
    <3> QED
      BY <1>4, <1>7, <2>1, <3>1 DEF Leaks
  <2>2. CASE ~(row.status = "running" /\ new.status = "blocked")
    BY <1>1, <1>4, <1>7, <2>2 DEF Keeps
  <2> QED
    BY <2>1, <2>2
<1>10. \A u \in Tasks \ {t} : Keeps(u)
  BY <1>1, <1>7 DEF Keeps
<1>11. RowsStay
  BY <1>7, <1>9, <1>10 DEF RowsStay
<1> QED
  BY <1>5, <1>6, <1>8, <1>11, StepKeeps

LEMMA RecomputeKeeps ==
  ASSUME IInv, NEW limit, RecomputeReady(limit), runs' = runs, DispStays, OtherType'
  PROVE  IInv'
BY Parts, RecomputeStep, StepKeeps

LEMMA DispPromoteKeeps ==
  ASSUME IInv, DispPromote
  PROVE  IInv'
<1>1. /\ OtherType /\ DispAgrees
      /\ UNCHANGED <<runs, proc, disp, hist, op, moves, crashes>>
      /\ RecomputeReady(FailureLimit)
  BY Parts DEF DispPromote, DispStep
<1> QED
  BY <1>1, DispSame, RecomputeKeeps DEF OtherType, hist

LEMMA DispDiesKeeps ==
  ASSUME IInv, DispDies
  PROVE  IInv'
<1>1. /\ BoardType /\ OtherType /\ DispAgrees /\ crashes < MaxCrashes
      /\ crashes' = crashes + 1 /\ disp' = DispIdle
      /\ proc' = [r \in RunId |-> IF proc[r] \in Dead THEN "gone" ELSE proc[r]]
      /\ tried' = [t \in Tasks |-> IF \E f \in disp.failed : f.t = t THEN 0 ELSE tried[t]]
      /\ UNCHANGED <<board, op, moves, asked>>
  BY Parts DEF DispDies
<1>2. crashes' \in 0..MaxCrashes
  BY <1>1 DEF OtherType
<1>3. proc' \in [RunId -> Proc]
  BY <1>1 DEF OtherType, Proc, Dead
<1>4. tried' \in [Tasks -> Nat]
  BY <1>1 DEF OtherType
<1>5. OtherType'
  BY <1>1, <1>2, <1>3, <1>4, IdleTypes DEF OtherType
<1> QED
  BY <1>1, <1>5, DispSame, NoRows, StepKeeps

-------------------------------------------------------------------------------
(* The steps of a worker and of the operator.                              *)

RestType == /\ proc \in [RunId -> Proc] /\ disp \in Disp /\ op \in Op
            /\ moves \in 0..MaxMoves /\ crashes \in 0..MaxCrashes

LEMMA WorkerRest ==
  ASSUME IInv, NEW r \in RunId, NEW p \in Proc, WorkerStep, proc' = [proc EXCEPT ![r] = p]
  PROVE  RestType' /\ DispStays
BY Parts, DispSame DEF WorkerStep, RestType, OtherType

LEMMA OpRest ==
  ASSUME IInv, op' \in Op, proc' \in [RunId -> Proc], UNCHANGED <<disp, crashes>>,
         moves' = moves \/ (moves < MaxMoves /\ moves' = moves + 1)
  PROVE  RestType' /\ DispStays
BY Parts, DispSame DEF RestType, OtherType

LEMMA OpGoesOnRest ==
  ASSUME IInv, op' \in Op, proc' \in [RunId -> Proc], UNCHANGED <<disp, moves, crashes>>
  PROVE  RestType' /\ DispStays
BY Parts, DispSame DEF RestType, OtherType

LEMMA GotoType ==
  ASSUME NEW pc \in OpPc, NEW t \in Tasks, OpGoto(pc, t)
  PROVE  op' \in Op
BY IdleTypes DEF OpGoto, Op

(* Proc and the pcs of the operator, spelt out.                            *)
LEMMA Names ==
  /\ \A p \in {"work", "clear", "promote", "gone", "clean", "limited"} : p \in Proc
  /\ \A pc \in {"idle", "reclaim", "drag", "kill", "clear", "promote", "forgive"} :
       pc \in OpPc
  /\ \A o \in {"completed", "review_requested", "changes_requested", "blocked",
               "scheduled", "reclaimed"} : o \in Outcome \ {"open"}
BY DEF Proc, Alive, Dead, OpPc, Outcome

LEMMA CompletedKeeps ==
  ASSUME IInv, NEW t \in Tasks, Completed(t), RestType', DispStays
  PROVE  IInv'
<1> DEFINE row == [Freed(task[t]) EXCEPT !.status = "done", !.kind = "none", !.recur = 0]
<1>1. /\ Close(t, row, "completed") /\ Failed(t, "completed")
      /\ asked' = [asked EXCEPT ![t] = "ready"] /\ OtherType
  BY Parts DEF Completed
<1>2. row \in Row /\ row.status # "running" /\ row.lock = 0
  <2>1. Freed(task[t]) \in Row /\ Freed(task[t]).lock = 0
    BY Parts, RunTypes, FreedFacts
  <2> QED
    BY <2>1 DEF Row, Status, Kind
<1> HIDE DEF row
<1>3. OtherType'
  BY <1>1, FailedType DEF OtherType, RestType, Phase
<1> QED
  BY <1>1, <1>2, <1>3, Names, CloseKeeps

(* The row of block_task.                                                  *)
LEMMA BlockedFacts ==
  ASSUME IInv, NEW t \in Tasks, NEW kind \in {"dependency", "input"}, Blocked(t, kind)
  PROVE  \E row \in Row :
           /\ Close(t, row, "blocked") /\ row.lock = 0
           /\ row.status \in {"todo", "triage", "blocked"}
           /\ row.resume = IF task[t].status = "running" THEN RetryStatus(t) ELSE "ready"
           /\ row.status = "blocked" => row.sticky = TRUE
           /\ row.failures = task[t].failures
<1> DEFINE old == task[t]
           source == IF old.status = "running" THEN RetryStatus(t) ELSE "ready"
           n == IF old.kind = kind THEN old.recur + 1 ELSE 1
           new == [Freed(old) EXCEPT !.kind = kind, !.resume = source]
           row == IF kind = "dependency" THEN [new EXCEPT !.status = "todo"]
                  ELSE IF n >= BlockLimit
                  THEN [new EXCEPT !.status = "triage", !.recur = n]
                  ELSE [new EXCEPT !.status = "blocked", !.recur = n, !.sticky = TRUE]
<1>1. Close(t, row, "blocked")
  BY DEF Blocked
<1>2. old \in Row /\ source \in Phase /\ n \in Nat
  <2>1. RetryStatus(t) \in Phase /\ task[t] \in Row
    BY RetriedFacts
  <2> QED
    BY <2>1, RowFields DEF Phase
<1> HIDE DEF source, n
<1>3. new \in Row /\ new.lock = 0 /\ new.resume = source /\ new.failures = old.failures
  <2>1. Freed(old) \in Row /\ Freed(old).lock = 0 /\ Freed(old).failures = old.failures
    BY <1>2, FreedFacts
  <2> HIDE DEF old
  <2> QED
    BY <1>2, <2>1 DEF Row, Kind
<1> HIDE DEF new
<1>4. /\ row \in Row /\ row.status \in {"todo", "triage", "blocked"} /\ row.lock = 0
      /\ row.resume = source /\ row.failures = old.failures
      /\ row.status = "blocked" => row.sticky = TRUE
  <2>1. CASE row = [new EXCEPT !.status = "todo"]
    BY <1>3, <2>1 DEF Row, Status
  <2>2. CASE row = [new EXCEPT !.status = "triage", !.recur = n]
    BY <1>2, <1>3, <2>2 DEF Row, Status
  <2>3. CASE row = [new EXCEPT !.status = "blocked", !.recur = n, !.sticky = TRUE]
    BY <1>2, <1>3, <2>3 DEF Row, Status
  <2> QED
    BY <2>1, <2>2, <2>3
<1> HIDE DEF row
<1> QED
  BY <1>1, <1>4 DEF source

LEMMA BlockedKeeps ==
  ASSUME IInv, NEW t \in Tasks, NEW kind \in {"dependency", "input"}, Blocked(t, kind),
         RestType', DispStays
  PROVE  IInv'
<1>1. PICK row \in Row : /\ Close(t, row, "blocked") /\ row.lock = 0
                         /\ row.status \in {"todo", "triage", "blocked"}
  BY BlockedFacts
<1>2. Failed(t, "blocked") /\ asked' = asked /\ OtherType
  BY Parts DEF Blocked
<1>3. OtherType'
  BY <1>2, FailedType DEF OtherType, RestType
<1> QED
  BY <1>1, <1>3, Names, CloseKeeps

LEMMA ReviewRequestedKeeps ==
  ASSUME IInv, NEW t \in Tasks, ReviewRequested(t), RestType', DispStays
  PROVE  IInv'
<1> DEFINE row == [Freed(task[t]) EXCEPT !.status = "review"]
<1>1. /\ Close(t, row, "review_requested") /\ Failed(t, "review_requested")
      /\ asked' = [asked EXCEPT ![t] = "review"] /\ OtherType
  BY Parts DEF ReviewRequested
<1>2. row \in Row /\ row.status # "running" /\ row.lock = 0
  <2>1. Freed(task[t]) \in Row /\ Freed(task[t]).lock = 0
    BY Parts, RunTypes, FreedFacts
  <2> QED
    BY <2>1 DEF Row, Status
<1> HIDE DEF row
<1>3. OtherType'
  BY <1>1, FailedType DEF OtherType, RestType, Phase
<1> QED
  BY <1>1, <1>2, <1>3, Names, CloseKeeps

(* The rows of request_changes and reopen_review.                          *)
LEMMA LandingFacts ==
  ASSUME IInv, NEW t \in Tasks, NEW row,
         row = [Freed(task[t]) EXCEPT !.status = Landing(t), !.resume = "ready"]
  PROVE  /\ row \in Row /\ row.status # "running" /\ row.lock = 0
         /\ row.status = Landing(t) /\ row.resume = "ready"
         /\ row.failures = task[t].failures
<1>1. /\ Freed(task[t]) \in Row /\ Freed(task[t]).lock = 0
      /\ Freed(task[t]).failures = task[t].failures
  BY Parts, RunTypes, FreedFacts
<1>2. Landing(t) \in Status \ {"running"} /\ "ready" \in Phase
  BY DEF Landing, Status, Phase
<1> QED
  BY <1>1, <1>2 DEF Row

LEMMA ClearKeeps ==
  ASSUME IInv, NEW t \in Tasks, ClearFailures(t), runs' = runs, asked' = asked,
         RestType', DispStays
  PROVE  IInv'
<1> DEFINE row == [task[t] EXCEPT !.failures = 0]
<1>1. /\ task' = [task EXCEPT ![t] = row] /\ tried' = [tried EXCEPT ![t] = 0]
      /\ task[t] \in Row /\ OtherType
  BY Parts, RunTypes DEF ClearFailures
<1>2. /\ row \in Row /\ row.run = task[t].run /\ row.lock = task[t].lock
      /\ row.status = task[t].status
  BY <1>1 DEF Row
<1> HIDE DEF row
<1>3. OtherType'
  BY <1>1 DEF OtherType, RestType
<1> QED
  BY <1>1, <1>2, <1>3, FieldKeeps

LEMMA ExpiredKeeps ==
  ASSUME IInv, NEW t \in Tasks, NEW b \in BOOLEAN,
         task' = [task EXCEPT ![t].expired = b], runs' = runs, DispStays, OtherType'
  PROVE  IInv'
<1> DEFINE row == [task[t] EXCEPT !.expired = b]
<1>1. task[t] \in Row /\ task' = [task EXCEPT ![t] = row]
  BY Parts, RunTypes
<1>2. /\ row \in Row /\ row.run = task[t].run /\ row.lock = task[t].lock
      /\ row.status = task[t].status
  BY <1>1 DEF Row
<1> HIDE DEF row
<1> QED
  BY <1>1, <1>2, FieldKeeps

LEMMA StatusKeeps ==
  ASSUME IInv, NEW t \in Tasks, NEW status \in Status \ {"running"},
         task[t].status # "running", task' = [task EXCEPT ![t].status = status],
         runs' = runs, DispStays, OtherType'
  PROVE  IInv'
<1> DEFINE row == [task[t] EXCEPT !.status = status]
<1>1. task[t] \in Row /\ task' = [task EXCEPT ![t] = row]
  BY Parts, RunTypes
<1>2. /\ row \in Row /\ row.run = task[t].run /\ row.lock = task[t].lock
      /\ row.status = status
  BY <1>1 DEF Row
<1> HIDE DEF row
<1> QED
  BY <1>1, <1>2, FieldKeeps

LEMMA WorkerKeeps ==
  ASSUME IInv, NEW r \in DOMAIN runs, Worker(r)
  PROVE  IInv'
<1> DEFINE t == runs[r].task
<1>1. /\ BoardType /\ OtherType /\ BoardHolds /\ r \in RunId /\ t \in Tasks
  BY Parts, RunTypes
<1>2. CASE WorkerComplete(r)
  <2>1. Completed(t) /\ proc' = [proc EXCEPT ![r] = "clear"] /\ WorkerStep
    BY <1>2 DEF WorkerComplete
  <2> QED
    BY <1>1, <2>1, Names, WorkerRest, CompletedKeeps
<1>3. CASE WorkerRequestReview(r)
  <2>1. ReviewRequested(t) /\ proc' = [proc EXCEPT ![r] = "clean"] /\ WorkerStep
    BY <1>3 DEF WorkerRequestReview
  <2> QED
    BY <1>1, <2>1, Names, WorkerRest, ReviewRequestedKeeps
<1>4. CASE WorkerRequestChanges(r)
  <2> DEFINE row == [Freed(task[t]) EXCEPT !.status = Landing(t), !.resume = "ready"]
  <2>1. /\ Close(t, row, "changes_requested") /\ Failed(t, "changes_requested")
        /\ asked' = [asked EXCEPT ![t] = "ready"]
        /\ proc' = [proc EXCEPT ![r] = "clean"] /\ WorkerStep
    BY <1>4 DEF WorkerRequestChanges
  <2>2. row \in Row /\ row.status # "running" /\ row.lock = 0
    BY <1>1, LandingFacts
  <2> HIDE DEF row
  <2>3. RestType' /\ DispStays
    BY <1>1, <2>1, Names, WorkerRest
  <2>4. OtherType'
    BY <1>1, <2>1, <2>3, FailedType DEF OtherType, RestType, Phase
  <2> QED
    BY <1>1, <2>1, <2>2, <2>3, <2>4, Names, CloseKeeps
<1>5. CASE \E kind \in {"dependency", "input"} : WorkerBlock(r, kind)
  <2>1. PICK kind \in {"dependency", "input"} :
          Blocked(t, kind) /\ proc' = [proc EXCEPT ![r] = "clean"] /\ WorkerStep
    BY <1>5 DEF WorkerBlock
  <2> QED
    BY <1>1, <2>1, Names, WorkerRest, BlockedKeeps
<1>6. CASE WorkerClear(r)
  <2>1. /\ ClearFailures(t) /\ proc' = [proc EXCEPT ![r] = "promote"] /\ WorkerStep
        /\ UNCHANGED <<runs, asked>>
    BY <1>6 DEF WorkerClear
  <2> QED
    BY <1>1, <2>1, Names, WorkerRest, ClearKeeps
<1>7. CASE WorkerPromote(r)
  <2>1. /\ RecomputeReady(DefaultLimit) /\ proc' = [proc EXCEPT ![r] = "clean"]
        /\ WorkerStep /\ UNCHANGED <<runs, hist>>
    BY <1>7 DEF WorkerPromote
  <2>2. RestType' /\ DispStays
    BY <1>1, <2>1, Names, WorkerRest
  <2>3. OtherType'
    BY <1>1, <2>1, <2>2 DEF OtherType, RestType, hist
  <2> QED
    BY <2>1, <2>2, <2>3, RecomputeKeeps
<1>8. CASE Heartbeat(r)
  <2>1. task' = [task EXCEPT ![t].expired = FALSE] /\ UNCHANGED <<runs, proc, hist>>
        /\ UNCHANGED <<disp, op, moves, crashes>>
    BY <1>8 DEF Heartbeat, Extended, WorkerStep
  <2>2. OtherType' /\ DispStays
    BY <1>1, <2>1, Parts, DispSame DEF OtherType, hist
  <2> QED
    BY <1>1, <2>1, <2>2, ExpiredKeeps
<1>9. CASE \E how \in Dead : Exit(r, how)
  <2>1. PICK how \in Dead : /\ proc' = [proc EXCEPT ![r] = how] /\ WorkerStep
                            /\ UNCHANGED <<board, hist>>
    BY <1>9 DEF Exit
  <2>2. RestType' /\ DispStays
    BY <1>1, <2>1, WorkerRest DEF Proc
  <2>3. OtherType'
    BY <1>1, <2>1, <2>2 DEF OtherType, RestType, hist
  <2> QED
    BY <1>1, <2>1, <2>2, <2>3, NoRows, StepKeeps
<1> QED
  BY <1>2, <1>3, <1>4, <1>5, <1>6, <1>7, <1>8, <1>9 DEF Worker

LEMMA ExpireKeeps ==
  ASSUME IInv, NEW t \in Tasks, Expire(t)
  PROVE  IInv'
<1>1. task' = [task EXCEPT ![t].expired = TRUE] /\ UNCHANGED <<runs, proc, hist>>
      /\ UNCHANGED <<disp, op, moves, crashes>>
  BY DEF Expire, WorkerStep
<1>2. OtherType' /\ DispStays
  BY <1>1, Parts, DispSame DEF OtherType, hist
<1> QED
  BY <1>1, <1>2, ExpiredKeeps

(* The moves that the operator makes on one task in one transaction.       *)
LEMMA OpMoveKeeps ==
  ASSUME IInv, NEW t \in Tasks,
         \/ OpComplete(t) \/ OpBlock(t) \/ OpRequestReview(t) \/ OpUnblock(t)
         \/ OpReopenReview(t) \/ OpSchedule(t) \/ OpArchive(t) \/ OpSpecify(t)
         \/ \E force \in BOOLEAN : OpPromote(t, force)
  PROVE  IInv'
<1>1. /\ BoardType /\ OtherType /\ BoardHolds /\ task[t] \in Row
      /\ Freed(task[t]) \in Row /\ Freed(task[t]).lock = 0
  BY Parts, RunTypes, FreedFacts
<1>2. ASSUME OpMove, proc' = proc, op' = op \/ \E pc \in {"clear", "promote"} : OpGoto(pc, t)
      PROVE  RestType' /\ DispStays
  <2>1. op' \in Op
    BY <1>1, <1>2, Names, GotoType DEF OtherType
  <2> QED
    BY <1>1, <1>2, <2>1, OpRest DEF OpMove, OtherType
<1>3. CASE OpComplete(t)
  BY <1>2, <1>3, CompletedKeeps DEF OpComplete
<1>4. CASE OpBlock(t)
  BY <1>2, <1>4, BlockedKeeps DEF OpBlock
<1>5. CASE OpRequestReview(t)
  BY <1>2, <1>5, ReviewRequestedKeeps DEF OpRequestReview
<1>6. CASE OpUnblock(t)
  <2> DEFINE row == Unblocked(t)
             resume == IF task[t].status = "blocked" THEN task[t].resume ELSE "ready"
             status == IF Satisfied(t) THEN resume ELSE "todo"
  <2>1. /\ Close(t, row, "reclaimed") /\ tried' = [tried EXCEPT ![t] = 0]
        /\ asked' = asked /\ task[t].status # "running" /\ RestType' /\ DispStays
    BY <1>2, <1>6 DEF OpUnblock
  <2>2. resume \in Phase /\ status \in Status \ {"running"}
    BY <1>1, RowFields DEF Phase, Status
  <2>3. row = [task[t] EXCEPT !.status = status, !.failures = 0, !.sticky = FALSE,
                              !.resume = resume]
    BY DEF Unblocked
  <2> HIDE DEF row, resume, status
  <2>4. row \in Row /\ row.status # "running" /\ row.lock = task[t].lock
    BY <1>1, <2>2, <2>3 DEF Row
  <2>5. OtherType'
    BY <1>1, <2>1 DEF OtherType, RestType
  <2> QED
    BY <2>1, <2>4, <2>5, Names, RestKeeps
<1>7. CASE OpReopenReview(t)
  <2> DEFINE row == [Freed(task[t]) EXCEPT !.status = Landing(t), !.resume = "ready"]
  <2>1. /\ Close(t, row, "reclaimed") /\ asked' = [asked EXCEPT ![t] = "ready"]
        /\ tried' = tried /\ RestType' /\ DispStays
    BY <1>2, <1>7 DEF OpReopenReview
  <2>2. row \in Row /\ row.status # "running" /\ row.lock = 0
    BY LandingFacts
  <2> HIDE DEF row
  <2>3. OtherType'
    BY <1>1, <2>1 DEF OtherType, RestType, Phase
  <2> QED
    BY <2>1, <2>2, <2>3, Names, CloseKeeps
<1>8. CASE OpSchedule(t)
  <2> DEFINE row == [Freed(task[t]) EXCEPT !.status = "scheduled"]
  <2>1. /\ Close(t, row, "scheduled") /\ Failed(t, "scheduled")
        /\ asked' = [asked EXCEPT ![t] = "ready"] /\ RestType' /\ DispStays
    BY <1>2, <1>8 DEF OpSchedule
  <2>2. row \in Row /\ row.status # "running" /\ row.lock = 0
    BY <1>1 DEF Row, Status
  <2> HIDE DEF row
  <2>3. OtherType'
    BY <1>1, <2>1, FailedType DEF OtherType, RestType, Phase
  <2> QED
    BY <2>1, <2>2, <2>3, Names, CloseKeeps
<1>9. CASE OpArchive(t)
  <2> DEFINE row == [Freed(task[t]) EXCEPT !.status = "archived"]
  <2>1. /\ Close(t, row, "reclaimed") /\ Failed(t, "reclaimed") /\ asked' = asked
        /\ RestType' /\ DispStays
    BY <1>2, <1>9 DEF OpArchive
  <2>2. row \in Row /\ row.status # "running" /\ row.lock = 0
    BY <1>1 DEF Row, Status
  <2> HIDE DEF row
  <2>3. OtherType'
    BY <1>1, <2>1, FailedType DEF OtherType, RestType
  <2> QED
    BY <2>1, <2>2, <2>3, Names, CloseKeeps
<1>10. CASE OpSpecify(t)
  <2>1. /\ task[t].status = "triage" /\ task' = [task EXCEPT ![t].status = "todo"]
        /\ UNCHANGED <<runs, hist>> /\ RestType' /\ DispStays
    BY <1>2, <1>10 DEF OpSpecify
  <2>2. OtherType'
    BY <1>1, <2>1 DEF OtherType, RestType, hist
  <2>3. "todo" \in Status \ {"running"}
    BY DEF Status
  <2> QED
    BY <2>1, <2>2, <2>3, StatusKeeps
<1>11. CASE \E force \in BOOLEAN : OpPromote(t, force)
  <2>1. /\ task[t].status \in {"todo", "blocked"}
        /\ task' = [task EXCEPT ![t].status = "ready"]
        /\ asked' = [asked EXCEPT ![t] = "ready"]
        /\ UNCHANGED <<runs, tried>> /\ RestType' /\ DispStays
    BY <1>2, <1>11 DEF OpPromote
  <2>2. OtherType'
    BY <1>1, <2>1 DEF OtherType, RestType, Phase
  <2>3. "ready" \in Status \ {"running"}
    BY DEF Status
  <2> QED
    BY <2>1, <2>2, <2>3, StatusKeeps
<1> QED
  BY <1>3, <1>4, <1>5, <1>6, <1>7, <1>8, <1>9, <1>10, <1>11

(* A descendant that is taken back.                                        *)
LEMMA RetractedFacts ==
  ASSUME IInv, NEW c \in Tasks
  PROVE  /\ RetractedRow(c) \in Row /\ RetractedRow(c).status = "todo"
         /\ RetractedRow(c).run = 0 /\ RetractedRow(c).lock = 0
<1> DEFINE row == task[c]
           resume == CASE row.status = "review"  -> "review"
                       [] row.status = "running" -> RetryStatus(c)
                       [] OTHER                  -> "ready"
           streak == IF row.status = "running" THEN Streak(row, "reclaimed")
                     ELSE Freed(row).streak
<1>1. RetryStatus(c) \in Phase /\ row \in Row
  BY RetriedFacts
<1>2. Freed(row) \in Row /\ Freed(row).lock = 0 /\ Freed(row).streak \in Nat
  BY <1>1, FreedFacts DEF Row
<1>3. streak \in Nat
  BY <1>1, <1>2 DEF Streak, Row
<1>4. resume \in Phase
  BY <1>1 DEF Phase
<1>5. RetractedRow(c) = [Freed(row) EXCEPT !.status = "todo", !.run = 0, !.failures = 0,
                           !.resume = resume, !.streak = streak]
  BY DEF RetractedRow
<1>6. "todo" \in Status /\ 0 \in 0..MaxRuns
  BY DEF Status
<1> DEFINE free == Freed(row)
<1>7. /\ free \in Row /\ free.lock = 0
      /\ RetractedRow(c) = [free EXCEPT !.status = "todo", !.run = 0, !.failures = 0,
                              !.resume = resume, !.streak = streak]
  BY <1>2, <1>5
<1> HIDE DEF resume, streak, row, free
<1>8. PICK f \in Row, p \in Phase, n \in Nat : f = free /\ p = resume /\ n = streak
  BY <1>3, <1>4, <1>7
<1>9. /\ RetractedRow(c) = [f EXCEPT !.status = "todo", !.run = 0, !.failures = 0,
                              !.resume = p, !.streak = n]
      /\ f.lock = 0
  BY <1>7, <1>8
<1>10. PICK new : new = RetractedRow(c)
  OBVIOUS
<1>11. new = [f EXCEPT !.status = "todo", !.run = 0, !.failures = 0, !.resume = p,
                       !.streak = n]
  BY <1>9, <1>10
<1>12. new \in Row
  BY <1>6, <1>11 DEF Row
<1>13. new.status = "todo" /\ new.run = 0 /\ new.lock = 0
  BY <1>9, <1>11 DEF Row
<1> QED
  BY <1>10, <1>12, <1>13

MovedRow(t, status) == [Freed(task[t]) EXCEPT !.status = status, !.resume = "ready"]

(* What a dragged card does to the board: t is moved, lost are taken back, *)
(* and the runs of those in ended end.                                     *)
Dragged(t, status, lost, ended, moved) ==
  /\ moved = MovedRow(t, status)
  /\ task' = [c \in Tasks |->
       IF c = t THEN IF t \in ended THEN Without(moved, "reclaimed") ELSE moved
       ELSE IF c \in lost THEN RetractedRow(c) ELSE task[c]]
  /\ runs' = [r \in DOMAIN runs |->
       IF runs[r].outcome = "open" /\ \E c \in ended : task[c].run = r
       THEN [runs[r] EXCEPT !.outcome = "reclaimed"] ELSE runs[r]]
  /\ ended = {c \in lost \cup {t} : task[c].status = "running" /\ task[c].run # 0}
  /\ lost = (IF task[t].status \in {"done", "archived"} THEN Retracted(t) ELSE {})

LEMMA DraggedRow ==
  ASSUME IInv, NEW t \in Tasks, NEW status \in Status \ {"running"}, NEW moved,
         moved = MovedRow(t, status)
  PROVE  /\ moved \in Row /\ moved.status = status /\ moved.lock = 0
         /\ moved.run = task[t].run /\ moved.resume = "ready"
<1>1. /\ Freed(task[t]) \in Row /\ Freed(task[t]).lock = 0
      /\ Freed(task[t]).run = task[t].run /\ "ready" \in Phase
  BY Parts, RunTypes, FreedFacts DEF Phase
<1> QED
  BY <1>1 DEF MovedRow, Row

LEMMA DraggedStep ==
  ASSUME IInv, NEW t \in Tasks, NEW status \in Status \ {"running"}, NEW lost, NEW ended,
         NEW moved, Dragged(t, status, lost, ended, moved)
  PROVE  RunsStay /\ RowsStay
<1> DEFINE closed == {task[c].run : c \in ended}
           how == [r \in DOMAIN runs |-> "reclaimed"]
<1>1. /\ BoardType /\ BoardHolds
      /\ moved = MovedRow(t, status)
      /\ task' = [c \in Tasks |->
           IF c = t THEN IF t \in ended THEN Without(moved, "reclaimed") ELSE moved
           ELSE IF c \in lost THEN RetractedRow(c) ELSE task[c]]
      /\ ended = {c \in lost \cup {t} : task[c].status = "running" /\ task[c].run # 0}
      /\ lost \subseteq Tasks \ {t}
  BY Parts DEF Dragged, Retracted, Descendants
<1>2. runs' = [r \in DOMAIN runs |->
                 IF r \in closed /\ runs[r].outcome = "open"
                 THEN [runs[r] EXCEPT !.outcome = how[r]] ELSE runs[r]]
  BY DEF Dragged
<1>3. \A r \in DOMAIN runs : how[r] \in Outcome \ {"open"}
  BY Names
<1> HIDE DEF how
<1>4. /\ RunsStay
      /\ \A r \in DOMAIN runs : r \in closed => runs'[r].outcome # "open"
      /\ \A r \in DOMAIN runs : r \notin closed => runs'[r] = runs[r]
  <2> HIDE DEF closed
  <2> QED
    BY <1>1, <1>2, <1>3, ManyEnded
<1>5. ASSUME NEW c \in ended
      PROVE  task[c].run # 0 /\ runs'[task[c].run].outcome # "open"
  <2>1. task[c].run # 0 /\ task[c].run \in closed /\ c \in Tasks
    BY <1>1
  <2>2. task[c].run \in DOMAIN runs
    BY <1>1, <2>1 DEF BoardHolds, PointersHold
  <2> QED
    BY <1>4, <2>1, <2>2
<1>6. moved \in Row /\ moved.status = status /\ moved.lock = 0 /\ moved.run = task[t].run
  BY <1>1, DraggedRow
<1>7. /\ task'[t] \in Row /\ task'[t].status # "running" /\ task'[t].lock = 0
      /\ t \in ended => task'[t].run = 0
      /\ t \notin ended => task'[t].run = task[t].run
  <2>1. task'[t] = IF t \in ended THEN Without(moved, "reclaimed") ELSE moved
    BY <1>1
  <2>2. /\ Without(moved, "reclaimed") \in Row /\ Without(moved, "reclaimed").run = 0
        /\ Without(moved, "reclaimed").lock = 0
        /\ Without(moved, "reclaimed").status = status
    BY <1>6, WithoutFacts
  <2> QED
    BY <1>6, <2>1, <2>2
<1>8. \A c \in lost : /\ task'[c] \in Row /\ task'[c].status = "todo"
                      /\ task'[c].run = 0 /\ task'[c].lock = 0
  BY <1>1, RetractedFacts
<1>9. \A c \in Tasks \ (lost \cup {t}) : task'[c] = task[c] /\ task[c] \in Row
  BY <1>1, RunTypes
<1>10. task' \in [Tasks -> Row]
  <2>1. task' = [c \in Tasks |-> task'[c]]
    BY <1>1
  <2> QED
    BY <1>7, <1>8, <1>9, <2>1
<1>11. ASSUME NEW c \in lost
       PROVE  Frees(c) \/ Leaks(c)
  <2>1. CASE c \in ended
    BY <1>5, <1>8, <2>1 DEF Frees
  <2>2. CASE task[c].run = 0
    BY <1>8, <2>2 DEF Frees
  <2>3. CASE c \notin ended /\ task[c].run # 0
    <3>1. task[c].status # "running" /\ c \in Tasks
      BY <1>1, <2>3
    <3>2. Terminals
      BY <1>1, <2>3, <3>1 DEF BoardHolds, Ledger
    <3> QED
      BY <1>8, <3>2 DEF Leaks
  <2> QED
    BY <2>1, <2>2, <2>3
<1>12. Frees(t) \/ Leaks(t)
  <2>1. CASE t \in ended
    BY <1>5, <1>7, <2>1 DEF Frees
  <2>2. CASE t \notin ended
    <3>1. task[t].status # "running" \/ task[t].run = 0
      BY <1>1, <2>2
    <3>2. task[t].status # "running"
      BY <1>1, <3>1 DEF BoardHolds, PointersHold
    <3>3. CASE task[t].run = 0
      BY <1>7, <2>2, <3>3 DEF Frees
    <3>4. CASE task[t].run # 0
      <4>1. Terminals
        BY <1>1, <3>2, <3>4 DEF BoardHolds, Ledger
      <4> QED
        BY <1>7, <2>2, <3>2, <4>1 DEF Leaks
    <3> QED
      BY <3>3, <3>4
  <2> QED
    BY <2>1, <2>2
<1>13. ASSUME NEW u \in Tasks \ (lost \cup {t})
       PROVE  Keeps(u)
  <2>1. u \notin ended /\ ended \subseteq Tasks
    BY <1>1
  <2>2. Terminals \/ task[u].run = 0 \/ task[u].run \notin closed
    BY <1>1, <2>1, PointersDiffer
  <2>3. task[u].run = 0 \/ task[u].run \in DOMAIN runs
    BY <1>1 DEF BoardHolds, PointersHold
  <2> QED
    BY <1>4, <1>9, <2>2, <2>3 DEF Keeps
<1> QED
  BY <1>4, <1>10, <1>11, <1>12, <1>13 DEF RowsStay

(* The drag, with the names of its LET.                                    *)
SetStatusEffect(t, status, lost, ended, moved) ==
  /\ Dragged(t, status, lost, ended, moved)
  /\ status \in {"ready", "review"} => Satisfied(t)
  /\ status \in {"ready", "todo", "triage", "review"}
  /\ task[t].status # "running" => status \in {"ready", "todo", "triage"}
  /\ op' = [OpIdle EXCEPT !.pc = "kill", !.t = t,
              !.kill = {task[c].pid : c \in ended} \ {0},
              !.after = IF status \in {"ready", "review"} THEN "promote" ELSE "idle"]
  /\ asked' = [c \in Tasks |-> IF c = t /\ status # "review" THEN "ready" ELSE asked[c]]
  /\ tried' = [c \in Tasks |-> IF c \in lost \cup ended THEN 0 ELSE tried[c]]

LEMMA SetStatusParts ==
  ASSUME IInv, NEW t \in Tasks, NEW new \in Column, StatusSet(t, new)
  PROVE  \E status \in Status \ {"running"} : \E lost, ended, moved :
           SetStatusEffect(t, status, lost, ended, moved)
<1> DEFINE status == DragStatus(t, new)
           lost == IF task[t].status \in {"done", "archived"} THEN Retracted(t) ELSE {}
           ended == {c \in lost \cup {t} : task[c].status = "running" /\ task[c].run # 0}
           moved == MovedRow(t, status)
<1>1. /\ status \in Status \ {"running"} /\ status \in {"ready", "todo", "triage", "review"}
      /\ status = "review" => Satisfied(t)
      /\ task[t].status # "running" => status \in {"ready", "todo", "triage"}
  BY DEF Status, DragStatus, Column
<1>2. /\ Dragged(t, status, lost, ended, moved)
      /\ status = "ready" => Satisfied(t)
      /\ op' = [OpIdle EXCEPT !.pc = "kill", !.t = t,
                  !.kill = {task[c].pid : c \in ended} \ {0},
                  !.after = IF status \in {"ready", "review"} THEN "promote" ELSE "idle"]
      /\ asked' = [c \in Tasks |-> IF c = t /\ status # "review" THEN "ready" ELSE asked[c]]
      /\ tried' = [c \in Tasks |-> IF c \in lost \cup ended THEN 0 ELSE tried[c]]
  BY DEF StatusSet, Dragged, MovedRow
<1>3. SetStatusEffect(t, status, lost, ended, moved)
  BY <1>1, <1>2 DEF SetStatusEffect
<1> HIDE DEF status, lost, ended, moved
<1> QED
  BY <1>1, <1>3

LEMMA StatusSetKeeps ==
  ASSUME IInv, NEW t \in Tasks, NEW new \in Column, StatusSet(t, new),
         UNCHANGED <<proc, disp, moves, crashes>>
  PROVE  IInv'
<1>0. PICK status \in Status \ {"running"} :
        \E lost, ended, moved : SetStatusEffect(t, status, lost, ended, moved)
  BY SetStatusParts
<1>1. PICK lost, ended, moved : SetStatusEffect(t, status, lost, ended, moved)
  BY <1>0
<1>2. /\ Dragged(t, status, lost, ended, moved)
      /\ op' = [OpIdle EXCEPT !.pc = "kill", !.t = t,
                  !.kill = {task[c].pid : c \in ended} \ {0},
                  !.after = IF status \in {"ready", "review"} THEN "promote" ELSE "idle"]
      /\ asked' = [c \in Tasks |-> IF c = t /\ status # "review" THEN "ready" ELSE asked[c]]
      /\ tried' = [c \in Tasks |-> IF c \in lost \cup ended THEN 0 ELSE tried[c]]
  BY <1>1 DEF SetStatusEffect
<1>3. RunsStay /\ RowsStay
  BY <1>2, DraggedStep
<1>4. OtherType
  BY Parts
<1>5. op' \in Op
  <2>1. {task[c].pid : c \in ended} \ {0} \in SUBSET RunId
    <3>1. ended \subseteq Tasks
      BY <1>2 DEF Dragged, Retracted, Descendants
    <3>2. \A c \in ended : task[c].pid \in 0..MaxRuns
      BY <3>1, Parts, RunTypes, RowFields
    <3> QED
      BY <3>2 DEF RunId
  <2> QED
    BY <1>2, <2>1, IdleTypes DEF Op, OpPc
<1>6. RestType' /\ DispStays
  BY <1>4, <1>5, OpGoesOnRest DEF OtherType
<1>7. asked' \in [Tasks -> Phase] /\ tried' \in [Tasks -> Nat]
  BY <1>2, <1>4 DEF OtherType, Phase
<1>8. OtherType'
  BY <1>6, <1>7 DEF OtherType, RestType
<1> QED
  BY <1>3, <1>6, <1>8, StepKeeps

LEMMA OpSetStatusKeeps ==
  ASSUME IInv, OpSetStatus
  PROVE  IInv'
<1>1. OtherType /\ op.t \in Tasks /\ op.to \in Column
  BY Parts DEF OtherType, Op
<1>2. UNCHANGED <<proc, disp, moves, crashes>>
  BY DEF OpSetStatus
<1>3. CASE StatusSet(op.t, op.to)
  BY <1>1, <1>2, <1>3, StatusSetKeeps
<1>4. CASE StatusRefused(op.t, op.to)
  <2>1. op' = OpIdle /\ UNCHANGED <<board, hist>>
    BY <1>4 DEF StatusRefused
  <2>2. RestType' /\ DispStays
    BY <1>1, <1>2, <2>1, IdleTypes, OpGoesOnRest DEF OtherType
  <2>3. OtherType'
    BY <1>1, <2>1, <2>2 DEF OtherType, RestType, hist
  <2> QED
    BY <2>1, <2>2, <2>3, Parts, NoRows, StepKeeps
<1> QED
  BY <1>3, <1>4 DEF OpSetStatus

LEMMA OpDragKeeps ==
  ASSUME IInv, NEW t \in Tasks, NEW new \in Column, OpDrag(t, new)
  PROVE  IInv'
<1>1. /\ OtherType /\ OpMove /\ proc' = proc /\ UNCHANGED <<board, hist>>
      /\ op' = [OpIdle EXCEPT !.pc = "drag", !.t = t, !.to = new]
  BY Parts DEF OpDrag
<1>2. op' \in Op
  BY <1>1, IdleTypes DEF Op, OpPc
<1>3. RestType' /\ DispStays
  BY <1>1, <1>2, OpRest DEF OpMove, OtherType
<1>4. OtherType'
  BY <1>1, <1>3 DEF OtherType, RestType, hist
<1> QED
  BY <1>1, <1>3, <1>4, Parts, NoRows, StepKeeps

LEMMA OpReclaimStartKeeps ==
  ASSUME IInv, NEW t \in Tasks, OpReclaimStart(t)
  PROVE  IInv'
<1>1. /\ BoardType /\ OtherType /\ OpMove /\ UNCHANGED <<board, hist>>
      /\ IF task[t].lock # 0 THEN Signal({task[t].pid} \ {0}) ELSE UNCHANGED proc
      /\ op' = [OpIdle EXCEPT !.pc = "reclaim", !.t = t, !.lock = task[t].lock]
  BY Parts DEF OpReclaimStart
<1>2. task[t].lock \in Lock
  BY <1>1, RunTypes, RowFields
<1>3. op' \in Op
  BY <1>1, <1>2, IdleTypes DEF Op, OpPc
<1>4. proc' \in [RunId -> Proc]
  BY <1>1, SignalType DEF OtherType
<1>5. RestType' /\ DispStays
  BY <1>1, <1>3, <1>4, OpRest DEF OpMove
<1>6. OtherType'
  BY <1>1, <1>5 DEF OtherType, RestType, hist
<1> QED
  BY <1>1, <1>5, <1>6, NoRows, StepKeeps

LEMMA OpReclaimKeeps ==
  ASSUME IInv, OpReclaim
  PROVE  IInv'
<1> DEFINE t == op.t
<1>1. /\ OtherType /\ UNCHANGED <<proc, disp, moves, crashes, asked>> /\ t \in Tasks
  BY Parts DEF OpReclaim, OtherType, Op
<1>2. CASE Close(t, Retried(t), "reclaimed") /\ Failed(t, "reclaimed") /\ OpGoto("forgive", t)
  <2>1. RestType' /\ DispStays
    BY <1>1, <1>2, Names, GotoType, OpGoesOnRest DEF OtherType
  <2>2. OtherType'
    BY <1>1, <1>2, <2>1, FailedType DEF OtherType, RestType
  <2>3. Retried(t) \in Row /\ Retried(t).status # "running" /\ Retried(t).lock = 0
    BY <1>1, RetriedFacts, PhaseFacts
  <2> HIDE DEF t
  <2> QED
    BY <1>1, <1>2, <2>1, <2>2, <2>3, Names, CloseKeeps
<1>3. CASE op' = OpIdle /\ UNCHANGED <<board, tried>>
  <2>1. RestType' /\ DispStays
    BY <1>1, <1>3, IdleTypes, OpGoesOnRest DEF OtherType
  <2>2. OtherType'
    BY <1>1, <1>3, <2>1 DEF OtherType, RestType
  <2> QED
    BY <1>3, <2>1, <2>2, Parts, NoRows, StepKeeps
<1> QED
  BY <1>2, <1>3 DEF OpReclaim

(* What the operator's process goes on with.                               *)
LEMMA OpGoesOnKeeps ==
  ASSUME IInv, OpKill \/ OpClear \/ OpRecompute \/ OpDies
  PROVE  IInv'
<1>1. OtherType /\ op.t \in Tasks
  BY Parts DEF OtherType, Op
<1>2. ASSUME UNCHANGED <<disp, moves, crashes>>, proc' \in [RunId -> Proc],
             op' = OpIdle \/ \E pc \in {"clear", "promote"} : OpGoto(pc, op.t)
      PROVE  RestType' /\ DispStays
  <2>1. op' \in Op
    BY <1>1, <1>2, IdleTypes, Names, GotoType
  <2> QED
    BY <1>2, <2>1, OpGoesOnRest
<1>3. CASE OpKill
  <2>1. RestType' /\ DispStays /\ UNCHANGED <<board, hist>>
    BY <1>1, <1>2, <1>3, SignalType DEF OpKill, OtherType
  <2>2. OtherType'
    BY <1>1, <2>1 DEF OtherType, RestType, hist
  <2> QED
    BY <2>1, <2>2, Parts, NoRows, StepKeeps
<1>4. CASE OpClear
  <2>1. RestType' /\ DispStays
    BY <1>1, <1>2, <1>4 DEF OpClear, OtherType
  <2> QED
    BY <1>1, <1>4, <2>1, ClearKeeps DEF OpClear
<1>5. CASE OpRecompute
  <2>1. RestType' /\ DispStays /\ RecomputeReady(DefaultLimit) /\ UNCHANGED <<runs, hist>>
    BY <1>1, <1>2, <1>5 DEF OpRecompute, OtherType
  <2>2. OtherType'
    BY <1>1, <2>1 DEF OtherType, RestType, hist
  <2> QED
    BY <2>1, <2>2, RecomputeKeeps
<1>6. CASE OpDies
  <2>1. RestType' /\ DispStays /\ UNCHANGED <<board, hist>>
    BY <1>1, <1>2, <1>6 DEF OpDies, OtherType
  <2>2. OtherType'
    BY <1>1, <2>1 DEF OtherType, RestType, hist
  <2> QED
    BY <2>1, <2>2, Parts, NoRows, StepKeeps
<1> QED
  BY <1>3, <1>4, <1>5, <1>6

-------------------------------------------------------------------------------
LEMMA InitHolds == Init => IInv
<1> SUFFICES ASSUME Init
             PROVE  IInv
  OBVIOUS
<1>1. /\ disp = DispIdle /\ op = OpIdle /\ runs = <<>>
      /\ proc = [r \in RunId |-> "none"] /\ moves = 0 /\ crashes = 0
      /\ asked = [t \in Tasks |-> "ready"] /\ tried = [t \in Tasks |-> 0]
  BY DEF Init
<1>2. OtherType
  BY <1>1, IdleTypes DEF OtherType, Proc, Phase
<1>3. /\ task \in [Tasks -> Row]
      /\ \A t \in Tasks : /\ task[t].status # "running" /\ task[t].run = 0
                          /\ task[t].lock = 0
  <2>1. \A t \in Tasks : task[t] =
          [status |-> IF Parents[t] = {} THEN "ready" ELSE "todo", lock |-> 0,
           expired |-> FALSE, pid |-> 0, run |-> 0, failures |-> 0, streak |-> 0,
           sticky |-> FALSE, resume |-> "ready", kind |-> "none", recur |-> 0]
    BY DEF Init
  <2>2. ASSUME NEW t \in Tasks
        PROVE  /\ task[t] \in Row /\ task[t].status # "running" /\ task[t].run = 0
               /\ task[t].lock = 0
    <3>1. 0 \in Lock /\ 0 \in 0..MaxRuns
      BY DEF Lock, Lane
    <3>2. PICK status \in {"ready", "todo"} :
            status = IF Parents[t] = {} THEN "ready" ELSE "todo"
      OBVIOUS
    <3>3. task[t] =
            [status |-> status, lock |-> 0,
             expired |-> FALSE, pid |-> 0, run |-> 0, failures |-> 0, streak |-> 0,
             sticky |-> FALSE, resume |-> "ready", kind |-> "none", recur |-> 0]
      BY <2>1, <3>2
    <3>4. status \in Status /\ "ready" \in Phase /\ "none" \in Kind
      BY DEF Status, Phase, Kind
    <3> QED
      BY <3>1, <3>3, <3>4 DEF Row
  <2> QED
    BY <2>2 DEF Init
<1>4. BoardType
  BY <1>1, <1>3 DEF BoardType
<1>5. BoardHolds
  BY <1>1, <1>3 DEF BoardHolds, PointersHold, Ledger, IsOpen
<1>6. DispAgrees
  BY <1>1, IdleTypes DEF DispAgrees
<1> QED
  BY <1>2, <1>4, <1>5, <1>6, Parts

LEMMA NextKeeps == IInv /\ [Next]_vars => IInv'
<1> SUFFICES ASSUME IInv, [Next]_vars
             PROVE  IInv'
  OBVIOUS
<1>1. CASE Dispatcher
  <2>1. ASSUME NEW t \in Tasks, DispPass(t)
        PROVE  IInv'
    BY <2>1, ClaimKeeps, TimeoutStartKeeps, ReclaimStartKeeps DEF DispPass
  <2>2. CASE DispGoesOn
    BY <2>2, SpawnKeeps, SetWorkerPidKeeps, SpawnFailedKeeps, ReclaimKeeps, TimeoutKeeps,
       AccountKeeps DEF DispGoesOn
  <2> QED
    BY <1>1, <2>1, <2>2, DetectCrashedKeeps, DispPromoteKeeps DEF Dispatcher
<1>2. CASE DispDies
  BY <1>2, DispDiesKeeps
<1>3. CASE Operator
  <2>1. ASSUME NEW t \in Tasks,
               \/ OpComplete(t) \/ OpBlock(t) \/ OpUnblock(t) \/ OpRequestReview(t)
               \/ OpReopenReview(t) \/ OpSchedule(t) \/ OpArchive(t) \/ OpSpecify(t)
               \/ OpReclaimStart(t)
               \/ \E force \in BOOLEAN : OpPromote(t, force)
               \/ \E new \in Column : OpDrag(t, new)
        PROVE  IInv'
    BY <2>1, OpMoveKeeps, OpReclaimStartKeeps, OpDragKeeps
  <2>2. CASE OpSetStatus \/ OpKill \/ OpReclaim \/ OpClear \/ OpRecompute \/ OpDies
    BY <2>2, OpGoesOnKeeps, OpReclaimKeeps, OpSetStatusKeeps
  <2> QED
    BY <1>3, <2>1, <2>2 DEF Operator
<1>4. CASE \E r \in DOMAIN runs : Worker(r)
  BY <1>4, WorkerKeeps
<1>5. CASE \E t \in Tasks : Expire(t) \/ TerminalClaim(t)
  BY <1>5, ExpireKeeps, TerminalClaimKeeps
<1>6. CASE UNCHANGED vars
  <2>1. OtherType' /\ DispStays /\ UNCHANGED board
    BY <1>6, Parts, DispSame DEF vars, hist, OtherType
  <2> QED
    BY <2>1, Parts, NoRows, StepKeeps
<1> QED
  BY <1>1, <1>2, <1>3, <1>4, <1>5, <1>6 DEF Next

(* The rows of the board keep their types, pointers to runs are those of   *)
(* running tasks or of implementers, the dispatcher remembers what the     *)
(* board shows, and, where no terminal claims, exactly the running tasks   *)
(* have a claim and an open run (the runs invariant of                     *)
(* _reclaim_dangling_run).                                                 *)
THEOREM Invariance == Spec => []IInv
BY InitHolds, NextKeeps, PTL DEF Spec

-------------------------------------------------------------------------------
(* The premise: what a step may do to the status of a task, and of those   *)
(* it waits for.                                                           *)

Final == {"done", "archived"}
Built == {"running", "review", "done"}

Careful(t) ==
  /\ task[t].status \in Final => task'[t].status \in Final
  /\ task'[t].status \in Built => Satisfied(t)

LEMMA CarefulStep ==
  ASSUME PremiseHolds, \A t \in Tasks : Careful(t)
  PROVE  PremiseHolds'
<1> SUFFICES ASSUME NEW t \in Tasks, task'[t].status \in Built, NEW p \in Parents[t]
             PROVE  task'[p].status \in Final
  BY DEF PremiseHolds, Satisfied, Built, Final
<1>1. p \in Tasks
  OBVIOUS
<1>2. task[p].status \in Final
  BY DEF Careful, Satisfied, Final
<1> QED
  BY <1>1, <1>2 DEF Careful

LEMMA CarefulSame ==
  ASSUME PremiseHolds, NEW t \in Tasks, task'[t].status = task[t].status
  PROVE  Careful(t)
BY DEF PremiseHolds, Careful, Built, Final

LEMMA SameKeepsPremise ==
  ASSUME PremiseHolds, \A t \in Tasks : task'[t].status = task[t].status
  PROVE  PremiseHolds'
BY CarefulSame, CarefulStep

(* A step that writes one row.                                             *)
LEMMA RowKeepsPremise ==
  ASSUME IInv, PremiseHolds, NEW t \in Tasks, NEW row, task' = [task EXCEPT ![t] = row],
         task[t].status \in Final => row.status \in Final,
         row.status \in Built => Satisfied(t)
  PROVE  PremiseHolds'
<1>1. task'[t] = row /\ \A u \in Tasks \ {t} : task'[u] = task[u]
  BY Parts DEF BoardType
<1>2. Careful(t)
  BY <1>1 DEF Careful
<1>3. \A u \in Tasks \ {t} : Careful(u)
  BY <1>1, CarefulSame
<1> QED
  BY <1>2, <1>3, CarefulStep

LEMMA CloseKeepsPremise ==
  ASSUME IInv, PremiseHolds, NEW t \in Tasks, NEW row \in Row, NEW outcome,
         Close(t, row, outcome),
         task[t].status \in Final => row.status \in Final,
         row.status \in Built => Satisfied(t)
  PROVE  PremiseHolds'
<1>1. task' = [task EXCEPT ![t] = Without(row, outcome)]
  BY DEF Close
<1>2. Without(row, outcome).status = row.status
  BY WithoutFacts
<1> QED
  BY <1>1, <1>2, RowKeepsPremise

(* An interrupted run goes back to its phase: to review only where the     *)
(* premise held already.                                                   *)
LEMMA RetriedKeepsPremise ==
  ASSUME IInv, PremiseHolds, NEW t \in Tasks, NEW outcome, Close(t, Retried(t), outcome),
         task[t].status \in {"running", "ready", "blocked"}
  PROVE  PremiseHolds'
<1>1. Retried(t) \in Row /\ Retried(t).status = RetryStatus(t)
      /\ RetryStatus(t) \in Phase
  BY RetriedFacts
<1>2. RetryStatus(t) = "review" => task[t].status = "running"
  BY Parts DEF BoardHolds, PointersHold, RetryStatus
<1>3. task[t].status = "running" => Satisfied(t)
  BY DEF PremiseHolds
<1> QED
  BY <1>1, <1>2, <1>3, CloseKeepsPremise DEF Phase, Built, Final

LEMMA RecomputeKeepsPremise ==
  ASSUME IInv, PremiseHolds, NEW limit, RecomputeReady(limit), runs' = runs
  PROVE  PremiseHolds'
<1>1. ASSUME NEW t \in Tasks
      PROVE  Careful(t)
  <2>1. CASE task'[t] = task[t]
    BY <2>1, CarefulSame
  <2>2. CASE Promotable(t, limit)
    BY <2>2 DEF Promotable, Careful, Final
  <2> QED
    BY <2>1, <2>2, Parts, RecomputeStep
<1> QED
  BY <1>1, CarefulStep

LEMMA FreedTo ==
  ASSUME IInv, NEW t \in Tasks, NEW status \in Status, NEW row,
         row = [Freed(task[t]) EXCEPT !.status = status]
  PROVE  row \in Row /\ row.status = status
<1>1. Freed(task[t]) \in Row
  BY Parts, RunTypes, FreedFacts
<1> QED
  BY <1>1 DEF Row

LEMMA ClaimRejectedKeepsPremise ==
  ASSUME IInv, PremiseHolds, NEW t \in Tasks, ClaimRejected(t)
  PROVE  PremiseHolds'
<1> DEFINE row == IF task[t].status = "ready" THEN [task[t] EXCEPT !.status = "todo"]
                  ELSE [task[t] EXCEPT !.status = "todo", !.resume = "review"]
<1>1. task' = [task EXCEPT ![t] = row] /\ task[t].status \in Phase
  BY DEF ClaimRejected
<1>2. row.status = "todo"
  BY Parts, RunTypes DEF Row
<1> HIDE DEF row
<1> QED
  BY <1>1, <1>2, RowKeepsPremise DEF Phase, Built, Final

LEMMA ClaimedKeepsPremise ==
  ASSUME IInv, PremiseHolds, NEW t \in Tasks, NEW from \in Phase, NEW by, Claimed(t, from, by)
  PROVE  PremiseHolds'
<1> DEFINE row == [task[t] EXCEPT !.status = "running", !.lock = by,
                                  !.expired = FALSE, !.run = Len(runs) + 1]
<1>1. task' = [task EXCEPT ![t] = row] /\ task[t].status = from /\ Satisfied(t)
  BY DEF Claimed
<1> HIDE DEF row
<1> QED
  BY <1>1, RowKeepsPremise DEF Phase, Built, Final

LEMMA CompletedKeepsPremise ==
  ASSUME IInv, PremiseHolds, NEW t \in Tasks, Completed(t)
  PROVE  PremiseHolds'
<1> DEFINE row == [Freed(task[t]) EXCEPT !.status = "done", !.kind = "none", !.recur = 0]
<1>1. Close(t, row, "completed") /\ Satisfied(t)
  BY DEF Completed
<1>2. row \in Row /\ row.status = "done"
  <2>1. Freed(task[t]) \in Row
    BY Parts, RunTypes, FreedFacts
  <2> QED
    BY <2>1 DEF Row, Status, Kind
<1> HIDE DEF row
<1> QED
  BY <1>1, <1>2, CloseKeepsPremise DEF Final

LEMMA BlockedKeepsPremise ==
  ASSUME IInv, PremiseHolds, NEW t \in Tasks, NEW kind \in {"dependency", "input"},
         Blocked(t, kind)
  PROVE  PremiseHolds'
<1>1. PICK row \in Row : /\ Close(t, row, "blocked")
                         /\ row.status \in {"todo", "triage", "blocked"}
  BY BlockedFacts
<1>2. task[t].status \in {"running", "ready"}
  BY DEF Blocked
<1> QED
  BY <1>1, <1>2, CloseKeepsPremise DEF Built, Final

LEMMA ReviewRequestedKeepsPremise ==
  ASSUME IInv, PremiseHolds, NEW t \in Tasks, ReviewRequested(t)
  PROVE  PremiseHolds'
<1> DEFINE row == [Freed(task[t]) EXCEPT !.status = "review"]
<1>1. Close(t, row, "review_requested") /\ Satisfied(t) /\ task[t].status \in {"running", "ready"}
  BY DEF ReviewRequested
<1>2. row \in Row /\ row.status = "review"
  BY FreedTo DEF Status
<1> HIDE DEF row
<1> QED
  BY <1>1, <1>2, CloseKeepsPremise DEF Final

LEMMA LandingKeepsPremise ==
  ASSUME IInv, PremiseHolds, NEW t \in Tasks, task[t].status \in {"running", "review"},
         NEW outcome,
         Close(t, [Freed(task[t]) EXCEPT !.status = Landing(t), !.resume = "ready"], outcome)
  PROVE  PremiseHolds'
<1> DEFINE row == [Freed(task[t]) EXCEPT !.status = Landing(t), !.resume = "ready"]
<1>1. row \in Row /\ row.status = Landing(t)
  BY LandingFacts
<1> HIDE DEF row
<1>2. Close(t, row, outcome)
  BY DEF row
<1> QED
  BY <1>1, <1>2, CloseKeepsPremise DEF Landing, Built, Final

(* A field other than the status is written.                               *)
LEMMA FieldsKeepPremise ==
  ASSUME IInv, PremiseHolds, NEW t \in Tasks, NEW x,
         \/ task' = [task EXCEPT ![t].expired = x] \/ task' = [task EXCEPT ![t].pid = x]
         \/ task' = [task EXCEPT ![t].failures = x]
  PROVE  PremiseHolds'
<1>1. task \in [Tasks -> Row]
  BY Parts DEF BoardType
<1>2. \A u \in Tasks : task'[u].status = task[u].status
  BY <1>1 DEF Row
<1> QED
  BY <1>2, SameKeepsPremise

LEMMA SpawnFailedKeepsPremise ==
  ASSUME IInv, PremiseHolds, SpawnFailed
  PROVE  PremiseHolds'
<1> DEFINE t == disp.t
           row == task[t]
           n == row.failures + 1
           trip == n >= FailureLimit
           hit == row.status \in (IF trip THEN {"running", "ready", "review"} ELSE {"running"})
           status == IF trip THEN "blocked" ELSE RetryStatus(t)
           new == [Freed(row) EXCEPT !.status = status, !.failures = n]
           resumed == [IF hit THEN new ELSE row EXCEPT !.resume = RetryStatus(t)]
           outcome == IF trip THEN "gave_up" ELSE "spawn_failed"
<1>1. Close(t, resumed, outcome) /\ t \in Tasks
  BY Parts DEF SpawnFailed, OtherType, Disp
<1> HIDE DEF t
<1>2. row \in Row /\ RetryStatus(t) \in Phase /\ Freed(row) \in Row /\ n \in Nat
  BY <1>1, RetriedFacts, FreedFacts, RowFields
<1>3. status \in {"blocked"} \cup Phase /\ status \in Status
  BY <1>2 DEF Phase, Status
<1>4. CASE hit
  <2>1. resumed = [new EXCEPT !.resume = RetryStatus(t)] /\ row.status \in {"running", "ready", "review"}
    BY <1>4
  <2>2. status \in Built => Satisfied(t)
    BY <1>1, <1>2, <1>4 DEF Built, Phase, PremiseHolds
  <2> HIDE DEF n, status
  <2>3. new \in Row /\ new.status = status
    BY <1>2, <1>3 DEF Row
  <2> HIDE DEF new
  <2>4. resumed \in Row /\ resumed.status = status
    BY <1>2, <2>1, <2>3 DEF Row
  <2> HIDE DEF resumed, outcome
  <2> QED
    BY <1>1, <2>1, <2>2, <2>4, CloseKeepsPremise DEF Final
<1>5. CASE ~hit
  <2>1. resumed = [row EXCEPT !.resume = RetryStatus(t)]
    BY <1>5
  <2>2. resumed \in Row /\ resumed.status = row.status
    BY <1>2, <2>1 DEF Row
  <2>3. row.status \in Built => Satisfied(t)
    BY <1>1 DEF PremiseHolds, Built
  <2> HIDE DEF resumed, outcome, row
  <2> QED
    BY <1>1, <2>2, <2>3, CloseKeepsPremise DEF row
<1> QED
  BY <1>4, <1>5

LEMMA DetectCrashedKeepsPremise ==
  ASSUME IInv, PremiseHolds, NEW S \in SUBSET Tasks, DetectCrashed(S)
  PROVE  PremiseHolds'
<1> DEFINE how(t) == Verdict(task[t].pid)
<1>1. /\ task' = [t \in Tasks |-> IF t \in S THEN Without(CrashedRow(t), how(t)) ELSE task[t]]
      /\ \A t \in S : task[t].status = "running"
  BY DEF DetectCrashed, HasCrashed
<1> HIDE DEF how
<1>2. ASSUME NEW t \in S
      PROVE  Careful(t)
  <2>1. task'[t].status = CrashedRow(t).status
    BY <1>1, CrashedFacts, WithoutFacts
  <2>2. CrashedRow(t).status = RetryStatus(t) /\ RetryStatus(t) \in Phase
    BY RetriedFacts DEF CrashedRow, Row
  <2> QED
    BY <1>1, <2>1, <2>2 DEF Careful, PremiseHolds, Final, Phase
<1>3. \A t \in Tasks \ S : Careful(t)
  BY <1>1, CarefulSame
<1> QED
  BY <1>2, <1>3, CarefulStep

LEMMA AccountKeepsPremise ==
  ASSUME IInv, PremiseHolds, NEW f \in disp.failed, Account(f)
  PROVE  PremiseHolds'
<1> DEFINE t == f.t
           row == task[t]
           new == IF ~f.violation
                  THEN Counted(row, IF disp.systemic THEN 1 ELSE DefaultLimit, FALSE)
                  ELSE IF row.streak < ViolationLimit THEN row
                  ELSE Counted(row, ViolationLimit, TRUE)
<1>1. t \in Tasks /\ task[t] \in Row
  BY Parts, RunTypes DEF OtherType, Disp
<1>2. task' = [task EXCEPT ![t] = new]
  BY DEF Account
<1>3. CountedAs(row, new) \/ new = row
  BY <1>1 DEF CountedAs, Counted, Row
<1>4. row.status \in Built => Satisfied(t)
  BY <1>1 DEF PremiseHolds, Built
<1> HIDE DEF new, row
<1>5. \/ new.status = "blocked" /\ row.status \in {"ready", "review", "running"}
      \/ new.status = row.status
  BY <1>1, <1>3, CountedFacts DEF row
<1> QED
  BY <1>1, <1>2, <1>4, <1>5, RowKeepsPremise DEF row, Built, Final

(* The descendants of a task: its children are among them, and theirs.     *)
LEMMA DescendantsClosed ==
  ASSUME NEW t \in Tasks
  PROVE  /\ Children(t) \subseteq Descendants(t) /\ Descendants(t) \subseteq Tasks
         /\ \A s \in Descendants(t) : Children(s) \subseteq Descendants(t)
<1> DEFINE Closed(S) == Children(t) \subseteq S /\ \A s \in S : Children(s) \subseteq S
<1>1. Descendants(t) = {c \in Tasks : \A S \in SUBSET Tasks : Closed(S) => c \in S}
  BY DEF Descendants
<1>2. \A s : Children(s) \subseteq Tasks
  BY DEF Children
<1>3. Children(t) \subseteq Descendants(t)
  <2> HIDE DEF Descendants
  <2> QED
    BY <1>1, <1>2
<1>4. ASSUME NEW s \in Descendants(t), NEW c \in Children(s)
      PROVE  c \in Descendants(t)
  <2>1. ASSUME NEW S \in SUBSET Tasks, Closed(S)
        PROVE  c \in S
    BY <1>1, <1>4, <2>1
  <2> HIDE DEF Closed
  <2> QED
    BY <1>1, <1>2, <1>4, <2>1
<1> QED
  BY <1>1, <1>3, <1>4

LEMMA NotRetracted ==
  ASSUME NEW t \in Tasks, NEW c \in Tasks \ {t}, c \notin Retracted(t),
         task[c].status \in Built
  PROVE  c \notin Descendants(t)
BY DEF Retracted, Built

(* A done task that is taken back takes with it everything built on it.    *)
LEMMA StatusSetKeepsPremise ==
  ASSUME IInv, PremiseHolds, NEW t \in Tasks, NEW new \in Column, StatusSet(t, new)
  PROVE  PremiseHolds'
<1>0. PICK status \in Status \ {"running"} :
        \E lost, ended, moved : SetStatusEffect(t, status, lost, ended, moved)
  BY SetStatusParts
<1>1. PICK lost, ended, moved : SetStatusEffect(t, status, lost, ended, moved)
  BY <1>0
<1>2. /\ moved = MovedRow(t, status)
      /\ task' = [c \in Tasks |->
           IF c = t THEN IF t \in ended THEN Without(moved, "reclaimed") ELSE moved
           ELSE IF c \in lost THEN RetractedRow(c) ELSE task[c]]
      /\ lost = IF task[t].status \in Final THEN Retracted(t) ELSE {}
      /\ status \in {"ready", "review"} => Satisfied(t)
      /\ task[t].status # "running" => status \in {"ready", "todo", "triage"}
      /\ status \in {"ready", "todo", "triage", "review"}
  BY <1>1 DEF SetStatusEffect, Dragged, Final
<1>3. task'[t].status = status
  <2>1. moved \in Row /\ moved.status = status
    BY <1>2, DraggedRow
  <2>2. task'[t] = IF t \in ended THEN Without(moved, "reclaimed") ELSE moved
    BY <1>2
  <2> QED
    BY <2>1, <2>2, WithoutFacts
<1>4. lost \subseteq Tasks \ {t}
  BY <1>2 DEF Retracted, Descendants
<1>5. \A c \in lost : task'[c].status = "todo"
  BY <1>2, <1>4, RetractedFacts
<1>6. \A c \in Tasks \ (lost \cup {t}) : task'[c] = task[c]
  BY <1>2
<1>7. CASE task[t].status \notin Final
  <2>1. lost = {}
    BY <1>2, <1>7
  <2>2. Careful(t)
    BY <1>2, <1>3, <1>7 DEF Careful, Built
  <2>3. \A c \in Tasks \ {t} : Careful(c)
    BY <1>6, <2>1, CarefulSame
  <2> QED
    BY <2>2, <2>3, CarefulStep
<1>8. CASE task[t].status \in Final
  <2> SUFFICES ASSUME NEW c \in Tasks, task'[c].status \in Built, NEW p \in Parents[c]
               PROVE  task'[p].status \in Final
    BY DEF PremiseHolds, Satisfied, Built, Final
  <2>1. p \in Tasks /\ c \in Children(p)
    BY DEF Children
  <2>2. c # t /\ c \notin lost
    BY <1>2, <1>3, <1>5, <1>8, <2>1 DEF Built, Final
  <2>3. task[c].status \in Built
    BY <1>6, <2>2
  <2>4. c \notin Descendants(t)
    BY <1>2, <1>8, <2>2, <2>3, NotRetracted
  <2>5. p \notin lost \cup {t}
    <3>1. lost \subseteq Descendants(t)
      BY <1>2 DEF Retracted
    <3> QED
      BY <2>1, <2>4, <3>1, DescendantsClosed
  <2>6. task[p].status \in Final
    BY <2>3 DEF PremiseHolds, Satisfied, Built, Final
  <2> QED
    BY <1>6, <2>1, <2>5, <2>6
<1> QED
  BY <1>7, <1>8

LEMMA OpMoveKeepsPremise ==
  ASSUME IInv, PremiseHolds, NEW t \in Tasks,
         \/ OpComplete(t) \/ OpBlock(t) \/ OpRequestReview(t) \/ OpUnblock(t)
         \/ OpReopenReview(t) \/ OpSchedule(t) \/ OpArchive(t) \/ OpSpecify(t)
         \/ OpReclaimStart(t) \/ \E force \in BOOLEAN : OpPromote(t, force)
  PROVE  PremiseHolds'
<1>1. task[t] \in Row
  BY Parts, RunTypes
<1>2. CASE OpComplete(t) \/ OpBlock(t) \/ OpRequestReview(t)
  BY <1>2, CompletedKeepsPremise, BlockedKeepsPremise, ReviewRequestedKeepsPremise
     DEF OpComplete, OpBlock, OpRequestReview
<1>3. CASE OpUnblock(t)
  <2> DEFINE row == Unblocked(t)
             resume == IF task[t].status = "blocked" THEN task[t].resume ELSE "ready"
             status == IF Satisfied(t) THEN resume ELSE "todo"
  <2>1. Close(t, row, "reclaimed") /\ task[t].status \in {"blocked", "scheduled"}
    BY <1>3 DEF OpUnblock
  <2>2. resume \in Phase /\ status \in Status
    BY <1>1, RowFields DEF Phase, Status
  <2>3. row = [task[t] EXCEPT !.status = status, !.failures = 0, !.sticky = FALSE,
                              !.resume = resume]
    BY DEF Unblocked
  <2>4. status \in Built => Satisfied(t)
    BY DEF Built
  <2> HIDE DEF row, resume, status
  <2>5. row \in Row /\ row.status = status
    BY <1>1, <2>2, <2>3 DEF Row
  <2> QED
    BY <2>1, <2>4, <2>5, CloseKeepsPremise DEF Final
<1>4. CASE OpReopenReview(t)
  BY <1>4, LandingKeepsPremise DEF OpReopenReview
<1>5. CASE OpSchedule(t)
  <2> DEFINE row == [Freed(task[t]) EXCEPT !.status = "scheduled"]
  <2>1. Close(t, row, "scheduled") /\ task[t].status \in {"todo", "ready", "running", "blocked"}
    BY <1>5 DEF OpSchedule
  <2>2. row \in Row /\ row.status = "scheduled"
    BY FreedTo DEF Status
  <2> HIDE DEF row
  <2> QED
    BY <2>1, <2>2, CloseKeepsPremise DEF Final, Built
<1>6. CASE OpArchive(t)
  <2> DEFINE row == [Freed(task[t]) EXCEPT !.status = "archived"]
  <2>1. Close(t, row, "reclaimed")
    BY <1>6 DEF OpArchive
  <2>2. row \in Row /\ row.status = "archived"
    BY FreedTo DEF Status
  <2> HIDE DEF row
  <2> QED
    BY <2>1, <2>2, CloseKeepsPremise DEF Final, Built
<1>7. CASE OpSpecify(t) \/ \E force \in BOOLEAN : OpPromote(t, force)
  <2>1. PICK status \in {"todo", "ready"} : task' = [task EXCEPT ![t].status = status]
    BY <1>7 DEF OpSpecify, OpPromote
  <2>2. task[t].status \notin Final
    BY <1>7 DEF OpSpecify, OpPromote, Final
  <2> DEFINE row == [task[t] EXCEPT !.status = status]
  <2>3. task' = [task EXCEPT ![t] = row]
    BY <2>1
  <2>4. row.status = status
    BY <1>1 DEF Row
  <2> HIDE DEF row
  <2> QED
    BY <2>2, <2>3, <2>4, RowKeepsPremise DEF Built
<1>8. CASE OpReclaimStart(t)
  BY <1>8, SameKeepsPremise DEF OpReclaimStart, board
<1> QED
  BY <1>2, <1>3, <1>4, <1>5, <1>6, <1>7, <1>8

LEMMA NextKeepsPremise == IInv /\ PremiseHolds /\ [Next]_vars => PremiseHolds'
<1> SUFFICES ASSUME IInv, PremiseHolds, [Next]_vars
             PROVE  PremiseHolds'
  OBVIOUS
<1>1. CASE Dispatcher
  <2>1. ASSUME NEW t \in Tasks, Claim(t)
        PROVE  PremiseHolds'
    BY <2>1, ClaimRejectedKeepsPremise, ClaimedKeepsPremise DEF Claim
  <2>2. ASSUME NEW t \in Tasks, TimeoutStart(t)
        PROVE  PremiseHolds'
    BY <2>2, SameKeepsPremise DEF TimeoutStart, board
  <2>3. ASSUME NEW t \in Tasks, NEW why \in {"ttl", "stale"}, ReclaimStart(t, why)
        PROVE  PremiseHolds'
    BY <2>3, SameKeepsPremise, FieldsKeepPremise DEF ReclaimStart, Extended, board
  <2>4. CASE Spawn
    BY <2>4, SameKeepsPremise DEF Spawn, board
  <2>5. CASE SetWorkerPid
    BY <2>5, FieldsKeepPremise, Parts DEF SetWorkerPid, OtherType, Disp
  <2>6. CASE Reclaim \/ Timeout
    <3>1. disp.t \in Tasks
      BY Parts DEF OtherType, Disp
    <3>2. CASE UNCHANGED board
      BY <3>2, SameKeepsPremise DEF board
    <3>3. CASE ~UNCHANGED board
      <4>1. /\ task[disp.t].status = "running"
            /\ \E outcome : Close(disp.t, Retried(disp.t), outcome)
        BY <2>6, <3>3 DEF Reclaim, Timeout
      <4> QED
        BY <3>1, <4>1, RetriedKeepsPremise
    <3> QED
      BY <3>2, <3>3
  <2>7. CASE DispPromote
    BY <2>7, RecomputeKeepsPremise DEF DispPromote
  <2> QED
    BY <1>1, <2>1, <2>2, <2>3, <2>4, <2>5, <2>6, <2>7, SpawnFailedKeepsPremise,
       DetectCrashedKeepsPremise, AccountKeepsPremise DEF Dispatcher, DispPass, DispGoesOn
<1>2. CASE DispDies
  BY <1>2, SameKeepsPremise DEF DispDies, board
<1>3. CASE Operator
  <2>1. ASSUME NEW t \in Tasks,
               \/ OpComplete(t) \/ OpBlock(t) \/ OpUnblock(t) \/ OpRequestReview(t)
               \/ OpReopenReview(t) \/ OpSchedule(t) \/ OpArchive(t) \/ OpSpecify(t)
               \/ OpReclaimStart(t)
               \/ \E force \in BOOLEAN : OpPromote(t, force)
               \/ \E new \in Column : OpDrag(t, new)
        PROVE  PremiseHolds'
    BY <2>1, OpMoveKeepsPremise, SameKeepsPremise DEF OpDrag, board
  <2>2. CASE OpKill \/ OpDies
    BY <2>2, SameKeepsPremise DEF OpKill, OpDies, board
  <2>3. op.t \in Tasks /\ op.to \in Column
    BY Parts DEF OtherType, Op
  <2>4. CASE OpReclaim
    BY <2>3, <2>4, RetriedKeepsPremise, SameKeepsPremise DEF OpReclaim, board
  <2>5. CASE OpClear
    BY <2>3, <2>5, FieldsKeepPremise DEF OpClear, ClearFailures
  <2>6. CASE OpRecompute
    BY <2>6, RecomputeKeepsPremise DEF OpRecompute
  <2>7. CASE OpSetStatus
    BY <2>3, <2>7, StatusSetKeepsPremise, SameKeepsPremise
       DEF OpSetStatus, StatusRefused, board
  <2> QED
    BY <1>3, <2>1, <2>2, <2>4, <2>5, <2>6, <2>7 DEF Operator
<1>4. CASE \E r \in DOMAIN runs : Worker(r)
  <2>1. PICK r \in DOMAIN runs : Worker(r)
    BY <1>4
  <2> DEFINE t == runs[r].task
  <2>2. t \in Tasks
    BY Parts, RunTypes
  <2>3. CASE WorkerComplete(r) \/ WorkerRequestReview(r)
    BY <2>2, <2>3, CompletedKeepsPremise, ReviewRequestedKeepsPremise
       DEF WorkerComplete, WorkerRequestReview
  <2>4. CASE WorkerRequestChanges(r)
    BY <2>2, <2>4, LandingKeepsPremise DEF WorkerRequestChanges
  <2>5. CASE \E kind \in {"dependency", "input"} : WorkerBlock(r, kind)
    BY <2>2, <2>5, BlockedKeepsPremise DEF WorkerBlock
  <2>6. CASE WorkerClear(r) \/ Heartbeat(r)
    BY <2>2, <2>6, FieldsKeepPremise DEF WorkerClear, ClearFailures, Heartbeat, Extended
  <2>7. CASE WorkerPromote(r)
    BY <2>7, RecomputeKeepsPremise DEF WorkerPromote
  <2>8. CASE \E how \in Dead : Exit(r, how)
    BY <2>8, SameKeepsPremise DEF Exit, board
  <2> QED
    BY <2>1, <2>3, <2>4, <2>5, <2>6, <2>7, <2>8 DEF Worker
<1>5. CASE \E t \in Tasks : Expire(t) \/ TerminalClaim(t)
  BY <1>5, FieldsKeepPremise, ClaimRejectedKeepsPremise, ClaimedKeepsPremise
     DEF Expire, TerminalClaim, Phase
<1>6. CASE UNCHANGED vars
  BY <1>6, SameKeepsPremise DEF vars, board
<1> QED
  BY <1>1, <1>2, <1>3, <1>4, <1>5, <1>6 DEF Next

(* A task that is carried out, reviewed or done stands on parents that are *)
(* done, whatever the workers and the operator do: claim_task and          *)
(* complete_task look at the parents, and a done task that is dragged back *)
(* takes everything that was built on it with it.                          *)
THEOREM Premise == Spec => []PremiseHolds
<1>1. Init => PremiseHolds
  BY DEF Init, PremiseHolds
<1> QED
  BY <1>1, InitHolds, NextKeeps, NextKeepsPremise, PTL DEF Spec

===============================================================================
