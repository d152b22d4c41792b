-------------------------- MODULE KanbanWorkersProofs --------------------------
(***************************************************************************)
(* Proofs about the workers of the Kanban board and their dispatcher, left *)
(* to themselves: nobody moves a card while they work (MaxMoves = 0).  For *)
(* any tasks, links, limits, runs and crashes, with terminals or without.  *)
(***************************************************************************)
EXTENDS KanbanProofs

USE LimitsAssumption, TasksAssumption

(* Nobody is at the dashboard, a run that was not begun has no process,    *)
(* and what is to be spawned is the current run of a running task.         *)
Quiet ==
  /\ op = OpIdle
  /\ \A r \in RunId \ DOMAIN runs : proc[r] = "none"
  /\ disp.pc = "spawn" =>
       /\ task[disp.t].status = "running" /\ task[disp.t].run = disp.pid
       /\ runs[disp.pid].task = disp.t /\ proc[disp.pid] = "none"

(* What a step does to the runs and, unless it spawns, to the processes.   *)
RunsGrow ==
  \A r \in DOMAIN runs : /\ r \in DOMAIN runs' /\ runs'[r].task = runs[r].task
                         /\ runs'[r].source = runs[r].source

Calm ==
  \A r \in RunId : /\ proc'[r] = "work" => proc[r] = "work"
                   /\ proc[r] = "none" => proc'[r] = "none"

(* A step of anybody but the operator.                                     *)
Step == \/ Dispatcher \/ DispDies \/ UNCHANGED vars
        \/ \E r \in DOMAIN runs : Worker(r)
        \/ \E t \in Tasks : Expire(t) \/ TerminalClaim(t)

LEMMA NoOperator ==
  ASSUME IInv, Quiet, MaxMoves = 0, [Next]_vars
  PROVE  Step
<1>1. op.pc = "idle" /\ ~(moves < MaxMoves)
  BY Parts DEF Quiet, OpIdle, OtherType
<1>2. ~OpMove
  BY <1>1 DEF OpMove
<1>3. ~Operator
  BY <1>1, <1>2 DEF Operator, OpComplete, OpBlock, OpUnblock, OpRequestReview, OpReopenReview,
     OpSchedule, OpArchive, OpSpecify, OpReclaimStart, OpPromote, OpDrag, OpSetStatus, OpKill,
     OpReclaim, OpClear, OpRecompute, OpDies
<1> QED
  BY <1>3 DEF Next, Step

-------------------------------------------------------------------------------
(* Runs and processes.                                                     *)

LEMMA RunsStayGrow ==
  ASSUME RunsStay
  PROVE  RunsGrow
BY DEF RunsStay, RunsGrow

LEMMA SameRunsGrow ==
  ASSUME runs' = runs
  PROVE  RunsGrow
BY DEF RunsGrow

LEMMA CloseGrows ==
  ASSUME IInv, NEW t \in Tasks, NEW row, NEW outcome \in Outcome \ {"open"},
         Close(t, row, outcome)
  PROVE  RunsGrow
BY Parts, EndedFacts, RunsStayGrow DEF Close, BoardHolds

LEMMA ClaimGrows ==
  ASSUME IInv, NEW t \in Tasks, NEW from \in Phase, NEW by \in Lock \ {0},
         Claimed(t, from, by)
  PROVE  RunsGrow
<1>1. PICK n \in Nat : n = Len(runs) + 1
  BY Parts, RunTypes
<1>2. ClaimEffect(t, from, by, n)
  BY <1>1, ClaimedStep
<1> QED
  BY <1>2 DEF ClaimEffect, RunsGrow

LEMMA LockFacts ==
  ASSUME IInv
  PROVE  Me \in Lock \ {0} /\ Lane \in Lock \ {0}
<1>1. Lane \in Lock \ {0}
  BY DEF Lock, Lane
<1>2. crashes \in 0..MaxCrashes
  BY Parts DEF OtherType
<1> QED
  BY <1>1, <1>2 DEF Me, Lock, Lane

LEMMA WorkerGrows ==
  ASSUME IInv, NEW r \in DOMAIN runs, Worker(r)
  PROVE  RunsGrow
<1> DEFINE t == runs[r].task
<1>1. t \in Tasks
  BY Parts, RunTypes
<1>2. CASE WorkerComplete(r) \/ WorkerRequestReview(r) \/ WorkerRequestChanges(r)
             \/ \E kind \in {"dependency", "input"} : WorkerBlock(r, kind)
  <2>1. \E row : \E outcome \in {"completed", "review_requested", "changes_requested", "blocked"} :
          Close(t, row, outcome)
    BY <1>2 DEF WorkerComplete, Completed, WorkerRequestReview, ReviewRequested,
       WorkerRequestChanges, WorkerBlock, Blocked
  <2> QED
    BY <1>1, <2>1, Names, CloseGrows
<1>3. CASE ~(WorkerComplete(r) \/ WorkerRequestReview(r) \/ WorkerRequestChanges(r)
               \/ \E kind \in {"dependency", "input"} : WorkerBlock(r, kind))
  BY <1>3, SameRunsGrow DEF Worker, WorkerClear, WorkerPromote, Heartbeat, Exit, board
<1> QED
  BY <1>2, <1>3

LEMMA DetectCrashedGrows ==
  ASSUME IInv, NEW S \in SUBSET Tasks, DetectCrashed(S)
  PROVE  RunsGrow
<1> DEFINE how(t) == Verdict(task[t].pid)
           closed == {task[t].run : t \in S} \ {0}
<1>1. runs' = [r \in DOMAIN runs |->
                 IF r \in closed /\ runs[r].outcome = "open"
                 THEN [runs[r] EXCEPT !.outcome = how(runs[r].task)] ELSE runs[r]]
  BY DEF DetectCrashed
<1> HIDE DEF closed, how
<1>2. ASSUME NEW r \in DOMAIN runs
      PROVE  /\ r \in DOMAIN runs' /\ runs'[r].task = runs[r].task
             /\ runs'[r].source = runs[r].source
  <2>1. runs[r] \in Run
    BY Parts, RunTypes
  <2>2. CASE runs'[r] = runs[r]
    BY <1>1, <2>2
  <2>3. CASE runs'[r] = [runs[r] EXCEPT !.outcome = how(runs[r].task)]
    BY <1>1, <2>1, <2>3 DEF Run
  <2> QED
    BY <1>1, <2>2, <2>3
<1> QED
  BY <1>2 DEF RunsGrow

LEMMA StepGrows ==
  ASSUME IInv, Step
  PROVE  RunsGrow
<1>1. disp.t \in Tasks
  BY Parts DEF OtherType, Disp
<1>2. CASE SpawnFailed \/ Reclaim \/ Timeout
  <2>1. \/ runs' = runs
        \/ \E row : \E outcome \in {"gave_up", "spawn_failed", "reclaimed", "stale", "timed_out"} :
             Close(disp.t, row, outcome)
    BY <1>2 DEF SpawnFailed, Reclaim, Timeout, board
  <2>2. \A outcome \in {"gave_up", "spawn_failed", "reclaimed", "stale", "timed_out"} :
          outcome \in Outcome \ {"open"}
    BY DEF Outcome
  <2> QED
    BY <1>1, <2>1, <2>2, CloseGrows, SameRunsGrow
<1>3. ASSUME NEW t \in Tasks, Claim(t) \/ TerminalClaim(t)
      PROVE  RunsGrow
  <2>1. CASE ClaimRejected(t)
    BY <2>1, SameRunsGrow DEF ClaimRejected
  <2>2. CASE ~ClaimRejected(t)
    <3>1. \E from \in Phase : \E by \in {Me, Lane} : Claimed(t, from, by)
      BY <1>3, <2>2 DEF Claim, TerminalClaim, Phase
    <3> QED
      BY <3>1, LockFacts, ClaimGrows
  <2> QED
    BY <2>1, <2>2
<1>4. CASE Dispatcher
  <2>1. ASSUME NEW t \in Tasks, TimeoutStart(t) \/ \E why \in {"ttl", "stale"} : ReclaimStart(t, why)
        PROVE  RunsGrow
    BY <2>1, SameRunsGrow DEF TimeoutStart, ReclaimStart, board
  <2>2. CASE Spawn \/ SetWorkerPid \/ (\E f \in disp.failed : Account(f)) \/ DispPromote
    BY <2>2, SameRunsGrow DEF Spawn, SetWorkerPid, Account, DispPromote, board
  <2> QED
    BY <1>2, <1>3, <1>4, <2>1, <2>2, DetectCrashedGrows DEF Dispatcher, DispPass, DispGoesOn
<1>5. CASE DispDies \/ UNCHANGED vars \/ \E t \in Tasks : Expire(t)
  BY <1>5, SameRunsGrow DEF DispDies, vars, board, Expire
<1> QED
  BY <1>3, <1>4, <1>5, WorkerGrows DEF Step

(* No process but a spawned one begins to work.                            *)
LEMMA ProcSame ==
  ASSUME proc' = proc
  PROVE  Calm
BY DEF Calm

LEMMA ProcOne ==
  ASSUME IInv, NEW r \in RunId, NEW p, p # "work", proc[r] # "none",
         proc' = [proc EXCEPT ![r] = p]
  PROVE  Calm
BY Parts DEF Calm, OtherType

LEMMA SignalCalm ==
  ASSUME NEW pids, Signal(pids)
  PROVE  Calm
<1>1. PICK survivors \in IF Unkillable THEN SUBSET pids ELSE {{}} :
        proc' = [r \in RunId |-> IF r \in pids \ survivors /\ proc[r] \in Alive
                                 THEN "gone" ELSE proc[r]]
  BY DEF Signal
<1> QED
  BY <1>1 DEF Calm, Alive

LEMMA WorkerCalm ==
  ASSUME IInv, NEW r \in DOMAIN runs, Worker(r)
  PROVE  Calm
<1>1. r \in RunId
  BY Parts, RunTypes
<1>2. CASE Heartbeat(r)
  BY <1>2, ProcSame DEF Heartbeat
<1>3. CASE ~Heartbeat(r)
  <2>1. \E p \in {"clear", "promote", "clean"} \cup Dead :
          proc' = [proc EXCEPT ![r] = p] /\ proc[r] \in Alive
    BY <1>3 DEF Worker, WorkerComplete, WorkerRequestReview, WorkerRequestChanges, WorkerBlock,
       WorkerClear, WorkerPromote, Exit, Alive
  <2> QED
    BY <1>1, <2>1, ProcOne DEF Alive, Dead
<1> QED
  BY <1>2, <1>3

LEMMA StepCalm ==
  ASSUME IInv, Step, ~Spawn
  PROVE  Calm
<1>1. CASE Dispatcher
  <2>1. ASSUME NEW t \in Tasks, TimeoutStart(t)
        PROVE  Calm
    BY <2>1, SignalCalm DEF TimeoutStart
  <2>2. ASSUME NEW t \in Tasks, NEW why \in {"ttl", "stale"}, ReclaimStart(t, why)
        PROVE  Calm
    BY <2>2, ProcSame DEF ReclaimStart, Calm, IsAlive, Alive
  <2>3. ASSUME NEW t \in Tasks, Claim(t)
        PROVE  Calm
    BY <2>3, ProcSame DEF Claim, ClaimRejected
  <2>4. CASE SetWorkerPid \/ SpawnFailed \/ Reclaim \/ Timeout \/ DispPromote
               \/ \E f \in disp.failed : Account(f)
    BY <2>4, ProcSame DEF SetWorkerPid, SpawnFailed, Reclaim, Timeout, DispPromote, Account
  <2>5. ASSUME NEW S \in SUBSET Tasks, DetectCrashed(S)
        PROVE  Calm
    BY <2>5, ProcSame DEF DetectCrashed
  <2> QED
    BY <1>1, <2>1, <2>2, <2>3, <2>4, <2>5 DEF Dispatcher, DispPass, DispGoesOn
<1>2. CASE DispDies
  BY <1>2 DEF DispDies, Calm, Dead
<1>3. CASE UNCHANGED vars \/ \E t \in Tasks : Expire(t) \/ TerminalClaim(t)
  BY <1>3, ProcSame DEF vars, Expire, TerminalClaim, ClaimRejected
<1> QED
  BY <1>1, <1>2, <1>3, WorkerCalm DEF Step

-------------------------------------------------------------------------------
(* The running tasks that a step leaves as they are.                       *)

Spares(t) == /\ task'[t].status = "running" /\ task'[t].run = task[t].run
             /\ task'[t].pid = task[t].pid

LEMMA SameSpares ==
  ASSUME NEW t, task[t].status = "running", task'[t] = task[t]
  PROVE  Spares(t)
BY DEF Spares

LEMMA CloseSpares ==
  ASSUME IInv, NEW u \in Tasks, NEW row, NEW outcome, Close(u, row, outcome),
         NEW t \in Tasks \ {u}, task[t].status = "running"
  PROVE  Spares(t)
BY Parts, SameSpares DEF Close, BoardType

LEMMA RecomputeSpares ==
  ASSUME IInv, NEW limit, RecomputeReady(limit), NEW t \in Tasks, task[t].status = "running"
  PROVE  Spares(t)
BY SameSpares DEF RecomputeReady, Promotable

LEMMA FieldSpares ==
  ASSUME IInv, NEW u \in Tasks, NEW x,
         task' = [task EXCEPT ![u].expired = x] \/ task' = [task EXCEPT ![u].failures = x],
         NEW t \in Tasks, task[t].status = "running"
  PROVE  Spares(t)
<1>1. task \in [Tasks -> Row]
  BY Parts DEF BoardType
<1> QED
  BY <1>1 DEF Spares, Row

(* A worker changes its own task only, and then works no longer.           *)
LEMMA WorkerSpares ==
  ASSUME IInv, NEW r \in DOMAIN runs, Worker(r), NEW t \in Tasks, task[t].status = "running",
         task[t].run # r \/ proc[r] # "work" \/ proc'[r] = "work"
  PROVE  Spares(t)
<1> DEFINE u == runs[r].task
<1>1. u \in Tasks /\ r \in RunId /\ proc \in [RunId -> Proc]
  BY Parts, RunTypes DEF OtherType
<1>2. CASE WorkerComplete(r) \/ WorkerRequestReview(r) \/ WorkerRequestChanges(r)
             \/ \E kind \in {"dependency", "input"} : WorkerBlock(r, kind)
  <2>1. /\ proc[r] = "work" /\ task[u].run = r
        /\ proc' = [proc EXCEPT ![r] = "clear"] \/ proc' = [proc EXCEPT ![r] = "clean"]
        /\ \E row, outcome : Close(u, row, outcome)
    BY <1>2 DEF WorkerComplete, Completed, WorkerRequestReview, ReviewRequested,
       WorkerRequestChanges, WorkerBlock, Blocked, Owns
  <2>2. proc'[r] # "work"
    BY <1>1, <2>1
  <2>3. t # u
    BY <2>1, <2>2
  <2> QED
    BY <1>1, <2>1, <2>3, CloseSpares
<1>3. CASE WorkerClear(r) \/ Heartbeat(r)
  BY <1>1, <1>3, FieldSpares DEF WorkerClear, ClearFailures, Heartbeat, Extended
<1>4. CASE WorkerPromote(r)
  BY <1>4, RecomputeSpares DEF WorkerPromote
<1>5. CASE \E how \in Dead : Exit(r, how)
  BY <1>5, SameSpares DEF Exit, board
<1> QED
  BY <1>2, <1>3, <1>4, <1>5 DEF Worker

(* A claim is of another task.                                             *)
LEMMA ClaimSpares ==
  ASSUME IInv, NEW u \in Tasks, Claim(u) \/ TerminalClaim(u),
         NEW t \in Tasks, task[t].status = "running"
  PROVE  Spares(t)
<1>1. task \in [Tasks -> Row] /\ (task[u].status \in Phase)
  BY Parts DEF BoardType, Claim, TerminalClaim, ClaimRejected, Claimed, Phase
<1>2. t # u
  BY <1>1 DEF Phase
<1>3. \E row : task' = [task EXCEPT ![u] = row]
  BY DEF Claim, TerminalClaim, ClaimRejected, Claimed
<1> QED
  BY <1>1, <1>2, <1>3, SameSpares

-------------------------------------------------------------------------------
(* Nobody interferes.                                                      *)

(* Only a claim leads to a spawn.                                          *)
LEMMA DispGoes ==
  ASSUME IInv, Step, disp'.pc = "spawn"
  PROVE  disp' = disp \/ \E t \in Tasks : Claim(t) /\ ~ClaimRejected(t)
<1>1. DispIdle \in Disp /\ DispIdle.pc = "idle" /\ disp \in Disp
  BY IdleTypes, Parts DEF OtherType
<1>2. CASE Dispatcher
  <2>1. ASSUME NEW t \in Tasks, Claim(t)
        PROVE  disp' = disp \/ ~ClaimRejected(t)
    BY <2>1 DEF ClaimRejected
  <2>2. ASSUME NEW t \in Tasks, TimeoutStart(t)
        PROVE  FALSE
    <3>1. disp' = [DispIdle EXCEPT !.pc = "timeout", !.t = t, !.lock = task[t].lock,
                                   !.pid = task[t].pid]
      BY <2>2 DEF TimeoutStart
    <3> QED
      BY <1>1, <3>1 DEF Disp
  <2>3. ASSUME NEW t \in Tasks, NEW why \in {"ttl", "stale"}, ReclaimStart(t, why)
        PROVE  disp' = disp
    <3>1. \/ disp' = disp
          \/ disp' = [DispIdle EXCEPT !.pc = "reclaim", !.t = t, !.why = why,
                                      !.lock = task[t].lock, !.pid = task[t].pid]
      BY <2>3 DEF ReclaimStart
    <3> QED
      BY <1>1, <3>1 DEF Disp
  <2>4. CASE SetWorkerPid \/ SpawnFailed \/ Reclaim
    BY <1>1, <2>4 DEF SetWorkerPid, SpawnFailed, Reclaim
  <2>5. CASE Spawn
    BY <1>1, <2>5 DEF Spawn, Disp
  <2>6. CASE Timeout
    BY <1>1, <2>6 DEF Timeout, Disp
  <2>7. ASSUME NEW f \in disp.failed, Account(f)
        PROVE  FALSE
    BY <1>1, <2>7 DEF Account, Disp
  <2>8. ASSUME NEW S \in SUBSET Tasks, DetectCrashed(S)
        PROVE  FALSE
    <3>1. \E failed, systemic :
            \/ disp' = DispIdle
            \/ disp' = [DispIdle EXCEPT !.pc = "account", !.failed = failed,
                                        !.systemic = systemic]
      BY <2>8 DEF DetectCrashed
    <3> QED
      BY <1>1, <3>1 DEF Disp
  <2>9. CASE DispPromote
    BY <2>9 DEF DispPromote
  <2> QED
    BY <1>2, <2>1, <2>2, <2>3, <2>4, <2>5, <2>6, <2>7, <2>8, <2>9 DEF Dispatcher, DispPass, DispGoesOn
<1>3. CASE DispDies
  BY <1>1, <1>3 DEF DispDies
<1>4. CASE ~Dispatcher /\ ~DispDies
  BY <1>4 DEF Step, vars, Worker, WorkerComplete, WorkerRequestReview, WorkerRequestChanges,
     WorkerBlock, WorkerClear, WorkerPromote, Heartbeat, Exit, WorkerStep, Expire,
     TerminalClaim, ClaimRejected
<1> QED
  BY <1>2, <1>3, <1>4

LEMMA QuietStep ==
  ASSUME IInv, Quiet, Step
  PROVE  Quiet'
<1>1. IInv'
  BY NextKeeps DEF Step, Next
<1>2. RunsGrow /\ DOMAIN runs \subseteq RunId
  BY StepGrows, Parts, RunTypes
<1>3. op' = op
  BY DEF Step, Dispatcher, DispPass, DispGoesOn, Claim, TimeoutStart, ReclaimStart, Spawn,
     SetWorkerPid, SpawnFailed, Reclaim, Timeout, Account, DetectCrashed, DispPromote,
     DispStep, DispDies, vars, Worker, WorkerComplete, WorkerRequestReview,
     WorkerRequestChanges, WorkerBlock, WorkerClear, WorkerPromote, Heartbeat, Exit,
     WorkerStep, Expire, TerminalClaim
<1>4. op' = OpIdle
  BY <1>3 DEF Quiet
<1>5. CASE Spawn
  <2>1. /\ proc' = [proc EXCEPT ![disp.pid] = "work"] /\ disp' = [disp EXCEPT !.pc = "setpid"]
        /\ disp.pc = "spawn" /\ runs' = runs
    BY <1>5 DEF Spawn, board
  <2>2. disp.pid \in DOMAIN runs /\ proc \in [RunId -> Proc] /\ disp \in Disp
    BY <2>1, Parts DEF DispAgrees, OtherType
  <2>3. disp'.pc = "setpid"
    BY <2>1, <2>2 DEF Disp
  <2>4. \A r \in RunId \ DOMAIN runs : proc'[r] = proc[r]
    BY <2>1, <2>2
  <2> QED
    BY <1>4, <2>1, <2>3, <2>4 DEF Quiet
<1>6. CASE ~Spawn
  <2>1. Calm
    BY <1>6, StepCalm
  <2>2. \A r \in RunId \ DOMAIN runs' : proc'[r] = "none"
    BY <1>2, <2>1 DEF RunsGrow, Calm, Quiet
  <2>3. ASSUME disp'.pc = "spawn"
        PROVE  /\ task'[disp'.t].status = "running" /\ task'[disp'.t].run = disp'.pid
               /\ runs'[disp'.pid].task = disp'.t /\ proc'[disp'.pid] = "none"
    <3>1. CASE disp.pc = "spawn" /\ disp' = disp
      <4> DEFINE t == disp.t
                 p == disp.pid
      <4>1. /\ t \in Tasks /\ p \in DOMAIN runs /\ p \in RunId
            /\ task[t].status = "running" /\ task[t].run = p
            /\ runs[p].task = t /\ proc[p] = "none"
        BY <1>2, <3>1, Parts DEF Quiet, DispAgrees, OtherType, Disp
      <4>2. Spares(t)
        <5>1. ASSUME NEW r \in DOMAIN runs, Worker(r)
              PROVE  Spares(t)
          <6>1. task[t].run # r \/ proc[r] # "work"
            BY <4>1
          <6> HIDE DEF t, p
          <6> QED
            BY <4>1, <5>1, <6>1, WorkerSpares
        <5>2. ASSUME NEW u \in Tasks, Claim(u) \/ TerminalClaim(u)
              PROVE  Spares(t)
          BY <4>1, <5>2, ClaimSpares
        <5>3. ASSUME NEW u \in Tasks, Expire(u)
              PROVE  Spares(t)
          BY <4>1, <5>3, FieldSpares DEF Expire
        <5>4. CASE UNCHANGED vars
          BY <4>1, <5>4, SameSpares DEF vars, board
        <5>5. ~(Dispatcher /\ ~\E u \in Tasks : Claim(u)) /\ ~DispDies
          <6>1. disp'.pc # "idle"
            BY <2>3
          <6>2. DispIdle.pc = "idle"
            BY IdleTypes
          <6> QED
            BY <1>6, <3>1, <6>1, <6>2
               DEF Dispatcher, DispPass, DispGoesOn, TimeoutStart, ReclaimStart, SetWorkerPid,
                   SpawnFailed, Reclaim, Timeout, Account, DetectCrashed, DispPromote,
                   DispIsIdle, DispDies
        <5> QED
          BY <5>1, <5>2, <5>3, <5>4, <5>5 DEF Step
      <4> QED
        BY <1>2, <2>1, <3>1, <4>1, <4>2 DEF Spares, RunsGrow, Calm
    <3>2. CASE \E t \in Tasks : Claim(t) /\ ~ClaimRejected(t)
      <4>1. PICK t \in Tasks, from \in Phase :
              /\ Claimed(t, from, Me)
              /\ disp' = [DispIdle EXCEPT !.pc = "spawn", !.t = t, !.pid = Len(runs) + 1]
              /\ proc' = proc
        BY <3>2 DEF Claim
      <4>2. PICK n \in Nat : n = Len(runs) + 1
        BY Parts, RunTypes
      <4>3. ClaimEffect(t, from, Me, n)
        BY <4>1, <4>2, LockFacts, ClaimedStep
      <4>4. disp'.t = t /\ disp'.pid = n
        BY <4>1, <4>2, IdleTypes DEF Disp
      <4>5. task'[t].status = "running" /\ task'[t].run = n
        BY <4>3, Parts, RunTypes DEF ClaimEffect, BoardType, Row
      <4>6. runs'[n].task = t /\ n \in RunId \ DOMAIN runs
        BY <4>3 DEF ClaimEffect
      <4> QED
        BY <4>1, <4>4, <4>5, <4>6 DEF Quiet
    <3> QED
      BY <2>3, <3>1, <3>2, DispGoes
  <2> QED
    BY <1>4, <2>2, <2>3 DEF Quiet
<1> QED
  BY <1>5, <1>6

-------------------------------------------------------------------------------
(* One worker for each task.                                               *)

Works(r, t) == r \in DOMAIN runs /\ proc[r] = "work" /\ runs[r].task = t

(* Whoever works has the current run of a running task, whose row shows    *)
(* its pid or is about to; nobody works on a task whose claim is being     *)
(* released, or whose failure is still to be counted.                      *)
WorkersHold ==
  /\ \A r \in DOMAIN runs : proc[r] = "work" =>
       LET t == runs[r].task IN
       /\ task[t].run = r /\ task[t].status = "running"
       /\ \/ task[t].pid = r
          \/ disp.pc = "setpid" /\ disp.t = t /\ disp.pid = r
  /\ disp.pc = "setpid" => \A r \in DOMAIN runs : Works(r, disp.t) => r = disp.pid
  /\ disp.pc \in {"reclaim", "timeout"} => \A r \in DOMAIN runs : ~Works(r, disp.t)
  /\ \A f \in disp.failed : \A r \in DOMAIN runs : ~Works(r, f.t)

LEMMA WorkersOne ==
  ASSUME WorkersHold
  PROVE  OneWorker
BY DEF WorkersHold, OneWorker

(* A step that neither begins nor ends a spawn.                            *)
LEMMA WorkersStep ==
  ASSUME IInv, Quiet, WorkersHold, RunsGrow, Calm, DOMAIN runs' \subseteq RunId,
         \A r \in DOMAIN runs : proc[r] = "work" /\ proc'[r] = "work" => Spares(runs[r].task),
         \/ disp' = disp
         \/ /\ disp.pc # "setpid" /\ disp'.pc # "setpid"
            /\ disp'.pc \in {"reclaim", "timeout"} =>
                 \A r \in DOMAIN runs : Works(r, disp'.t) => proc'[r] # "work"
            /\ \A f \in disp'.failed :
                 \A r \in DOMAIN runs : Works(r, f.t) => proc'[r] # "work"
  PROVE  WorkersHold'
<1>1. ASSUME NEW r \in DOMAIN runs', proc'[r] = "work"
      PROVE  /\ r \in DOMAIN runs /\ proc[r] = "work" /\ runs'[r].task = runs[r].task
             /\ Spares(runs[r].task)
  <2>1. r \in DOMAIN runs /\ proc[r] = "work"
    BY <1>1 DEF Calm, Quiet
  <2> QED
    BY <1>1, <2>1 DEF RunsGrow
<1>2. ASSUME NEW r \in DOMAIN runs', proc'[r] = "work"
      PROVE  LET t == runs'[r].task IN
             /\ task'[t].run = r /\ task'[t].status = "running"
             /\ \/ task'[t].pid = r
                \/ disp'.pc = "setpid" /\ disp'.t = t /\ disp'.pid = r
  <2> DEFINE t == runs[r].task
  <2>1. /\ r \in DOMAIN runs /\ proc[r] = "work" /\ runs'[r].task = t /\ Spares(t)
    BY <1>1, <1>2
  <2>2. /\ task[t].run = r
        /\ \/ task[t].pid = r
           \/ disp.pc = "setpid" /\ disp.t = t /\ disp.pid = r
    BY <2>1 DEF WorkersHold
  <2> QED
    BY <2>1, <2>2 DEF Spares
<1>3. ASSUME disp'.pc = "setpid", NEW r \in DOMAIN runs', proc'[r] = "work",
             runs'[r].task = disp'.t
      PROVE  r = disp'.pid
  BY <1>1, <1>3 DEF WorkersHold, Works
<1>4. ASSUME disp'.pc \in {"reclaim", "timeout"}, NEW r \in DOMAIN runs', proc'[r] = "work",
             runs'[r].task = disp'.t
      PROVE  FALSE
  BY <1>1, <1>4 DEF WorkersHold, Works
<1>5. ASSUME NEW f \in disp'.failed, NEW r \in DOMAIN runs', proc'[r] = "work",
             runs'[r].task = f.t
      PROVE  FALSE
  BY <1>1, <1>5 DEF WorkersHold, Works
<1> QED
  BY <1>2, <1>3, <1>4, <1>5 DEF WorkersHold, Works

LEMMA WorkFacts ==
  ASSUME IInv, WorkersHold, disp.pc # "setpid", NEW r \in DOMAIN runs, proc[r] = "work"
  PROVE  LET t == runs[r].task IN
         /\ t \in Tasks /\ r \in RunId /\ r # 0 /\ IsAlive(r)
         /\ task[t].status = "running" /\ task[t].run = r /\ task[t].pid = r
<1>1. runs[r].task \in Tasks /\ r \in RunId /\ r # 0
  BY Parts, RunTypes
<1> QED
  BY <1>1 DEF WorkersHold, IsAlive, Alive

LEMMA OthersStep ==
  ASSUME IInv, Quiet, WorkersHold, Step, ~Spawn,
         \A r \in DOMAIN runs : proc[r] = "work" /\ proc'[r] = "work" => Spares(runs[r].task),
         \/ disp' = disp
         \/ disp.pc # "setpid" /\ disp' = DispIdle
         \/ /\ disp.pc # "setpid" /\ disp'.pc # "setpid"
            /\ disp'.pc \in {"reclaim", "timeout"} =>
                 \A r \in DOMAIN runs : Works(r, disp'.t) => proc'[r] # "work"
            /\ \A f \in disp'.failed :
                 \A r \in DOMAIN runs : Works(r, f.t) => proc'[r] # "work"
  PROVE  WorkersHold'
<1>1. BoardType'
  BY Parts, NextKeeps DEF Step, Next, IInv, TypeOK, BoardType
<1>2. DOMAIN runs' \subseteq RunId
  <2>1. DOMAIN runs' = 1..Len(runs') /\ Len(runs') \in Nat /\ Len(runs') <= MaxRuns
    BY <1>1 DEF BoardType
  <2> QED
    BY <2>1 DEF RunId
<1>3. RunsGrow /\ Calm
  BY StepGrows, StepCalm
<1>4. CASE disp' = disp
  BY <1>2, <1>3, <1>4, WorkersStep
<1>5. CASE disp.pc # "setpid" /\ disp' = DispIdle
  BY <1>2, <1>3, <1>5, IdleTypes, WorkersStep
<1> QED
  BY <1>2, <1>3, <1>4, <1>5, WorkersStep

(* The worker that is started is the only one of its task.                 *)
LEMMA SpawnHolds ==
  ASSUME IInv, Quiet, WorkersHold, Spawn
  PROVE  WorkersHold'
<1> DEFINE t == disp.t
           p == disp.pid
<1>1. /\ disp.pc = "spawn" /\ proc' = [proc EXCEPT ![p] = "work"]
      /\ disp' = [disp EXCEPT !.pc = "setpid"] /\ task' = task /\ runs' = runs
  BY DEF Spawn, board
<1>2. /\ proc \in [RunId -> Proc] /\ disp \in Disp /\ disp.failed = {}
      /\ t \in Tasks /\ p \in DOMAIN runs /\ DOMAIN runs \subseteq RunId
  BY <1>1, Parts, RunTypes DEF DispAgrees, OtherType, Disp
<1>3. task[t].status = "running" /\ task[t].run = p /\ runs[p].task = t /\ proc[p] = "none"
  BY <1>1 DEF Quiet
<1>4. disp'.pc = "setpid" /\ disp'.t = t /\ disp'.pid = p /\ disp'.failed = {}
  BY <1>1, <1>2 DEF Disp
<1> HIDE DEF t, p
<1>5. ASSUME NEW r \in DOMAIN runs, proc'[r] = "work", r # p
      PROVE  /\ proc[r] = "work" /\ runs[r].task # t
             /\ task[runs[r].task].run = r /\ task[runs[r].task].status = "running"
             /\ task[runs[r].task].pid = r
  <2>1. proc[r] = "work"
    BY <1>1, <1>2, <1>5
  <2> QED
    BY <1>1, <1>3, <1>5, <2>1, WorkFacts
<1>6. ASSUME NEW r \in DOMAIN runs', proc'[r] = "work"
      PROVE  LET u == runs'[r].task IN
             /\ task'[u].run = r /\ task'[u].status = "running"
             /\ \/ task'[u].pid = r
                \/ disp'.pc = "setpid" /\ disp'.t = u /\ disp'.pid = r
  BY <1>1, <1>3, <1>4, <1>5, <1>6
<1>7. ASSUME NEW r \in DOMAIN runs', proc'[r] = "work", runs'[r].task = disp'.t
      PROVE  r = disp'.pid
  BY <1>1, <1>4, <1>5, <1>7
<1> QED
  BY <1>4, <1>6, <1>7 DEF WorkersHold, Works

(* Its pid is that of the worker of the task, if any works on it.          *)
LEMMA SetWorkerPidHolds ==
  ASSUME IInv, Quiet, WorkersHold, SetWorkerPid
  PROVE  WorkersHold'
<1> DEFINE t == disp.t
           p == disp.pid
<1>1. /\ disp.pc = "setpid" /\ task' = [task EXCEPT ![t].pid = p]
      /\ disp' = DispIdle /\ runs' = runs /\ proc' = proc
  BY DEF SetWorkerPid
<1>2. task \in [Tasks -> Row] /\ t \in Tasks /\ \A u \in Tasks : task[u] \in Row
  BY Parts, RunTypes DEF BoardType, OtherType, Disp
<1>3. /\ \A u \in Tasks : task'[u].run = task[u].run /\ task'[u].status = task[u].status
      /\ \A u \in Tasks \ {t} : task'[u].pid = task[u].pid
      /\ task'[t].pid = p
  BY <1>1, <1>2 DEF Row
<1> HIDE DEF t, p
<1>4. ASSUME NEW r \in DOMAIN runs', proc'[r] = "work"
      PROVE  LET u == runs'[r].task IN
             task'[u].run = r /\ task'[u].status = "running" /\ task'[u].pid = r
  <2> DEFINE u == runs[r].task
  <2>1. u \in Tasks
    BY <1>1, Parts, RunTypes
  <2>2. /\ task[u].run = r /\ task[u].status = "running"
        /\ task[u].pid = r \/ (t = u /\ p = r)
        /\ u = t => r = p
    BY <1>1, <1>4 DEF WorkersHold, Works, t, p
  <2> QED
    BY <1>1, <1>3, <2>1, <2>2
<1>5. disp'.pc = "idle" /\ disp'.failed = {}
  BY <1>1, IdleTypes
<1> QED
  BY <1>4, <1>5 DEF WorkersHold

LEMMA SpawnFailedHolds ==
  ASSUME IInv, Quiet, WorkersHold, Step, SpawnFailed
  PROVE  WorkersHold'
<1>1. /\ disp.pc = "spawn" /\ disp' = DispIdle /\ proc' = proc
      /\ \E row, outcome : Close(disp.t, row, outcome)
  BY DEF SpawnFailed
<1>2. disp.t \in Tasks /\ ~Spawn
  <2>1. DispIdle.pc = "idle" /\ disp \in Disp
    BY IdleTypes, Parts DEF OtherType
  <2> QED
    BY <1>1, <2>1 DEF Disp, Spawn
<1>3. ASSUME NEW r \in DOMAIN runs, proc[r] = "work"
      PROVE  Spares(runs[r].task)
  <2>1. runs[r].task \in Tasks /\ task[runs[r].task].status = "running"
        /\ task[runs[r].task].run = r
    BY <1>1, <1>3, WorkFacts
  <2>2. runs[r].task # disp.t
    BY <1>1, <1>3, <2>1 DEF Quiet
  <2> QED
    BY <1>1, <1>2, <2>1, <2>2, CloseSpares
<1> QED
  BY <1>1, <1>2, <1>3, OthersStep

(* Whoever has the claim that is to be released has been killed.           *)
LEMMA ReclaimStartHolds ==
  ASSUME IInv, Quiet, WorkersHold, Step, NEW t \in Tasks, NEW why \in {"ttl", "stale"},
         ReclaimStart(t, why)
  PROVE  WorkersHold'
<1>1. disp.pc = "idle" /\ ~Spawn
  BY DEF ReclaimStart, DispIsIdle, Spawn
<1>2. CASE Extended(t) /\ UNCHANGED disp
  <2>1. ASSUME NEW r \in DOMAIN runs, proc[r] = "work"
        PROVE  Spares(runs[r].task)
    BY <1>1, <1>2, <2>1, WorkFacts, FieldSpares DEF Extended
  <2> QED
    BY <1>1, <1>2, <2>1, OthersStep
<1>3. CASE ~(Extended(t) /\ UNCHANGED disp)
  <2> DEFINE pid == task[t].pid
  <2>1. /\ proc' = [r \in RunId |-> IF r = pid /\ IsAlive(pid) THEN "gone" ELSE proc[r]]
        /\ disp' = [DispIdle EXCEPT !.pc = "reclaim", !.t = t, !.why = why,
                                    !.lock = task[t].lock, !.pid = pid]
        /\ task' = task
    BY <1>3 DEF ReclaimStart, board
  <2>2. /\ disp'.pc = "reclaim" /\ disp'.t = t /\ disp'.failed = {}
    BY <2>1, IdleTypes DEF Disp
  <2>3. ASSUME NEW r \in DOMAIN runs, proc[r] = "work"
        PROVE  /\ Spares(runs[r].task)
               /\ runs[r].task = t => proc'[r] # "work"
    <3>1. LET u == runs[r].task IN
          /\ u \in Tasks /\ r \in RunId /\ r # 0 /\ IsAlive(r)
          /\ task[u].status = "running" /\ task[u].run = r /\ task[u].pid = r
      BY <1>1, <2>3, WorkFacts
    <3> QED
      BY <2>1, <3>1, SameSpares
  <2> QED
    BY <1>1, <2>2, <2>3, OthersStep DEF Works
<1> QED
  BY <1>2, <1>3

LEMMA TimeoutStartHolds ==
  ASSUME IInv, Quiet, WorkersHold, Step, ~(Runtime /\ Unkillable), NEW t \in Tasks,
         TimeoutStart(t)
  PROVE  WorkersHold'
<1> DEFINE pid == task[t].pid
<1>1. /\ disp.pc = "idle" /\ ~Spawn /\ ~Unkillable /\ Signal({pid}) /\ task' = task
      /\ disp' = [DispIdle EXCEPT !.pc = "timeout", !.t = t, !.lock = task[t].lock, !.pid = pid]
  BY DEF TimeoutStart, DispIsIdle, Spawn, board
<1>2. proc' = [r \in RunId |-> IF r \in {pid} \ {} /\ proc[r] \in Alive
                                THEN "gone" ELSE proc[r]]
  BY <1>1 DEF Signal
<1>3. /\ disp'.pc = "timeout" /\ disp'.t = t /\ disp'.failed = {}
  BY <1>1, IdleTypes DEF Disp
<1>4. ASSUME NEW r \in DOMAIN runs, proc[r] = "work"
      PROVE  /\ Spares(runs[r].task)
             /\ runs[r].task = t => proc'[r] # "work"
  <2>1. LET u == runs[r].task IN
        /\ u \in Tasks /\ r \in RunId /\ r # 0 /\ IsAlive(r)
        /\ task[u].status = "running" /\ task[u].run = r /\ task[u].pid = r
    BY <1>1, <1>4, WorkFacts
  <2> QED
    BY <1>1, <1>2, <2>1, SameSpares DEF Alive
<1> QED
  BY <1>1, <1>3, <1>4, OthersStep DEF Works

LEMMA GoneOnHolds ==
  ASSUME IInv, Quiet, WorkersHold, Step, Reclaim \/ Timeout
  PROVE  WorkersHold'
<1> DEFINE t == disp.t
<1>1. /\ disp.pc \in {"reclaim", "timeout"} /\ t \in Tasks /\ ~Spawn /\ proc' = proc
      /\ UNCHANGED board \/ \E row, outcome : Close(t, row, outcome)
      /\ \/ disp' = DispIdle
         \/ disp' = [DispIdle EXCEPT !.pc = "account",
                                     !.failed = {[t |-> t, violation |-> FALSE]}]
  BY Parts DEF Reclaim, Timeout, Spawn, OtherType, Disp
<1> HIDE DEF t
<1>2. ASSUME NEW r \in DOMAIN runs, proc[r] = "work"
      PROVE  Spares(runs[r].task) /\ runs[r].task # t
  <2>1. runs[r].task \in Tasks /\ task[runs[r].task].status = "running"
    BY <1>1, <1>2, WorkFacts
  <2>2. runs[r].task # t
    BY <1>1, <1>2 DEF WorkersHold, Works, t
  <2> QED
    BY <1>1, <2>1, <2>2, CloseSpares, SameSpares DEF board
<1>3. CASE disp' = DispIdle
  BY <1>1, <1>2, <1>3, OthersStep
<1>4. CASE disp' = [DispIdle EXCEPT !.pc = "account",
                                    !.failed = {[t |-> t, violation |-> FALSE]}]
  <2>1. disp'.pc = "account" /\ \A f \in disp'.failed : f.t = t
    BY <1>4, IdleTypes DEF Disp
  <2> QED
    BY <1>1, <1>2, <2>1, OthersStep DEF Works
<1> QED
  BY <1>1, <1>3, <1>4

(* A worker whose pid its task shows is no crashed one.                    *)
LEMMA DetectCrashedHolds ==
  ASSUME IInv, Quiet, WorkersHold, Step, NEW S \in SUBSET Tasks, DetectCrashed(S)
  PROVE  WorkersHold'
<1> DEFINE how(t) == Verdict(task[t].pid)
<1>1. /\ disp.pc = "idle" /\ ~Spawn /\ \A t \in S : ~IsAlive(task[t].pid)
      /\ task' = [t \in Tasks |-> IF t \in S THEN Without(CrashedRow(t), how(t)) ELSE task[t]]
  BY DEF DetectCrashed, HasCrashed, DispIsIdle, Spawn
<1>2. \/ disp' = DispIdle
      \/ /\ disp'.pc = "account"
         /\ \A f \in disp'.failed : f.t \in S
  <2> DEFINE failed == {[t |-> t, violation |-> how(t) = "violation"] :
                          t \in {u \in S : how(u) # "rate_limited"}}
  <2>1. \/ disp' = DispIdle
        \/ \E systemic : disp' = [DispIdle EXCEPT !.pc = "account", !.failed = failed,
                                                  !.systemic = systemic]
    BY DEF DetectCrashed
  <2>2. \A f \in failed : f.t \in S
    OBVIOUS
  <2> HIDE DEF failed
  <2> QED
    BY <2>1, <2>2, IdleTypes DEF Disp
<1> HIDE DEF how
<1>3. ASSUME NEW r \in DOMAIN runs, proc[r] = "work"
      PROVE  Spares(runs[r].task) /\ runs[r].task \notin S
  <2>1. LET u == runs[r].task IN
        /\ u \in Tasks /\ IsAlive(r)
        /\ task[u].status = "running" /\ task[u].pid = r
    BY <1>1, <1>3, WorkFacts
  <2> QED
    BY <1>1, <2>1, SameSpares
<1> QED
  BY <1>1, <1>2, <1>3, OthersStep DEF Works

LEMMA AccountHolds ==
  ASSUME IInv, Quiet, WorkersHold, Step, NEW f \in disp.failed, Account(f)
  PROVE  WorkersHold'
<1>1. /\ disp.pc = "account" /\ ~Spawn /\ f.t \in Tasks /\ proc' = proc
      /\ \E row : task' = [task EXCEPT ![f.t] = row]
      /\ disp' = DispIdle \/ disp' = [disp EXCEPT !.failed = @ \ {f}]
  BY Parts DEF Account, Spawn, OtherType, Disp
<1>2. ASSUME NEW r \in DOMAIN runs, proc[r] = "work"
      PROVE  Spares(runs[r].task)
  <2>1. runs[r].task \in Tasks /\ task[runs[r].task].status = "running"
    BY <1>1, <1>2, WorkFacts
  <2>2. runs[r].task # f.t
    BY <1>2 DEF WorkersHold, Works
  <2>3. task \in [Tasks -> Row]
    BY Parts DEF BoardType
  <2> QED
    BY <1>1, <2>1, <2>2, <2>3, SameSpares
<1>3. CASE disp' = DispIdle
  BY <1>1, <1>2, <1>3, OthersStep
<1>4. CASE disp' = [disp EXCEPT !.failed = @ \ {f}]
  <2>1. disp \in Disp
    BY Parts DEF OtherType
  <2>2. disp'.pc = "account" /\ disp'.failed \subseteq disp.failed
    BY <1>1, <1>4, <2>1 DEF Disp
  <2>3. \A g \in disp'.failed : \A r \in DOMAIN runs : ~Works(r, g.t)
    BY <2>2 DEF WorkersHold
  <2> QED
    BY <1>1, <1>2, <2>2, <2>3, OthersStep
<1> QED
  BY <1>1, <1>3, <1>4

LEMMA WorkersKept ==
  ASSUME IInv, Quiet, WorkersHold, Step, ~Torn, ~(Runtime /\ Unkillable)
  PROVE  WorkersHold'
<1>1. \A r \in DOMAIN runs :
        /\ runs[r].task \in Tasks
        /\ proc[r] = "work" => /\ task[runs[r].task].status = "running"
                               /\ task[runs[r].task].run = r
  BY Parts, RunTypes DEF WorkersHold
<1>2. ASSUME NEW t \in Tasks, Claim(t) \/ TerminalClaim(t)
      PROVE  WorkersHold'
  <2>1. \A r \in DOMAIN runs : proc[r] = "work" => Spares(runs[r].task)
    BY <1>1, <1>2, ClaimSpares
  <2>2. ~Spawn \/ proc' = proc
    BY <1>2 DEF Claim, TerminalClaim, ClaimRejected
  <2>3. \/ disp' = disp
        \/ disp.pc # "setpid" /\ disp'.pc = "spawn" /\ disp'.failed = {}
    <3>1. \/ disp' = disp
          \/ /\ disp.pc = "idle"
             /\ disp' = [DispIdle EXCEPT !.pc = "spawn", !.t = t, !.pid = Len(runs) + 1]
      BY <1>2 DEF Claim, TerminalClaim, ClaimRejected, DispIsIdle
    <3> QED
      BY <3>1, IdleTypes DEF Disp
  <2>4. ~Spawn
    <3>1. CASE Spawn
      <4>1. disp.pc = "spawn" /\ disp'.pc = "setpid"
        BY <3>1, Parts DEF Spawn, OtherType, Disp
      <4> QED
        BY <2>3, <4>1
    <3> QED
      BY <3>1
  <2> QED
    BY <2>1, <2>3, <2>4, OthersStep
<1>3. CASE DispPromote
  <2>1. /\ RecomputeReady(FailureLimit) /\ disp' = disp /\ disp.pc = "idle" /\ ~Spawn
    BY <1>3 DEF DispPromote, DispIsIdle, Spawn
  <2> QED
    BY <1>1, <2>1, RecomputeSpares, OthersStep
<1>4. CASE DispDies
  <2>1. /\ disp.pc # "setpid" /\ disp' = DispIdle /\ task' = task
    BY <1>4 DEF DispDies, board
  <2>2. ~Spawn
    <3>1. CASE Spawn
      <4>1. disp'.pc = "setpid"
        BY <3>1, Parts DEF Spawn, OtherType, Disp
      <4> QED
        BY <2>1, <4>1, IdleTypes
    <3> QED
      BY <3>1
  <2> QED
    BY <1>1, <2>1, <2>2, SameSpares, OthersStep
<1>5. ASSUME NEW r \in DOMAIN runs, Worker(r)
      PROVE  WorkersHold'
  <2>1. disp' = disp
    BY <1>5 DEF Worker, WorkerComplete, WorkerRequestReview, WorkerRequestChanges, WorkerBlock,
       WorkerClear, WorkerPromote, Heartbeat, Exit, WorkerStep
  <2>2. ~Spawn
    <3>1. CASE Spawn
      <4>1. disp.pc = "spawn" /\ disp'.pc = "setpid"
        BY <3>1, Parts DEF Spawn, OtherType, Disp
      <4> QED
        BY <2>1, <4>1
    <3> QED
      BY <3>1
  <2>3. ASSUME NEW s \in DOMAIN runs, proc[s] = "work", proc'[s] = "work"
        PROVE  Spares(runs[s].task)
    BY <1>1, <1>5, <2>3, WorkerSpares
  <2> QED
    BY <2>1, <2>2, <2>3, OthersStep
<1>6. ASSUME UNCHANGED vars \/ \E t \in Tasks : Expire(t)
      PROVE  WorkersHold'
  <2>1. disp' = disp /\ proc' = proc
    BY <1>6 DEF vars, Expire, WorkerStep
  <2>2. ~Spawn
    <3>1. CASE Spawn
      <4>1. disp.pc = "spawn" /\ disp'.pc = "setpid"
        BY <3>1, Parts DEF Spawn, OtherType, Disp
      <4> QED
        BY <2>1, <4>1
    <3> QED
      BY <3>1
  <2>3. ASSUME NEW s \in DOMAIN runs, proc[s] = "work"
        PROVE  Spares(runs[s].task)
    BY <1>1, <1>6, <2>3, FieldSpares, SameSpares DEF vars, board, Expire
  <2> QED
    BY <2>1, <2>2, <2>3, OthersStep
<1> QED
  BY <1>2, <1>3, <1>4, <1>5, <1>6, SpawnHolds, SetWorkerPidHolds, SpawnFailedHolds,
     ReclaimStartHolds, TimeoutStartHolds, GoneOnHolds, DetectCrashedHolds, AccountHolds
     DEF Step, Dispatcher, DispPass, DispGoesOn

(* No two workers work on a task at the same time, as long as the pid of a *)
(* worker reaches the board before its dispatcher can die, and a worker    *)
(* whose time is up does not survive its SIGKILL: enforce_max_runtime      *)
(* releases the claim of one that does.                                    *)
THEOREM WorkAlone ==
  ASSUME MaxMoves = 0, ~Torn, ~(Runtime /\ Unkillable)
  PROVE  Spec => []OneWorker
<1>1. Init => Quiet /\ WorkersHold
  BY IdleTypes DEF Init, Quiet, WorkersHold, Works, RunId
<1>2. IInv /\ Quiet /\ WorkersHold /\ [Next]_vars => Quiet' /\ WorkersHold'
  BY NoOperator, QuietStep, WorkersKept
<1>3. WorkersHold => OneWorker
  BY WorkersOne
<1> QED
  BY <1>1, <1>2, <1>3, InitHolds, NextKeeps, PTL DEF Spec

-------------------------------------------------------------------------------
(* The phase of a task.                                                    *)

(* Ready, in review or running, a task is in the phase it was last sent    *)
(* to; waiting, it is to resume there; and nothing of an earlier review is *)
(* left in one that was sent back.                                         *)
PhaseAt(t) ==
  /\ task[t].status \in Phase => task[t].status = asked[t]
  /\ task[t].status = "running" => runs[task[t].run].source = asked[t]
  /\ task[t].status = "todo" \/ (task[t].status = "blocked" /\ ~task[t].sticky)
       => task[t].resume = asked[t]
  /\ asked[t] = "ready" /\ task[t].status # "done" => task[t].resume = "ready"

(* A reviewer's failure finds its task in review, and each is counted once. *)
FailuresHold ==
  /\ \A f \in disp.failed : asked[f.t] = "review" => task[f.t].status = "review"
  /\ \A f, g \in disp.failed : f.t = g.t => f = g

PhaseInv == (\A t \in Tasks : PhaseAt(t)) /\ FailuresHold

LEMMA PhaseTypes ==
  ASSUME IInv, NEW t \in Tasks
  PROVE  asked[t] \in {"ready", "review"} /\ asked \in [Tasks -> Phase]
BY Parts DEF OtherType, Phase

(* An interrupted run goes back to the phase its task was last sent to.    *)
LEMMA RetryAsked ==
  ASSUME IInv, PhaseInv, NEW t \in Tasks, task[t].status = "running"
  PROVE  RetryStatus(t) = asked[t]
<1>1. task[t].run # 0
  BY Parts DEF BoardHolds, PointersHold
<1> QED
  BY <1>1 DEF PhaseInv, PhaseAt, RetryStatus

LEMMA PhaseSame ==
  ASSUME IInv, RunsGrow, NEW t \in Tasks, PhaseAt(t), asked'[t] = asked[t],
         task'[t].status = task[t].status, task'[t].run = task[t].run,
         task'[t].sticky = task[t].sticky, task'[t].resume = task[t].resume
  PROVE  PhaseAt(t)'
<1>1. task[t].status = "running" => task[t].run \in DOMAIN runs
  BY Parts DEF BoardHolds, PointersHold
<1> QED
  BY <1>1 DEF PhaseAt, RunsGrow

LEMMA FieldsPhase ==
  ASSUME IInv, PhaseInv, RunsGrow, asked' = asked, disp'.failed \subseteq disp.failed,
         \A t \in Tasks :
           /\ task'[t].status = task[t].status /\ task'[t].run = task[t].run
           /\ task'[t].sticky = task[t].sticky /\ task'[t].resume = task[t].resume
  PROVE  PhaseInv'
<1>1. \A t \in Tasks : PhaseAt(t)'
  BY PhaseSame DEF PhaseInv
<1>2. \A f \in disp'.failed : f \in disp.failed /\ f.t \in Tasks
  BY Parts DEF OtherType, Disp
<1>3. FailuresHold'
  BY <1>2 DEF PhaseInv, FailuresHold
<1> QED
  BY <1>1, <1>3 DEF PhaseInv

(* One task is moved.                                                      *)
LEMMA OnePhase ==
  ASSUME IInv, PhaseInv, RunsGrow, NEW t \in Tasks, PhaseAt(t)',
         \A u \in Tasks \ {t} : task'[u] = task[u] /\ asked'[u] = asked[u],
         disp'.failed \subseteq disp.failed \/ \E f : f.t = t /\ disp'.failed = {f},
         \A f \in disp'.failed : f.t = t /\ asked'[t] = "review" => task'[t].status = "review"
  PROVE  PhaseInv'
<1>1. \A u \in Tasks \ {t} : PhaseAt(u)'
  BY PhaseSame DEF PhaseInv
<1>2. ASSUME NEW f \in disp'.failed, asked'[f.t] = "review"
      PROVE  task'[f.t].status = "review"
  <2>1. CASE f.t = t
    BY <1>2, <2>1
  <2>2. CASE f.t # t
    <3>1. f \in disp.failed /\ f.t \in Tasks
      BY <2>2, Parts DEF OtherType, Disp
    <3> QED
      BY <1>2, <2>2, <3>1 DEF PhaseInv, FailuresHold
  <2> QED
    BY <2>1, <2>2
<1>3. ASSUME NEW f \in disp'.failed, NEW g \in disp'.failed, f.t = g.t
      PROVE  f = g
  BY <1>3 DEF PhaseInv, FailuresHold
<1> QED
  BY <1>1, <1>2, <1>3 DEF PhaseInv, FailuresHold

(* A run has ended, and its task has come to rest.                         *)
LEMMA ClosePhase ==
  ASSUME IInv, PhaseInv, NEW t \in Tasks, NEW row \in Row, NEW outcome \in Outcome \ {"open"},
         Close(t, row, outcome), row.status # "running",
         row.status \in Phase => row.status = asked'[t],
         row.status = "todo" \/ (row.status = "blocked" /\ ~row.sticky) => row.resume = asked'[t],
         asked'[t] = "ready" /\ row.status # "done" => row.resume = "ready",
         \A u \in Tasks \ {t} : asked'[u] = asked[u],
         disp'.failed \subseteq disp.failed \/ \E f : f.t = t /\ disp'.failed = {f},
         \A f \in disp'.failed : f.t = t /\ asked'[t] = "review" => row.status = "review"
  PROVE  PhaseInv'
<1>1. task' = [task EXCEPT ![t] = Without(row, outcome)] /\ task \in [Tasks -> Row]
  BY Parts DEF Close, BoardType
<1>2. /\ task'[t] = Without(row, outcome)
      /\ \A u \in Tasks \ {t} : task'[u] = task[u]
  BY <1>1
<1>3. /\ task'[t].status = row.status /\ task'[t].resume = row.resume
      /\ task'[t].sticky = row.sticky
  BY <1>2, WithoutFacts
<1>4. PhaseAt(t)'
  BY <1>3 DEF PhaseAt
<1>5. RunsGrow
  BY CloseGrows
<1> QED
  BY <1>2, <1>3, <1>4, <1>5, OnePhase

(* Only an implementer's task is ever refused: a reviewer's stands on      *)
(* parents that are done.                                                  *)
LEMMA ClaimRejectedPhase ==
  ASSUME IInv, PremiseHolds, PhaseInv, NEW t \in Tasks, ClaimRejected(t)
  PROVE  PhaseInv'
<1>1. task[t].status = "ready"
  BY DEF ClaimRejected, Phase, PremiseHolds
<1>2. /\ task' = [task EXCEPT ![t] = [@ EXCEPT !.status = "todo"]]
      /\ UNCHANGED <<runs, disp, asked>>
  BY <1>1 DEF ClaimRejected, hist
<1>3. task \in [Tasks -> Row] /\ task[t] \in Row
  BY Parts DEF BoardType
<1>4. /\ task'[t].status = "todo" /\ task'[t].resume = task[t].resume
      /\ \A u \in Tasks \ {t} : task'[u] = task[u]
  BY <1>2, <1>3 DEF Row
<1>5. asked[t] = "ready" /\ task[t].resume = "ready"
  BY <1>1 DEF PhaseInv, PhaseAt, Phase
<1>6. PhaseAt(t)'
  BY <1>2, <1>4, <1>5 DEF PhaseAt, Phase
<1> QED
  BY <1>2, <1>4, <1>5, <1>6, SameRunsGrow, OnePhase

LEMMA ClaimedPhase ==
  ASSUME IInv, PhaseInv, NEW t \in Tasks, NEW from \in Phase, NEW by \in Lock \ {0},
         Claimed(t, from, by), asked' = asked,
         disp'.failed = {} \/ (from = "ready" /\ disp' = disp)
  PROVE  PhaseInv'
<1>1. PICK n \in Nat : n = Len(runs) + 1
  BY Parts, RunTypes
<1>2. ClaimEffect(t, from, by, n)
  BY <1>1, ClaimedStep
<1>3. task \in [Tasks -> Row] /\ task[t] \in Row /\ n \in RunId
  BY <1>2, Parts DEF BoardType, ClaimEffect
<1>4. /\ task'[t].status = "running" /\ task'[t].run = n /\ task'[t].resume = task[t].resume
      /\ \A u \in Tasks \ {t} : task'[u] = task[u]
  BY <1>2, <1>3 DEF ClaimEffect, Row
<1>5. runs'[n].source = from
  BY <1>2 DEF ClaimEffect
<1>6. from = asked[t] /\ (asked[t] = "ready" => task[t].resume = "ready")
  BY DEF Claimed, PhaseInv, PhaseAt, Phase
<1>7. PhaseAt(t)'
  BY <1>4, <1>5, <1>6 DEF PhaseAt, Phase
<1>8. RunsGrow
  BY ClaimGrows
<1>9. /\ disp'.failed \subseteq disp.failed
      /\ \A f \in disp'.failed : asked'[t] # "review"
  BY <1>6
<1> QED
  BY <1>4, <1>7, <1>8, <1>9, OnePhase

LEMMA ClaimPhase ==
  ASSUME IInv, PremiseHolds, PhaseInv, NEW t \in Tasks, Claim(t) \/ TerminalClaim(t)
  PROVE  PhaseInv'
<1>1. CASE ClaimRejected(t)
  BY <1>1, ClaimRejectedPhase
<1>2. CASE Claim(t) /\ ~ClaimRejected(t)
  <2>1. PICK from \in Phase :
          /\ Claimed(t, from, Me) /\ asked' = asked
          /\ disp' = [DispIdle EXCEPT !.pc = "spawn", !.t = t, !.pid = Len(runs) + 1]
    BY <1>2 DEF Claim, hist
  <2>2. disp'.failed = {}
    BY <2>1, IdleTypes DEF Disp
  <2>3. PICK by \in Lock \ {0} : Claimed(t, from, by)
    BY <2>1, LockFacts
  <2>4. asked' = asked
    BY <2>1
  <2> QED
    BY <2>2, <2>3, <2>4, ClaimedPhase
<1>3. CASE TerminalClaim(t) /\ ~ClaimRejected(t)
  <2>1. Claimed(t, "ready", Lane) /\ asked' = asked /\ disp' = disp
    BY <1>3 DEF TerminalClaim, hist
  <2>2. "ready" \in Phase
    BY DEF Phase
  <2> QED
    BY <2>1, <2>2, LockFacts, ClaimedPhase
<1> QED
  BY <1>1, <1>2, <1>3

(* Reclaimed, timed out or crashed, a run goes back where it came from.    *)
LEMMA RetriedPhase ==
  ASSUME IInv, PhaseInv, NEW t \in Tasks, task[t].status = "running",
         NEW outcome \in Outcome \ {"open"}, Close(t, Retried(t), outcome), asked' = asked,
         disp'.failed = {} \/ \E f : f.t = t /\ disp'.failed = {f}
  PROVE  PhaseInv'
<1>1. /\ Retried(t) \in Row /\ Retried(t).status = asked[t] /\ Retried(t).resume = asked[t]
  BY RetriedFacts, RetryAsked
<1>2. asked[t] \in {"ready", "review"}
  BY PhaseTypes
<1> QED
  BY <1>1, <1>2, ClosePhase

LEMMA SpawnFailedPhase ==
  ASSUME IInv, Quiet, PhaseInv, SpawnFailed
  PROVE  PhaseInv'
<1> DEFINE t == disp.t
           row == task[t]
           n == row.failures + 1
           trip == n >= FailureLimit
           status == IF trip THEN "blocked" ELSE asked[t]
           new == [Freed(row) EXCEPT !.status = status, !.failures = n]
           resumed == [new EXCEPT !.resume = asked[t]]
           outcome == IF trip THEN "gave_up" ELSE "spawn_failed"
<1>1. t \in Tasks /\ row.status = "running" /\ RetryStatus(t) = asked[t]
  <2>1. disp.t \in Tasks /\ task[disp.t].status = "running"
    BY Parts DEF SpawnFailed, Quiet, OtherType, Disp
  <2> QED
    BY <2>1, RetryAsked
<1>2. Close(t, resumed, outcome) /\ disp' = DispIdle /\ asked' = asked
  BY <1>1 DEF SpawnFailed
<1> HIDE DEF t
<1>3. /\ row \in Row /\ asked[t] \in Phase /\ asked[t] \in {"ready", "review"}
      /\ Freed(row) \in Row /\ n \in Nat
  BY <1>1, Parts, RunTypes, PhaseTypes, RowFields, FreedFacts DEF Phase
<1>4. status \in Status /\ status \in {"blocked", asked[t]}
  BY <1>3 DEF Phase, Status
<1> HIDE DEF n, status
<1>5. new \in Row /\ new.status = status
  BY <1>3, <1>4 DEF Row
<1> HIDE DEF new
<1>6. resumed \in Row /\ resumed.status = status /\ resumed.resume = asked[t]
  BY <1>3, <1>5 DEF Row
<1>7. outcome \in Outcome \ {"open"}
  BY DEF Outcome
<1>8. disp'.failed = {}
  BY <1>2, IdleTypes
<1> HIDE DEF resumed, outcome
<1> QED
  BY <1>1, <1>2, <1>3, <1>4, <1>6, <1>7, <1>8, ClosePhase DEF Phase

LEMMA RecomputePhase ==
  ASSUME IInv, PhaseInv, NEW limit, RecomputeReady(limit), UNCHANGED <<runs, disp, asked>>
  PROVE  PhaseInv'
<1>1. \A t \in Tasks :
        \/ task'[t] = task[t]
        \/ /\ task[t].status = "todo" \/ (task[t].status = "blocked" /\ ~task[t].sticky)
           /\ task'[t].status = task[t].resume
           /\ task'[t] = [task[t] EXCEPT !.status = task[t].resume]
  BY Parts, RecomputeStep DEF Promotable
<1>2. ASSUME NEW t \in Tasks
      PROVE  PhaseAt(t)'
  <2>1. CASE task'[t] = task[t]
    BY <2>1, SameRunsGrow, PhaseSame DEF PhaseInv
  <2>2. CASE task'[t] # task[t]
    <3>1. /\ task'[t].status = task[t].resume /\ task[t].resume = asked[t]
          /\ task'[t] = [task[t] EXCEPT !.status = task[t].resume]
          /\ task[t].status # "done"
      BY <1>1, <2>2 DEF PhaseInv, PhaseAt
    <3>2. task[t] \in Row /\ asked[t] \in {"ready", "review"} /\ asked'[t] = asked[t]
      BY Parts, RunTypes, PhaseTypes
    <3>3. task'[t].resume = task[t].resume
      BY <3>1, <3>2 DEF Row
    <3> QED
      BY <3>1, <3>2, <3>3 DEF PhaseAt, Phase
  <2> QED
    BY <2>1, <2>2
<1>3. ASSUME NEW f \in disp'.failed, asked'[f.t] = "review"
      PROVE  task'[f.t].status = "review"
  <2>1. f.t \in Tasks /\ task[f.t].status = "review"
    BY <1>3, Parts DEF PhaseInv, FailuresHold, OtherType, Disp
  <2> QED
    BY <1>1, <2>1
<1> QED
  BY <1>2, <1>3 DEF PhaseInv, FailuresHold

(* What is counted is in review, ready, or at rest: a run of a terminal's  *)
(* that is counted as another's failure is an implementer's.               *)
LEMMA AccountPhase ==
  ASSUME IInv, PhaseInv, NEW f \in disp.failed, Account(f)
  PROVE  PhaseInv'
<1> DEFINE t == f.t
           row == task[t]
           new == IF ~f.violation
                  THEN Counted(row, IF disp.systemic THEN 1 ELSE DefaultLimit, FALSE)
                  ELSE IF row.streak < ViolationLimit THEN row
                  ELSE Counted(row, ViolationLimit, TRUE)
<1>1. t \in Tasks /\ task[t] \in Row /\ task \in [Tasks -> Row]
  BY Parts, RunTypes DEF OtherType, Disp, BoardType
<1>2. task' = [task EXCEPT ![t] = new] /\ UNCHANGED <<runs, asked>>
  BY DEF Account, hist
<1>3. CountedAs(row, new) \/ new = row
  BY <1>1 DEF CountedAs, Counted, Row
<1>4. /\ disp'.failed \subseteq disp.failed
      /\ \A g \in disp'.failed : g.t # t
  <2>1. disp'.failed \subseteq disp.failed \ {f}
    <3>1. disp' = DispIdle \/ disp' = [disp EXCEPT !.failed = @ \ {f}]
      BY DEF Account
    <3> QED
      BY <3>1, IdleTypes, Parts DEF OtherType, Disp
  <2> QED
    BY <2>1 DEF PhaseInv, FailuresHold
<1>5. /\ PhaseAt(t) /\ asked[t] \in {"ready", "review"}
      /\ asked[t] = "review" => row.status = "review"
  BY <1>1, PhaseTypes DEF PhaseInv, FailuresHold
<1> HIDE DEF new, t
<1>6. task'[t] = new /\ \A u \in Tasks \ {t} : task'[u] = task[u]
  BY <1>1, <1>2
<1>7. CASE new = row
  BY <1>1, <1>2, <1>5, <1>6, <1>7, SameRunsGrow, PhaseSame, <1>4, OnePhase
<1>8. CASE CountedAs(row, new)
  <2>1. /\ new.run = row.run /\ new.sticky = row.sticky
        /\ \/ /\ new.status = "blocked" /\ row.status \in {"ready", "review", "running"}
              /\ new.resume = (IF row.status = "review" THEN "review" ELSE "ready")
           \/ /\ new.status = row.status /\ row.status \notin {"ready", "review", "running"}
              /\ new.resume = "ready"
           \/ new.status = row.status /\ new.resume = row.resume
    BY <1>1, <1>8, CountedFacts
  <2>2. CASE new.status = row.status /\ new.resume = row.resume
    BY <1>1, <1>2, <1>4, <1>5, <1>6, <2>1, <2>2, SameRunsGrow, PhaseSame, OnePhase
  <2>3. CASE ~(new.status = row.status /\ new.resume = row.resume)
    <3>1. new.status # "running" /\ new.status \notin Phase /\ new.resume = asked[t]
      BY <1>5, <2>1, <2>3 DEF PhaseAt, Phase
    <3>2. PhaseAt(t)'
      BY <1>2, <1>6, <3>1 DEF PhaseAt
    <3> QED
      BY <1>1, <1>2, <1>4, <1>6, <3>2, SameRunsGrow, OnePhase
  <2> QED
    BY <2>2, <2>3
<1> QED
  BY <1>3, <1>7, <1>8

LEMMA DetectCrashedPhase ==
  ASSUME IInv, PhaseInv, NEW S \in SUBSET Tasks, DetectCrashed(S)
  PROVE  PhaseInv'
<1> DEFINE how(t) == Verdict(task[t].pid)
           failed == {[t |-> t, violation |-> how(t) = "violation"] :
                        t \in {u \in S : how(u) # "rate_limited"}}
<1>1. /\ task' = [t \in Tasks |-> IF t \in S THEN Without(CrashedRow(t), how(t)) ELSE task[t]]
      /\ \A t \in S : task[t].status = "running"
      /\ asked' = asked
  BY DEF DetectCrashed, HasCrashed
<1>2. disp'.failed \subseteq failed
  <2>1. \/ disp' = DispIdle
        \/ \E systemic : disp' = [DispIdle EXCEPT !.pc = "account", !.failed = failed,
                                                  !.systemic = systemic]
    BY DEF DetectCrashed
  <2> HIDE DEF failed
  <2> QED
    BY <2>1, IdleTypes DEF Disp
<1>3. /\ \A f \in failed : f.t \in S
      /\ \A f, g \in failed : f.t = g.t => f = g
  OBVIOUS
<1> HIDE DEF failed, how
<1>4. RunsGrow
  BY DetectCrashedGrows
<1>5. ASSUME NEW t \in S
      PROVE  /\ task'[t].status = asked[t]
             /\ task'[t].resume = asked[t] \/ task'[t].resume = task[t].resume
  <2>1. /\ Retried(t) \in Row /\ Retried(t).status = asked[t] /\ Retried(t).resume = asked[t]
        /\ task[t].resume \in Phase
    BY <1>1, RetriedFacts, RetryAsked, RowFields
  <2>2. /\ CrashedRow(t) \in Row /\ CrashedRow(t).status = asked[t]
        /\ CrashedRow(t).resume = asked[t] \/ CrashedRow(t).resume = task[t].resume
    BY <2>1 DEF CrashedRow, Row
  <2>3. task'[t] = Without(CrashedRow(t), how(t))
    BY <1>1
  <2> QED
    BY <2>2, <2>3, WithoutFacts
<1>6. ASSUME NEW t \in Tasks
      PROVE  PhaseAt(t)'
  <2>1. PhaseAt(t) /\ asked[t] \in {"ready", "review"}
    BY PhaseTypes DEF PhaseInv
  <2>2. CASE t \in S
    BY <1>1, <1>5, <2>1, <2>2 DEF PhaseAt
  <2>3. CASE t \notin S
    BY <1>1, <1>4, <2>1, <2>3, PhaseSame
  <2> QED
    BY <2>2, <2>3
<1>7. FailuresHold'
  BY <1>1, <1>2, <1>3, <1>5 DEF FailuresHold
<1> QED
  BY <1>6, <1>7 DEF PhaseInv

(* The verdicts of a worker.                                               *)
LEMMA CompletedPhase ==
  ASSUME IInv, PhaseInv, NEW t \in Tasks, Completed(t), disp' = disp
  PROVE  PhaseInv'
<1> DEFINE row == [Freed(task[t]) EXCEPT !.status = "done", !.kind = "none", !.recur = 0]
<1>1. /\ Close(t, row, "completed") /\ asked' = [asked EXCEPT ![t] = "ready"]
      /\ asked \in [Tasks -> Phase] /\ "completed" \in Outcome \ {"open"}
  BY PhaseTypes, Names DEF Completed
<1>2. row \in Row /\ row.status = "done"
  <2>1. Freed(task[t]) \in Row
    BY Parts, RunTypes, FreedFacts
  <2> QED
    BY <2>1 DEF Row, Status, Kind
<1> HIDE DEF row
<1>3. asked'[t] = "ready" /\ \A u \in Tasks \ {t} : asked'[u] = asked[u]
  BY <1>1
<1> QED
  BY <1>1, <1>2, <1>3, ClosePhase DEF Phase

LEMMA ReviewRequestedPhase ==
  ASSUME IInv, PhaseInv, NEW t \in Tasks, ReviewRequested(t), disp' = disp
  PROVE  PhaseInv'
<1> DEFINE row == [Freed(task[t]) EXCEPT !.status = "review"]
<1>1. /\ Close(t, row, "review_requested") /\ asked' = [asked EXCEPT ![t] = "review"]
      /\ asked \in [Tasks -> Phase] /\ "review_requested" \in Outcome \ {"open"}
  BY PhaseTypes, Names DEF ReviewRequested
<1>2. row \in Row /\ row.status = "review"
  <2>1. Freed(task[t]) \in Row
    BY Parts, RunTypes, FreedFacts
  <2> QED
    BY <2>1 DEF Row, Status
<1> HIDE DEF row
<1>3. asked'[t] = "review" /\ \A u \in Tasks \ {t} : asked'[u] = asked[u]
  BY <1>1
<1> QED
  BY <1>1, <1>2, <1>3, ClosePhase

LEMMA ChangesPhase ==
  ASSUME IInv, PhaseInv, NEW r \in DOMAIN runs, WorkerRequestChanges(r)
  PROVE  PhaseInv'
<1> DEFINE t == runs[r].task
           row == [Freed(task[t]) EXCEPT !.status = Landing(t), !.resume = "ready"]
<1>1. /\ Close(t, row, "changes_requested") /\ asked' = [asked EXCEPT ![t] = "ready"]
      /\ t \in Tasks /\ disp' = disp
  BY Parts, RunTypes DEF WorkerRequestChanges, WorkerStep
<1> HIDE DEF t
<1>2. /\ asked \in [Tasks -> Phase] /\ "changes_requested" \in Outcome \ {"open"}
  BY <1>1, PhaseTypes, Names
<1>3. row \in Row /\ row.status \in {"ready", "todo"} /\ row.resume = "ready"
  BY <1>1, LandingFacts DEF Landing
<1> HIDE DEF row
<1>4. asked'[t] = "ready" /\ \A u \in Tasks \ {t} : asked'[u] = asked[u]
  BY <1>1, <1>2
<1> QED
  BY <1>1, <1>2, <1>3, <1>4, ClosePhase DEF Phase

LEMMA BlockedPhase ==
  ASSUME IInv, PhaseInv, NEW t \in Tasks, NEW kind \in {"dependency", "input"},
         Blocked(t, kind), disp' = disp
  PROVE  PhaseInv'
<1>1. PICK row \in Row :
        /\ Close(t, row, "blocked") /\ row.lock = 0
        /\ row.status \in {"todo", "triage", "blocked"}
        /\ row.resume = IF task[t].status = "running" THEN RetryStatus(t) ELSE "ready"
        /\ row.status = "blocked" => row.sticky = TRUE
  BY BlockedFacts
<1>2. /\ task[t].status \in {"running", "ready"} /\ asked' = asked
      /\ "blocked" \in Outcome \ {"open"}
  BY Names DEF Blocked
<1>3. row.resume = asked[t]
  BY <1>1, <1>2, RetryAsked DEF PhaseInv, PhaseAt, Phase
<1>4. \A f \in disp'.failed : f.t = t => asked'[t] # "review"
  BY <1>2 DEF PhaseInv, FailuresHold
<1> QED
  BY <1>1, <1>2, <1>3, <1>4, ClosePhase DEF Phase

(* A field that is of no phase is written.                                 *)
LEMMA FieldPhase ==
  ASSUME IInv, PhaseInv, NEW t \in Tasks, NEW x,
         \/ task' = [task EXCEPT ![t].expired = x] \/ task' = [task EXCEPT ![t].pid = x]
         \/ task' = [task EXCEPT ![t].failures = x] \/ task' = task,
         runs' = runs, asked' = asked, disp'.failed \subseteq disp.failed
  PROVE  PhaseInv'
<1>1. task \in [Tasks -> Row]
  BY Parts DEF BoardType
<1>2. \A u \in Tasks :
        /\ task'[u].status = task[u].status /\ task'[u].run = task[u].run
        /\ task'[u].sticky = task[u].sticky /\ task'[u].resume = task[u].resume
  BY <1>1 DEF Row
<1> QED
  BY <1>2, SameRunsGrow, FieldsPhase

LEMMA WorkerPhase ==
  ASSUME IInv, PhaseInv, NEW r \in DOMAIN runs, Worker(r)
  PROVE  PhaseInv'
<1> DEFINE t == runs[r].task
<1>1. t \in Tasks /\ disp' = disp
  BY Parts, RunTypes DEF Worker, WorkerComplete, WorkerRequestReview, WorkerRequestChanges,
     WorkerBlock, WorkerClear, WorkerPromote, Heartbeat, Exit, WorkerStep
<1>2. CASE WorkerComplete(r) \/ WorkerRequestReview(r)
  BY <1>1, <1>2, CompletedPhase, ReviewRequestedPhase DEF WorkerComplete, WorkerRequestReview
<1>3. CASE \E kind \in {"dependency", "input"} : WorkerBlock(r, kind)
  BY <1>1, <1>3, BlockedPhase DEF WorkerBlock
<1>4. CASE WorkerClear(r) \/ Heartbeat(r)
  BY <1>1, <1>4, FieldPhase DEF WorkerClear, ClearFailures, Heartbeat, Extended, hist
<1>5. CASE WorkerPromote(r)
  BY <1>1, <1>5, RecomputePhase DEF WorkerPromote, hist
<1>6. CASE \E how \in Dead : Exit(r, how)
  BY <1>1, <1>6, FieldPhase DEF Exit, board, hist
<1> QED
  BY <1>2, <1>3, <1>4, <1>5, <1>6, ChangesPhase DEF Worker

LEMMA PhaseStep ==
  ASSUME IInv, PremiseHolds, Quiet, PhaseInv, Step
  PROVE  PhaseInv'
<1>1. disp.t \in Tasks /\ disp \in Disp /\ DispIdle.failed = {}
  BY Parts, IdleTypes DEF OtherType, Disp
<1>2. CASE Spawn \/ SetWorkerPid
  <2>1. /\ runs' = runs /\ asked' = asked /\ disp'.failed \subseteq disp.failed
        /\ task' = task \/ task' = [task EXCEPT ![disp.t].pid = disp.pid]
    BY <1>1, <1>2 DEF Spawn, SetWorkerPid, board, hist, Disp
  <2> QED
    BY <1>1, <2>1, FieldPhase
<1>3. ASSUME NEW t \in Tasks, NEW why \in {"ttl", "stale"}, ReclaimStart(t, why)
      PROVE  PhaseInv'
  <2>1. disp'.failed \subseteq disp.failed
    <3>1. \/ disp' = disp
          \/ disp' = [DispIdle EXCEPT !.pc = "reclaim", !.t = t, !.why = why,
                                      !.lock = task[t].lock, !.pid = task[t].pid]
      BY <1>3 DEF ReclaimStart
    <3> QED
      BY <3>1, IdleTypes DEF Disp
  <2>2. /\ runs' = runs /\ asked' = asked
        /\ task' = task \/ task' = [task EXCEPT ![t].expired = FALSE]
    BY <1>3 DEF ReclaimStart, Extended, board, hist
  <2> QED
    BY <2>1, <2>2, FieldPhase
<1>4. ASSUME NEW t \in Tasks, TimeoutStart(t)
      PROVE  PhaseInv'
  <2>1. disp'.failed = {}
    <3>1. disp' = [DispIdle EXCEPT !.pc = "timeout", !.t = t, !.lock = task[t].lock,
                                   !.pid = task[t].pid]
      BY <1>4 DEF TimeoutStart
    <3> QED
      BY <3>1, IdleTypes DEF Disp
  <2> QED
    BY <1>4, <2>1, FieldPhase DEF TimeoutStart, board, hist
<1>5. CASE Reclaim \/ Timeout
  <2>1. disp'.failed = {} \/ \E f : f.t = disp.t /\ disp'.failed = {f}
    <3>1. \/ disp' = DispIdle
          \/ disp' = [DispIdle EXCEPT !.pc = "account",
                                      !.failed = {[t |-> disp.t, violation |-> FALSE]}]
      BY <1>5 DEF Reclaim, Timeout
    <3>2. [t |-> disp.t, violation |-> FALSE].t = disp.t
      OBVIOUS
    <3> QED
      BY <3>1, <3>2, IdleTypes DEF Disp
  <2>2. asked' = asked
    BY <1>5 DEF Reclaim, Timeout
  <2>3. CASE UNCHANGED board
    <3>1. disp' = DispIdle \/ Close(disp.t, Retried(disp.t), "timed_out")
      BY <1>5 DEF Reclaim, Timeout
    <3>2. CASE disp' = DispIdle
      BY <1>1, <2>2, <2>3, <3>2, FieldPhase DEF board
    <3>3. CASE Close(disp.t, Retried(disp.t), "timed_out") /\ disp' # DispIdle
      <4>1. task[disp.t].status = "running" /\ "timed_out" \in Outcome \ {"open"}
        BY <1>5, <3>3 DEF Reclaim, Timeout, Outcome
      <4> QED
        BY <1>1, <2>1, <2>2, <3>3, <4>1, RetriedPhase
    <3> QED
      BY <3>1, <3>2, <3>3
  <2>4. CASE ~UNCHANGED board
    <3>1. /\ task[disp.t].status = "running"
          /\ \E outcome \in {"reclaimed", "stale", "timed_out"} :
               Close(disp.t, Retried(disp.t), outcome)
      BY <1>5, <2>4 DEF Reclaim, Timeout
    <3>2. \A outcome \in {"reclaimed", "stale", "timed_out"} : outcome \in Outcome \ {"open"}
      BY DEF Outcome
    <3> QED
      BY <1>1, <2>1, <2>2, <3>1, <3>2, RetriedPhase
  <2> QED
    BY <2>3, <2>4
<1>6. CASE DispPromote
  BY <1>6, RecomputePhase DEF DispPromote, hist
<1>7. CASE DispDies
  BY <1>1, <1>7, FieldPhase DEF DispDies, board
<1>8. CASE UNCHANGED vars \/ \E t \in Tasks : Expire(t)
  BY <1>1, <1>8, FieldPhase DEF vars, board, hist, Expire, WorkerStep
<1> QED
  BY <1>2, <1>3, <1>4, <1>5, <1>6, <1>7, <1>8, ClaimPhase, SpawnFailedPhase,
     DetectCrashedPhase, AccountPhase, WorkerPhase
     DEF Step, Dispatcher, DispPass, DispGoesOn

LEMMA InitQuiet == Init => Quiet /\ PhaseInv
<1> SUFFICES ASSUME Init
             PROVE  Quiet /\ PhaseInv
  OBVIOUS
<1>1. Quiet
  BY IdleTypes DEF Init, Quiet, RunId
<1>2. FailuresHold
  BY IdleTypes DEF Init, FailuresHold
<1>3. \A t \in Tasks : PhaseAt(t)
  BY DEF Init, PhaseAt, Phase
<1> QED
  BY <1>1, <1>2, <1>3 DEF PhaseInv

(* A task runs in the phase it was last sent to, whatever crashes, times   *)
(* out, blocks, dies or is claimed at a terminal: a review is taken up     *)
(* again as a review, and what a reviewer sent back as an implementation.  *)
THEOREM Phases ==
  ASSUME MaxMoves = 0
  PROVE  Spec => []PhaseKept
<1>1. IInv /\ PremiseHolds /\ Quiet /\ PhaseInv /\ [Next]_vars => Quiet' /\ PhaseInv'
  BY NoOperator, QuietStep, PhaseStep
<1>2. PhaseInv => PhaseKept
  BY DEF PhaseInv, PhaseAt, PhaseKept
<1> QED
  BY <1>1, <1>2, InitQuiet, InitHolds, NextKeeps, Premise, PTL DEF Spec

-------------------------------------------------------------------------------
(* The retries of a task.                                                  *)

(* What n counted failures may have cost in runs: each but the last of     *)
(* ViolationLimit in a row may be a violation that was let pass.           *)
Paid(n) == ViolationLimit * n

Live == {"todo", "ready", "review", "running"}

(* A task that may run again has failures to spare, and what has failed    *)
(* since the last counted failure is a streak of violations.               *)
Budgeted(t) ==
  /\ tried[t] <= Paid(FailureLimit)
  /\ task[t].status \in Live => task[t].failures < FailureLimit
  /\ (\A f \in disp.failed : f.t # t)
       => /\ tried[t] < Paid(task[t].failures) + ViolationLimit
          /\ tried[t] <= Paid(task[t].failures) + task[t].streak

(* A failure that is still to be counted is that of a task that is open;   *)
(* one run more has been paid for it, and nobody has the task but a        *)
(* terminal.                                                               *)
PendingAt(f) ==
  /\ Satisfied(f.t)
  /\ task[f.t].status \in {"ready", "review", "running"}
  /\ task[f.t].run = 0 \/ proc[task[f.t].run] = "none"
  /\ tried[f.t] <= Paid(task[f.t].failures) + ViolationLimit
  /\ f.violation => tried[f.t] <= Paid(task[f.t].failures) + task[f.t].streak

RetryInv == (\A t \in Tasks : Budgeted(t)) /\ \A f \in disp.failed : PendingAt(f)

LEMMA PaidFacts ==
  ASSUME NEW n \in Nat
  PROVE  /\ Paid(n) \in Nat /\ Paid(n + 1) = Paid(n) + ViolationLimit /\ Paid(0) = 0
         /\ n < FailureLimit => Paid(n) + ViolationLimit <= Paid(FailureLimit)
         /\ Paid(FailureLimit) \in Nat
<1>1. ViolationLimit \in Nat /\ FailureLimit \in Nat
  OBVIOUS
<1>2. \A m \in Nat : Paid(m) \in Nat /\ Paid(m + 1) = Paid(m) + ViolationLimit
  BY <1>1 DEF Paid
<1>3. ASSUME n < FailureLimit
      PROVE  Paid(n) + ViolationLimit <= Paid(FailureLimit)
  <2>1. PICK k \in Nat : FailureLimit = (n + 1) + k
    <3>1. FailureLimit - (n + 1) \in Nat
      BY <1>1, <1>3
    <3> QED
      BY <1>1, <3>1
  <2>2. ViolationLimit * FailureLimit = ViolationLimit * (n + 1) + ViolationLimit * k
    BY <1>1, <2>1
  <2>3. ViolationLimit * k \in Nat /\ ViolationLimit * (n + 1) \in Nat
    BY <1>1
  <2>4. ViolationLimit * (n + 1) <= ViolationLimit * FailureLimit
    BY <2>2, <2>3
  <2>5. Paid(n + 1) <= Paid(FailureLimit)
    BY <2>4 DEF Paid
  <2> QED
    BY <1>2, <2>5
<1>4. Paid(0) = 0
  BY <1>1 DEF Paid
<1> QED
  BY <1>1, <1>2, <1>3, <1>4

LEMMA TaskTypes ==
  ASSUME IInv, NEW t \in Tasks
  PROVE  /\ task[t] \in Row /\ task[t].failures \in Nat /\ task[t].streak \in Nat
         /\ tried[t] \in Nat /\ tried \in [Tasks -> Nat] /\ task \in [Tasks -> Row]
         /\ ViolationLimit \in Nat /\ ViolationLimit > 0
         /\ FailureLimit \in Nat /\ FailureLimit > 0
<1>1. task \in [Tasks -> Row] /\ tried \in [Tasks -> Nat] /\ task[t] \in Row
  BY Parts, RunTypes DEF OtherType, BoardType
<1> QED
  BY <1>1, RowFields

(* Parents that are done stay so.                                          *)
FinalStays == \A p \in Tasks : task[p].status \in Final => task'[p].status \in Final

LEMMA StaysSatisfied ==
  ASSUME FinalStays, NEW t \in Tasks, Satisfied(t)
  PROVE  Satisfied(t)'
BY DEF FinalStays, Satisfied, Final

LEMMA PendingSame ==
  ASSUME IInv, Quiet, Calm, FinalStays, NEW f \in disp.failed, PendingAt(f),
         task'[f.t].status = task[f.t].status, task'[f.t].run = task[f.t].run,
         task'[f.t].failures = task[f.t].failures, task'[f.t].streak = task[f.t].streak,
         tried'[f.t] = tried[f.t]
  PROVE  PendingAt(f)'
<1>1. f.t \in Tasks
  BY Parts DEF OtherType, Disp
<1>2. task[f.t].run = 0 \/ task[f.t].run \in RunId
  BY <1>1, Parts, RunTypes DEF BoardHolds, PointersHold
<1> QED
  BY <1>1, <1>2, StaysSatisfied DEF PendingAt, Calm

(* One task is moved, and its failures are looked at.                      *)
LEMMA OneRetry ==
  ASSUME IInv, Quiet, RetryInv, Calm, NEW t \in Tasks,
         \A u \in Tasks \ {t} : task'[u] = task[u] /\ tried'[u] = tried[u],
         task[t].status \in Final => task'[t].status \in Final,
         \A f \in disp'.failed : f \in disp.failed \/ f.t = t,
         \A f \in disp.failed : f \in disp'.failed \/ f.t = t,
         Budgeted(t)',
         FinalStays => \A f \in disp'.failed : f.t = t => PendingAt(f)'
  PROVE  RetryInv'
<1>1. FinalStays
  BY DEF FinalStays
<1>2. \A f \in disp.failed : f.t \in Tasks
  BY Parts DEF OtherType, Disp
<1>3. ASSUME NEW u \in Tasks \ {t}
      PROVE  Budgeted(u)'
  BY <1>3 DEF RetryInv, Budgeted
<1>4. ASSUME NEW f \in disp'.failed
      PROVE  PendingAt(f)'
  <2>1. CASE f.t = t
    BY <1>1, <1>4, <2>1
  <2>2. CASE f.t # t
    BY <1>1, <1>2, <1>4, <2>2, PendingSame DEF RetryInv
  <2> QED
    BY <2>1, <2>2
<1> QED
  BY <1>3, <1>4 DEF RetryInv

(* Its runs are forgiven.                                                  *)
LEMMA ForgivenRetry ==
  ASSUME IInv, Quiet, RetryInv, Calm, NEW t \in Tasks, NEW row \in Row,
         NEW outcome, Close(t, row, outcome), tried' = [tried EXCEPT ![t] = 0],
         task[t].status \in Final => row.status \in Final,
         row.status \in Live => row.failures < FailureLimit,
         disp'.failed = disp.failed, \A f \in disp.failed : f.t # t
  PROVE  RetryInv'
<1>1. /\ task' = [task EXCEPT ![t] = Without(row, outcome)]
      /\ task \in [Tasks -> Row] /\ tried \in [Tasks -> Nat]
  BY TaskTypes DEF Close
<1>2. /\ task'[t] = Without(row, outcome) /\ tried'[t] = 0
      /\ \A u \in Tasks \ {t} : task'[u] = task[u] /\ tried'[u] = tried[u]
  BY <1>1
<1>3. /\ task'[t].status = row.status /\ task'[t].failures = row.failures
      /\ task'[t].failures \in Nat /\ task'[t].streak \in Nat
  BY <1>2, WithoutFacts, RowFields
<1>4. Budgeted(t)'
  BY <1>2, <1>3, PaidFacts, TaskTypes DEF Budgeted
<1> QED
  BY <1>2, <1>3, <1>4, OneRetry

(* Nothing that is counted is touched.                                     *)
LEMMA FieldsRetry ==
  ASSUME IInv, Quiet, RetryInv, disp'.failed = disp.failed, Calm \/ disp.failed = {},
         \A t \in Tasks :
           /\ task'[t].status = task[t].status /\ task'[t].run = task[t].run
           /\ task'[t].failures = task[t].failures /\ task'[t].streak = task[t].streak
           /\ tried'[t] = tried[t]
  PROVE  RetryInv'
<1>1. FinalStays
  BY DEF FinalStays
<1>2. \A f \in disp.failed : f.t \in Tasks
  BY Parts DEF OtherType, Disp
<1>3. \A t \in Tasks : Budgeted(t)'
  BY DEF RetryInv, Budgeted
<1>4. ASSUME NEW f \in disp'.failed
      PROVE  PendingAt(f)'
  BY <1>1, <1>2, <1>4, PendingSame DEF RetryInv
<1> QED
  BY <1>3, <1>4 DEF RetryInv

LEMMA FieldRetry ==
  ASSUME IInv, Quiet, RetryInv, disp'.failed = disp.failed, Calm \/ disp.failed = {},
         NEW t \in Tasks, NEW x,
         \/ task' = [task EXCEPT ![t].expired = x] \/ task' = [task EXCEPT ![t].pid = x]
         \/ task' = task,
         tried' = tried
  PROVE  RetryInv'
<1>1. task \in [Tasks -> Row]
  BY Parts DEF BoardType
<1>2. \A u \in Tasks :
        /\ task'[u].status = task[u].status /\ task'[u].run = task[u].run
        /\ task'[u].failures = task[u].failures /\ task'[u].streak = task[u].streak
  BY <1>1 DEF Row
<1> QED
  BY <1>2, FieldsRetry

LEMMA ClaimRejectedRetry ==
  ASSUME IInv, PremiseHolds, Quiet, RetryInv, NEW t \in Tasks, ClaimRejected(t)
  PROVE  RetryInv'
<1>1. task[t].status = "ready" /\ ~Satisfied(t)
  BY DEF ClaimRejected, Phase, PremiseHolds
<1>2. /\ task' = [task EXCEPT ![t] = [@ EXCEPT !.status = "todo"]]
      /\ UNCHANGED <<proc, disp, tried>>
  BY <1>1 DEF ClaimRejected, hist
<1>3. task \in [Tasks -> Row] /\ task[t] \in Row
  BY TaskTypes
<1>4. /\ task'[t].status = "todo" /\ task'[t].failures = task[t].failures
      /\ task'[t].streak = task[t].streak
      /\ \A u \in Tasks \ {t} : task'[u] = task[u]
  BY <1>2, <1>3 DEF Row
<1>5. \A f \in disp.failed : f.t # t
  BY <1>1 DEF RetryInv, PendingAt
<1>6. Budgeted(t)'
  BY <1>1, <1>2, <1>4 DEF RetryInv, Budgeted, Live
<1> QED
  BY <1>1, <1>2, <1>4, <1>5, <1>6, ProcSame, OneRetry DEF Final

LEMMA ClaimedRetry ==
  ASSUME IInv, Quiet, RetryInv, NEW t \in Tasks, NEW from \in Phase, NEW by \in Lock \ {0},
         Claimed(t, from, by), UNCHANGED <<proc, tried>>, disp'.failed = disp.failed
  PROVE  RetryInv'
<1>1. PICK n \in Nat : n = Len(runs) + 1
  BY Parts, RunTypes
<1>2. ClaimEffect(t, from, by, n)
  BY <1>1, ClaimedStep
<1>3. task \in [Tasks -> Row] /\ task[t] \in Row /\ n \in RunId
  BY <1>2, TaskTypes DEF ClaimEffect
<1>4. /\ task'[t].status = "running" /\ task'[t].run = n
      /\ task'[t].failures = task[t].failures /\ task'[t].streak = task[t].streak
      /\ \A u \in Tasks \ {t} : task'[u] = task[u]
  BY <1>2, <1>3 DEF ClaimEffect, Row
<1>5. proc'[n] = "none"
  BY <1>2, <1>3 DEF ClaimEffect, Quiet
<1>6. task[t].status \in {"ready", "review"}
  BY DEF Claimed, Phase
<1>7. Budgeted(t)'
  BY <1>4, <1>6 DEF RetryInv, Budgeted, Live
<1>8. ASSUME FinalStays, NEW f \in disp'.failed, f.t = t
      PROVE  PendingAt(f)'
  BY <1>4, <1>5, <1>8, StaysSatisfied DEF RetryInv, PendingAt
<1> QED
  BY <1>4, <1>6, <1>7, <1>8, ProcSame, OneRetry DEF Final

LEMMA ClaimRetry ==
  ASSUME IInv, PremiseHolds, Quiet, RetryInv, NEW t \in Tasks, Claim(t) \/ TerminalClaim(t)
  PROVE  RetryInv'
<1>1. CASE ClaimRejected(t)
  BY <1>1, ClaimRejectedRetry
<1>2. CASE Claim(t) /\ ~ClaimRejected(t)
  <2>1. PICK from \in Phase :
          /\ Claimed(t, from, Me) /\ UNCHANGED <<proc, tried>> /\ disp.pc = "idle"
          /\ disp' = [DispIdle EXCEPT !.pc = "spawn", !.t = t, !.pid = Len(runs) + 1]
    BY <1>2 DEF Claim, hist, DispIsIdle
  <2>2. disp'.failed = {}
    BY <2>1, IdleTypes DEF Disp
  <2>3. disp.failed = {}
    BY <2>1, Parts DEF DispAgrees
  <2>4. PICK by \in Lock \ {0} : Claimed(t, from, by)
    BY <2>1, LockFacts
  <2>5. UNCHANGED <<proc, tried>>
    BY <2>1
  <2> QED
    BY <2>2, <2>3, <2>4, <2>5, ClaimedRetry
<1>3. CASE TerminalClaim(t) /\ ~ClaimRejected(t)
  <2>1. Claimed(t, "ready", Lane) /\ UNCHANGED <<proc, tried, disp>>
    BY <1>3 DEF TerminalClaim, hist
  <2>2. "ready" \in Phase
    BY DEF Phase
  <2> QED
    BY <2>1, <2>2, LockFacts, ClaimedRetry
<1> QED
  BY <1>1, <1>2, <1>3

(* A worker that could not be started is counted at once.                  *)
LEMMA SpawnFailedRetry ==
  ASSUME IInv, Quiet, RetryInv, SpawnFailed
  PROVE  RetryInv'
<1>0. PICK t \in Tasks : t = disp.t
  BY Parts DEF OtherType, Disp
<1> DEFINE row == task[t]
           n == row.failures + 1
           trip == n >= FailureLimit
           status == IF trip THEN "blocked" ELSE RetryStatus(t)
           new == [Freed(row) EXCEPT !.status = status, !.failures = n]
           resumed == [new EXCEPT !.resume = RetryStatus(t)]
           outcome == IF trip THEN "gave_up" ELSE "spawn_failed"
<1>1. disp.pc = "spawn" /\ task[t].status = "running" /\ task[t].run # 0
  BY <1>0, Parts DEF SpawnFailed, Quiet, BoardHolds, PointersHold
<1>2. /\ Close(t, resumed, outcome) /\ disp' = DispIdle /\ proc' = proc
      /\ Failed(t, "spawn_failed")
  BY <1>0, <1>1 DEF SpawnFailed
<1>3. row.status = "running"
  BY <1>1
<1>4. /\ row \in Row /\ RetryStatus(t) \in Phase /\ Freed(row) \in Row
      /\ row.failures \in Nat /\ tried[t] \in Nat
  BY <1>3, TaskTypes, RetriedFacts, FreedFacts
<1>5. status \in Status /\ (status \in Live => n < FailureLimit) /\ n \in Nat
  BY <1>4, TaskTypes DEF Phase, Status, Live
<1> HIDE DEF status, n
<1>6. new \in Row /\ new.status = status /\ new.failures = n
  BY <1>4, <1>5 DEF Row
<1> HIDE DEF new
<1>7. resumed \in Row /\ resumed.status = status /\ resumed.failures = n
  BY <1>4, <1>6 DEF Row
<1> HIDE DEF resumed, outcome
<1>8. /\ task' = [task EXCEPT ![t] = Without(resumed, outcome)]
      /\ tried' = [tried EXCEPT ![t] = @ + 1]
      /\ task \in [Tasks -> Row] /\ tried \in [Tasks -> Nat]
  BY <1>2, <1>3, TaskTypes DEF Close, Failed
<1>9. /\ task'[t] = Without(resumed, outcome) /\ tried'[t] = tried[t] + 1
      /\ \A u \in Tasks \ {t} : task'[u] = task[u] /\ tried'[u] = tried[u]
  BY <1>3, <1>8
<1>10. task'[t].status = status /\ task'[t].failures = n /\ task'[t].streak \in Nat
  BY <1>7, <1>9, WithoutFacts, RowFields
<1>11. disp.failed = {} /\ disp'.failed = {}
  BY <1>1, <1>2, IdleTypes, Parts DEF DispAgrees
<1>12. Budgeted(t)'
  <2>1. /\ tried[t] < Paid(row.failures) + ViolationLimit
        /\ row.failures < FailureLimit
    BY <1>3, <1>11 DEF RetryInv, Budgeted, Live
  <2>2. /\ Paid(n) = Paid(row.failures) + ViolationLimit /\ Paid(n) <= Paid(FailureLimit)
        /\ Paid(n) \in Nat /\ Paid(row.failures) \in Nat /\ Paid(FailureLimit) \in Nat
    BY <1>4, <2>1, PaidFacts DEF n
  <2>3. tried[t] + 1 <= Paid(n) /\ tried[t] + 1 <= Paid(FailureLimit)
    BY <1>4, <2>1, <2>2, TaskTypes, <1>3
  <2> QED
    <3>1. tried'[t] <= Paid(FailureLimit)
      BY <1>9, <2>3
    <3>2. task'[t].status \in Live => task'[t].failures < FailureLimit
      BY <1>5, <1>10
    <3>3. /\ tried'[t] < Paid(task'[t].failures) + ViolationLimit
          /\ tried'[t] <= Paid(task'[t].failures) + task'[t].streak
      BY <1>4, <1>9, <1>10, <2>2, <2>3
    <3> QED
      BY <3>1, <3>2, <3>3 DEF Budgeted
<1>13. task[t].status \notin Final
  BY <1>3 DEF Final
<1> QED
  BY <1>2, <1>3, <1>9, <1>11, <1>12, <1>13, ProcSame, OneRetry

(* A timed-out run is paid for, and is to be counted.                      *)
LEMMA TimedOutRetry ==
  ASSUME IInv, PremiseHolds, Quiet, RetryInv, NEW t \in Tasks, task[t].status = "running",
         Close(t, Retried(t), "timed_out"), Failed(t, "timed_out"), proc' = proc,
         disp.failed = {}, NEW f, f.t = t, ~f.violation, disp'.failed = {f}
  PROVE  RetryInv'
<1>1. /\ task' = [task EXCEPT ![t] = Without(Retried(t), "timed_out")]
      /\ tried' = [tried EXCEPT ![t] = @ + 1]
      /\ task \in [Tasks -> Row] /\ tried \in [Tasks -> Nat]
  BY TaskTypes DEF Close, Failed
<1>2. /\ task'[t] = Without(Retried(t), "timed_out") /\ tried'[t] = tried[t] + 1
      /\ \A u \in Tasks \ {t} : task'[u] = task[u] /\ tried'[u] = tried[u]
  BY <1>1
<1>3. /\ task'[t].status \in {"ready", "review"} /\ task'[t].run = 0
      /\ task'[t].failures = task[t].failures
  BY <1>2, WithoutFacts, RetriedFacts DEF Phase
<1>4. /\ tried[t] < Paid(task[t].failures) + ViolationLimit
      /\ task[t].failures < FailureLimit /\ Satisfied(t)
  BY DEF RetryInv, Budgeted, Live, PremiseHolds
<1>5. /\ tried[t] + 1 <= Paid(task[t].failures) + ViolationLimit
      /\ tried[t] + 1 <= Paid(FailureLimit)
  BY <1>4, TaskTypes, PaidFacts
<1>6. Budgeted(t)'
  BY <1>2, <1>3, <1>4, <1>5 DEF Budgeted
<1>7. ASSUME FinalStays
      PROVE  PendingAt(f)'
  BY <1>2, <1>3, <1>4, <1>5, <1>7, StaysSatisfied DEF PendingAt
<1> QED
  BY <1>2, <1>6, <1>7, ProcSame, OneRetry DEF Final

LEMMA RecomputeRetry ==
  ASSUME IInv, Quiet, RetryInv, NEW limit, limit \in Nat, limit <= FailureLimit,
         RecomputeReady(limit), runs' = runs, UNCHANGED <<disp, tried>>, Calm
  PROVE  RetryInv'
<1>1. \A t \in Tasks :
        \/ task'[t] = task[t]
        \/ /\ \/ task[t].status = "todo"
              \/ task[t].status = "blocked" /\ task[t].failures < limit
           /\ task'[t].status = task[t].resume
           /\ task'[t] = [task[t] EXCEPT !.status = task[t].resume]
  BY Parts, RecomputeStep DEF Promotable
<1>2. ASSUME NEW t \in Tasks
      PROVE  Budgeted(t)'
  <2>1. CASE task'[t] = task[t]
    BY <2>1 DEF RetryInv, Budgeted
  <2>2. CASE task'[t] # task[t]
    <3>1. task[t].failures < FailureLimit
      <4>1. task[t].status = "todo" => task[t].failures < FailureLimit
        BY DEF RetryInv, Budgeted, Live
      <4>2. task[t].failures < limit => task[t].failures < FailureLimit
        BY TaskTypes
      <4> QED
        BY <1>1, <2>2, <4>1, <4>2
    <3>2. task'[t].failures = task[t].failures /\ task'[t].streak = task[t].streak
      BY <1>1, <2>2, TaskTypes DEF Row
    <3> QED
      BY <3>1, <3>2 DEF RetryInv, Budgeted
  <2> QED
    BY <2>1, <2>2
<1>3. FinalStays
  BY <1>1 DEF FinalStays, Final
<1>4. ASSUME NEW f \in disp'.failed
      PROVE  PendingAt(f)'
  <2>1. f \in disp.failed /\ f.t \in Tasks /\ PendingAt(f)
    BY <1>4, Parts DEF OtherType, Disp, RetryInv
  <2>2. task'[f.t] = task[f.t]
    BY <1>1, <2>1 DEF PendingAt
  <2> QED
    BY <1>3, <2>1, <2>2, PendingSame
<1> QED
  BY <1>2, <1>4 DEF RetryInv

(* Crashes are paid for, and are to be counted; a violation makes the      *)
(* streak longer, and a rate limit is no failure.                          *)
LEMMA DetectCrashedRetry ==
  ASSUME IInv, PremiseHolds, Quiet, RetryInv, NEW S \in SUBSET Tasks, DetectCrashed(S)
  PROVE  RetryInv'
<1> DEFINE how(t) == Verdict(task[t].pid)
           faulty == {u \in S : how(u) # "rate_limited"}
           failed == {[t |-> t, violation |-> how(t) = "violation"] : t \in faulty}
<1>1. /\ task' = [t \in Tasks |-> IF t \in S THEN Without(CrashedRow(t), how(t)) ELSE task[t]]
      /\ tried' = [t \in Tasks |-> IF t \in S /\ how(t) # "rate_limited"
                                   THEN tried[t] + 1 ELSE tried[t]]
      /\ \A t \in S : task[t].status = "running"
      /\ proc' = proc /\ disp.pc = "idle"
  BY DEF DetectCrashed, HasCrashed, DispIsIdle
<1>2. disp'.failed = failed
  <2>1. \/ disp' = DispIdle /\ failed = {}
        \/ \E systemic : disp' = [DispIdle EXCEPT !.pc = "account", !.failed = failed,
                                                  !.systemic = systemic]
    BY DEF DetectCrashed
  <2> HIDE DEF failed
  <2> QED
    BY <2>1, IdleTypes DEF Disp
<1>3. /\ \A f \in failed : \E t \in S :
           /\ f.t = t /\ how(t) # "rate_limited"
           /\ f.violation => how(t) = "violation"
      /\ \A t \in S : how(t) # "rate_limited" => \E f \in failed : f.t = t
  <2>1. faulty \subseteq S /\ \A t \in S : t \in faulty <=> how(t) # "rate_limited"
    OBVIOUS
  <2> HIDE DEF how, faulty
  <2>2. ASSUME NEW f \in failed
        PROVE  \E t \in S : /\ f.t = t /\ how(t) # "rate_limited"
                            /\ f.violation => how(t) = "violation"
    <3>1. PICK t \in faulty : f = [t |-> t, violation |-> how(t) = "violation"]
      BY <2>2
    <3>2. f.t = t /\ f.violation = (how(t) = "violation")
      BY <3>1
    <3> QED
      BY <2>1, <3>1, <3>2
  <2>3. ASSUME NEW t \in faulty
        PROVE  \E f \in failed : f.t = t
    <3>1. [t |-> t, violation |-> how(t) = "violation"] \in failed
      BY <2>3
    <3>2. [t |-> t, violation |-> how(t) = "violation"].t = t
      OBVIOUS
    <3> QED
      BY <3>1, <3>2
  <2> QED
    BY <2>1, <2>2, <2>3
<1>4. disp.failed = {}
  BY <1>1, Parts DEF DispAgrees
<1>5. ASSUME NEW t \in S
      PROVE  /\ task'[t].status \in {"ready", "review"} /\ task'[t].run = 0
             /\ task'[t].failures = task[t].failures
             /\ how(t) = "violation" => task'[t].streak = task[t].streak + 1
             /\ how(t) = "rate_limited" => task'[t].streak = task[t].streak
  <2>1. /\ Retried(t) \in Row /\ Retried(t).status \in Phase
        /\ Retried(t).failures = task[t].failures /\ Retried(t).streak = task[t].streak
        /\ task[t].resume \in Phase
    BY RetriedFacts, RowFields
  <2>2. /\ CrashedRow(t) \in Row /\ CrashedRow(t).status \in Phase
        /\ CrashedRow(t).failures = task[t].failures /\ CrashedRow(t).streak = task[t].streak
    BY <2>1 DEF CrashedRow, Row
  <2>3. task'[t] = Without(CrashedRow(t), how(t))
    BY <1>1
  <2> HIDE DEF how
  <2>4. task'[t].streak = Streak(CrashedRow(t), how(t))
    BY <2>2, <2>3 DEF Without, Row
  <2> QED
    BY <2>2, <2>3, <2>4, WithoutFacts DEF Phase, Streak
<1> HIDE DEF failed, faulty, how
<1>6. FinalStays
  BY <1>1 DEF FinalStays, Final
<1>7. ASSUME NEW t \in S
      PROVE  /\ tried[t] \in Nat /\ task[t].streak \in Nat /\ Paid(task[t].failures) \in Nat
             /\ tried[t] + 1 <= Paid(task[t].failures) + ViolationLimit
             /\ tried[t] + 1 <= Paid(FailureLimit)
             /\ tried[t] <= Paid(task[t].failures) + task[t].streak
             /\ task[t].failures < FailureLimit
  <2>1. /\ tried[t] < Paid(task[t].failures) + ViolationLimit
        /\ tried[t] <= Paid(task[t].failures) + task[t].streak
        /\ task[t].failures < FailureLimit
    BY <1>1, <1>4 DEF RetryInv, Budgeted, Live
  <2> QED
    BY <2>1, TaskTypes, PaidFacts
<1>8. ASSUME NEW t \in Tasks
      PROVE  Budgeted(t)'
  <2>1. CASE t \notin S
    <3>1. task'[t] = task[t] /\ tried'[t] = tried[t]
      BY <1>1, <2>1
    <3> QED
      BY <1>4, <3>1 DEF RetryInv, Budgeted
  <2>2. CASE t \in S /\ how(t) # "rate_limited"
    <3>1. tried'[t] = tried[t] + 1
      BY <1>1, <2>2
    <3> QED
      BY <1>2, <1>3, <1>5, <1>7, <2>2, <3>1 DEF Budgeted
  <2>3. CASE t \in S /\ how(t) = "rate_limited"
    <3>1. tried'[t] = tried[t]
      BY <1>1, <2>3
    <3> QED
      BY <1>4, <1>5, <1>7, <2>3, <3>1 DEF RetryInv, Budgeted
  <2> QED
    BY <2>1, <2>2, <2>3
<1>9. ASSUME NEW f \in disp'.failed
      PROVE  PendingAt(f)'
  <2>1. PICK t \in S : /\ f.t = t /\ how(t) # "rate_limited"
                       /\ f.violation => how(t) = "violation"
    <3>1. f \in failed
      BY <1>2, <1>9
    <3> QED
      BY <1>3, <3>1
  <2>2. how(t) # "rate_limited" /\ (f.violation => how(t) = "violation")
    BY <2>1
  <2>3. tried'[t] = tried[t] + 1
    BY <1>1, <2>2
  <2>4. Satisfied(t)'
    BY <1>1, <1>6, StaysSatisfied DEF PremiseHolds
  <2>5. f.violation => tried'[t] <= Paid(task'[t].failures) + task'[t].streak
    BY <1>5, <1>7, <2>2, <2>3
  <2> QED
    BY <1>5, <1>7, <2>1, <2>3, <2>4, <2>5 DEF PendingAt
<1> QED
  BY <1>8, <1>9 DEF RetryInv

(* A failure is counted, or let pass while the streak is short.            *)
LEMMA AccountRetry ==
  ASSUME IInv, Quiet, RetryInv, FailuresHold, DefaultLimit <= FailureLimit,
         NEW f \in disp.failed, Account(f)
  PROVE  RetryInv'
<1>1. PICK t \in Tasks : t = f.t
  BY Parts DEF OtherType, Disp
<1> DEFINE row == task[t]
           n == row.failures + 1
           limit == IF f.violation THEN ViolationLimit
                    ELSE IF disp.systemic THEN 1 ELSE DefaultLimit
           passes == f.violation /\ row.streak < ViolationLimit
           new == IF ~f.violation THEN Counted(row, limit, FALSE)
                  ELSE IF row.streak < ViolationLimit THEN row
                  ELSE Counted(row, limit, TRUE)
<1>2. /\ row \in Row /\ row.failures \in Nat /\ row.streak \in Nat /\ tried[t] \in Nat
      /\ task \in [Tasks -> Row] /\ ViolationLimit \in Nat /\ ViolationLimit > 0
      /\ FailureLimit \in Nat /\ FailureLimit > 0
  BY TaskTypes
<1>3. task' = [task EXCEPT ![t] = new] /\ UNCHANGED <<runs, proc, tried>>
  BY <1>1 DEF Account, hist
<1>4. /\ row.status \in {"ready", "review", "running"}
      /\ tried[t] <= Paid(row.failures) + ViolationLimit
      /\ f.violation => tried[t] <= Paid(row.failures) + row.streak
      /\ row.failures < FailureLimit
  BY <1>1 DEF RetryInv, PendingAt, Budgeted, Live
<1>5. /\ disp'.failed \subseteq disp.failed /\ \A g \in disp'.failed : g.t # t
      /\ \A g \in disp.failed : g \in disp'.failed \/ g.t = t
  <2>1. disp'.failed = disp.failed \ {f}
    <3>1. \/ disp' = DispIdle /\ disp.failed = {f}
          \/ disp' = [disp EXCEPT !.failed = @ \ {f}]
      BY DEF Account
    <3> QED
      BY <3>1, IdleTypes, Parts DEF OtherType, Disp
  <2> QED
    BY <1>1, <2>1 DEF FailuresHold
<1>6. /\ new.streak = row.streak
      /\ passes => new = row
      /\ ~passes => /\ new.failures = n
                    /\ new.status = "blocked" \/ (new.status = row.status /\ n < FailureLimit)
  <2>1. CASE passes
    BY <2>1, <1>2
  <2>2. CASE ~f.violation
    <3>1. new = Counted(row, limit, FALSE) /\ limit \in Nat /\ limit <= FailureLimit
      BY <1>2, <2>2
    <3>2. \/ new = [row EXCEPT !.status = "blocked", !.failures = n,
                   !.resume = IF row.status = "review" THEN "review" ELSE "ready"]
          \/ new = [row EXCEPT !.failures = n] /\ ~(n >= limit)
      BY <1>4, <3>1 DEF Counted
    <3> HIDE DEF new, limit
    <3>3. CASE new = [row EXCEPT !.failures = n] /\ ~(n >= limit)
      <4>1. n < FailureLimit
        BY <1>2, <3>1, <3>3
      <4>2. new.failures = n /\ new.status = row.status /\ new.streak = row.streak
        BY <1>2, <3>3 DEF Row
      <4> QED
        BY <2>2, <4>1, <4>2
    <3>4. CASE new = [row EXCEPT !.status = "blocked", !.failures = n,
                      !.resume = IF row.status = "review" THEN "review" ELSE "ready"]
      BY <1>2, <2>2, <3>4 DEF Row
    <3> QED
      BY <3>2, <3>3, <3>4
  <2>3. CASE f.violation /\ ~passes
    <3>1. new = Counted(row, limit, TRUE)
      BY <1>2, <2>3
    <3>2. new = [row EXCEPT !.status = "blocked", !.failures = n,
                 !.resume = IF row.status = "review" THEN "review" ELSE "ready"]
      BY <1>4, <3>1 DEF Counted
    <3> HIDE DEF new
    <3> QED
      BY <1>2, <2>3, <3>2 DEF Row
  <2> QED
    BY <2>1, <2>2, <2>3
<1>7. /\ Paid(n) = Paid(row.failures) + ViolationLimit /\ Paid(n) <= Paid(FailureLimit)
      /\ Paid(n) \in Nat /\ Paid(row.failures) \in Nat /\ n \in Nat
  BY <1>2, <1>4, PaidFacts
<1>8. task'[t] = new /\ \A u \in Tasks \ {t} : task'[u] = task[u]
  BY <1>2, <1>3
<1> HIDE DEF new, n, limit
<1>9. tried[t] <= Paid(FailureLimit)
  BY DEF RetryInv, Budgeted
<1>10. Budgeted(t)'
  <2>1. CASE ~passes
    <3>1. /\ tried'[t] < Paid(task'[t].failures) + ViolationLimit
          /\ tried'[t] <= Paid(task'[t].failures) + task'[t].streak
      BY <1>2, <1>3, <1>4, <1>6, <1>7, <1>8, <2>1
    <3>2. task'[t].status \in Live => task'[t].failures < FailureLimit
      BY <1>6, <1>8, <2>1 DEF Live
    <3> QED
      BY <1>3, <1>9, <3>1, <3>2 DEF Budgeted
  <2>2. CASE passes
    <3>1. f.violation /\ row.streak < ViolationLimit
      BY <1>2, <2>2
    <3>2. /\ tried[t] < Paid(row.failures) + ViolationLimit
          /\ tried[t] <= Paid(row.failures) + row.streak
      BY <1>2, <1>4, <1>7, <3>1
    <3>3. task'[t] = task[t] /\ tried'[t] = tried[t]
      BY <1>3, <1>6, <1>8, <2>2
    <3> QED
      BY <1>4, <1>9, <3>2, <3>3 DEF Budgeted
  <2> QED
    BY <2>1, <2>2
<1>11. task[t].status \notin Final
  BY <1>4 DEF Final
<1> QED
  BY <1>3, <1>5, <1>8, <1>10, <1>11, ProcSame, OneRetry

(* A worker's verdict on its own run: no failure of its task is to be      *)
(* counted, for those tasks have no worker.                                *)
LEMMA VerdictRetry ==
  ASSUME IInv, Quiet, RetryInv, NEW r \in DOMAIN runs, proc[r] = "work", Owns(r), Calm,
         NEW row \in Row,
         NEW outcome \in {"completed", "review_requested", "changes_requested", "blocked"},
         Close(runs[r].task, row, outcome), Failed(runs[r].task, outcome), disp' = disp,
         task[runs[r].task].status \notin Final,
         row.status \in Live => row.failures < FailureLimit
  PROVE  RetryInv'
<1>1. PICK t \in Tasks : t = runs[r].task
  BY Parts, RunTypes
<1>2. tried' = [tried EXCEPT ![t] = 0]
  BY <1>1 DEF Failed
<1>3. task[t].run = r /\ r # 0
  BY <1>1, Parts, RunTypes DEF Owns
<1>4. \A f \in disp.failed : f.t # t
  BY <1>3 DEF RetryInv, PendingAt
<1> QED
  BY <1>1, <1>2, <1>4, ForgivenRetry

LEMMA WorkerClearRetry ==
  ASSUME IInv, Quiet, RetryInv, Calm, NEW r \in DOMAIN runs, WorkerClear(r)
  PROVE  RetryInv'
<1>1. PICK t \in Tasks : t = runs[r].task
  BY Parts, RunTypes
<1>2. /\ task' = [task EXCEPT ![t].failures = 0] /\ tried' = [tried EXCEPT ![t] = 0]
      /\ disp' = disp /\ task \in [Tasks -> Row] /\ tried \in [Tasks -> Nat]
      /\ task[t].streak \in Nat
  BY <1>1, TaskTypes DEF WorkerClear, ClearFailures, WorkerStep
<1>3. /\ task'[t].status = task[t].status /\ task'[t].run = task[t].run
      /\ task'[t].failures = 0 /\ task'[t].streak = task[t].streak /\ tried'[t] = 0
      /\ \A u \in Tasks \ {t} : task'[u] = task[u] /\ tried'[u] = tried[u]
  BY <1>2 DEF Row
<1>4. 0 <= Paid(0) + ViolationLimit /\ 0 <= Paid(0) + task[t].streak
  BY <1>2, PaidFacts, TaskTypes
<1>5. Budgeted(t)'
  BY <1>2, <1>3, <1>4, PaidFacts, TaskTypes DEF Budgeted
<1>6. ASSUME FinalStays, NEW f \in disp'.failed, f.t = t
      PROVE  PendingAt(f)'
  <2>1. PendingAt(f) /\ Satisfied(t)'
    BY <1>2, <1>6, StaysSatisfied DEF RetryInv, PendingAt
  <2>2. task[t].run = 0 \/ task[t].run \in RunId
    BY Parts, RunTypes DEF BoardHolds, PointersHold
  <2>3. task'[t].run = 0 \/ proc'[task'[t].run] = "none"
    BY <1>3, <1>6, <2>1, <2>2 DEF PendingAt, Calm
  <2> QED
    BY <1>3, <1>4, <1>6, <2>1, <2>3 DEF PendingAt
<1> QED
  BY <1>2, <1>3, <1>5, <1>6, OneRetry

LEMMA WorkerRetry ==
  ASSUME IInv, Quiet, RetryInv, DefaultLimit <= FailureLimit,
         NEW r \in DOMAIN runs, Worker(r)
  PROVE  RetryInv'
<1>1. PICK t \in Tasks : t = runs[r].task
  BY Parts, RunTypes
<1>2. Calm /\ disp' = disp /\ DefaultLimit \in Nat
  BY WorkerCalm DEF Worker, WorkerComplete, WorkerRequestReview, WorkerRequestChanges,
     WorkerBlock, WorkerClear, WorkerPromote, Heartbeat, Exit, WorkerStep
<1>3. task[t] \in Row /\ (task[t].status \in Live => task[t].failures < FailureLimit)
  BY TaskTypes DEF RetryInv, Budgeted
<1>4. CASE WorkerComplete(r)
  <2> DEFINE row == [Freed(task[t]) EXCEPT !.status = "done", !.kind = "none", !.recur = 0]
  <2>1. /\ Close(t, row, "completed") /\ Failed(t, "completed")
        /\ task[t].status \notin Final /\ proc[r] = "work" /\ Owns(r)
    BY <1>1, <1>4 DEF WorkerComplete, Completed, Final
  <2>2. row \in Row /\ row.status = "done"
    <3>1. Freed(task[t]) \in Row
      BY <1>3, FreedFacts
    <3> QED
      BY <3>1 DEF Row, Status, Kind
  <2> HIDE DEF row
  <2> QED
    BY <1>1, <1>2, <2>1, <2>2, VerdictRetry DEF Live
<1>5. CASE WorkerRequestReview(r)
  <2> DEFINE row == [Freed(task[t]) EXCEPT !.status = "review"]
  <2>1. /\ Close(t, row, "review_requested") /\ Failed(t, "review_requested")
        /\ task[t].status \in {"running", "ready"} /\ proc[r] = "work" /\ Owns(r)
    BY <1>1, <1>5 DEF WorkerRequestReview, ReviewRequested
  <2>2. row \in Row /\ row.failures = task[t].failures
    <3>1. Freed(task[t]) \in Row /\ Freed(task[t]).failures = task[t].failures
      BY <1>3, FreedFacts
    <3> QED
      BY <3>1 DEF Row, Status
  <2> HIDE DEF row
  <2>3. task[t].status \notin Final /\ row.failures < FailureLimit
    BY <1>3, <2>1, <2>2 DEF Live, Final
  <2> QED
    BY <1>1, <1>2, <2>1, <2>2, <2>3, VerdictRetry
<1>6. CASE WorkerRequestChanges(r)
  <2> DEFINE row == [Freed(task[t]) EXCEPT !.status = Landing(t), !.resume = "ready"]
  <2>1. /\ Close(t, row, "changes_requested") /\ Failed(t, "changes_requested")
        /\ task[t].status = "running" /\ proc[r] = "work" /\ Owns(r)
    BY <1>1, <1>6 DEF WorkerRequestChanges
  <2>2. row \in Row /\ row.failures = task[t].failures
    BY LandingFacts
  <2> HIDE DEF row
  <2>3. task[t].status \notin Final /\ row.failures < FailureLimit
    BY <1>3, <2>1, <2>2 DEF Live, Final
  <2> QED
    BY <1>1, <1>2, <2>1, <2>2, <2>3, VerdictRetry
<1>7. ASSUME NEW kind \in {"dependency", "input"}, WorkerBlock(r, kind)
      PROVE  RetryInv'
  <2>1. Blocked(t, kind) /\ proc[r] = "work" /\ Owns(r)
    BY <1>1, <1>7 DEF WorkerBlock
  <2>2. PICK row \in Row : Close(t, row, "blocked") /\ row.failures = task[t].failures
    BY <2>1, BlockedFacts
  <2>3. /\ task[t].status \notin Final /\ row.failures < FailureLimit
        /\ Failed(t, "blocked")
    BY <1>3, <2>1, <2>2 DEF Blocked, Live, Final
  <2> QED
    BY <1>1, <1>2, <2>1, <2>2, <2>3, VerdictRetry
<1>8. CASE WorkerClear(r)
  BY <1>2, <1>8, WorkerClearRetry
<1>9. CASE WorkerPromote(r)
  BY <1>2, <1>9, RecomputeRetry DEF WorkerPromote, hist
<1>10. CASE Heartbeat(r) \/ \E how \in Dead : Exit(r, how)
  BY <1>1, <1>2, <1>10, FieldRetry DEF Heartbeat, Extended, Exit, board, hist
<1> QED
  BY <1>4, <1>5, <1>6, <1>7, <1>8, <1>9, <1>10 DEF Worker

(* What the dispatcher was to count dies with it, and is forgiven.         *)
LEMMA DispDiesRetry ==
  ASSUME IInv, RetryInv, DispDies
  PROVE  RetryInv'
<1>1. /\ task' = task /\ disp'.failed = {}
      /\ tried' = [t \in Tasks |-> IF \E f \in disp.failed : f.t = t THEN 0 ELSE tried[t]]
  BY IdleTypes DEF DispDies, board
<1>2. ASSUME NEW t \in Tasks
      PROVE  Budgeted(t)'
  <2>1. CASE \E f \in disp.failed : f.t = t
    <3>1. tried'[t] = 0 /\ task'[t] = task[t]
      BY <1>1, <2>1
    <3>2. /\ 0 < Paid(task[t].failures) + ViolationLimit /\ 0 <= Paid(FailureLimit)
          /\ 0 <= Paid(task[t].failures) + task[t].streak
      BY TaskTypes, PaidFacts
    <3> QED
      BY <3>1, <3>2 DEF RetryInv, Budgeted
  <2>2. CASE ~\E f \in disp.failed : f.t = t
    <3>1. tried'[t] = tried[t] /\ task'[t] = task[t]
      BY <1>1, <2>2
    <3> QED
      BY <2>2, <3>1 DEF RetryInv, Budgeted
  <2> QED
    BY <2>1, <2>2
<1> QED
  BY <1>1, <1>2 DEF RetryInv

LEMMA ReclaimRetry ==
  ASSUME IInv, Quiet, RetryInv, Reclaim
  PROVE  RetryInv'
<1>1. PICK t \in Tasks : t = disp.t
  BY Parts DEF OtherType, Disp
<1>2. disp.failed = {} /\ disp'.failed = {} /\ proc' = proc
  BY IdleTypes, Parts DEF Reclaim, DispAgrees
<1>3. CASE UNCHANGED <<board, tried>>
  BY <1>2, <1>3, FieldRetry DEF board
<1>4. CASE ~UNCHANGED <<board, tried>>
  <2>1. PICK outcome \in {"reclaimed", "stale"} :
          /\ Close(t, Retried(t), outcome) /\ Failed(t, outcome)
          /\ task[t].status = "running"
    BY <1>1, <1>4 DEF Reclaim
  <2>2. /\ tried' = [tried EXCEPT ![t] = 0] /\ Retried(t) \in Row
        /\ Retried(t).failures = task[t].failures
    BY <2>1, RetriedFacts DEF Failed
  <2>3. Retried(t).failures < FailureLimit /\ task[t].status \notin Final
    BY <2>1, <2>2 DEF RetryInv, Budgeted, Live, Final
  <2> QED
    BY <1>2, <2>1, <2>2, <2>3, ProcSame, ForgivenRetry
<1> QED
  BY <1>3, <1>4

LEMMA TimeoutRetry ==
  ASSUME IInv, PremiseHolds, Quiet, RetryInv, Timeout
  PROVE  RetryInv'
<1>1. PICK t \in Tasks : t = disp.t
  BY Parts DEF OtherType, Disp
<1>2. disp.failed = {} /\ proc' = proc
  BY Parts DEF Timeout, DispAgrees
<1>3. CASE disp' = DispIdle /\ UNCHANGED <<board, tried>>
  BY <1>2, <1>3, IdleTypes, FieldRetry DEF board
<1>4. CASE ~(disp' = DispIdle /\ UNCHANGED <<board, tried>>)
  <2>1. /\ Close(t, Retried(t), "timed_out") /\ Failed(t, "timed_out")
        /\ task[t].status = "running"
        /\ disp' = [DispIdle EXCEPT !.pc = "account",
                                    !.failed = {[t |-> t, violation |-> FALSE]}]
    BY <1>1, <1>4 DEF Timeout
  <2>2. PICK f : f = [t |-> t, violation |-> FALSE]
    OBVIOUS
  <2>3. f.t = t /\ ~f.violation /\ disp'.failed = {f}
    BY <2>1, <2>2, IdleTypes DEF Disp
  <2> QED
    BY <1>2, <2>1, <2>3, TimedOutRetry
<1> QED
  BY <1>3, <1>4

LEMMA RetryStep ==
  ASSUME IInv, PremiseHolds, Quiet, PhaseInv, RetryInv, DefaultLimit <= FailureLimit, Step
  PROVE  RetryInv'
<1>1. disp \in Disp /\ DispIdle.failed = {} /\ FailuresHold /\ Anyone \in Tasks
  BY Parts, IdleTypes DEF OtherType, PhaseInv
<1>2. CASE Spawn \/ SetWorkerPid
  <2>1. PICK t \in Tasks : t = disp.t
    BY <1>1 DEF Disp
  <2>2. disp.failed = {} /\ disp'.failed = {}
    <3>1. disp.failed = {}
      BY <1>2, Parts DEF Spawn, SetWorkerPid, DispAgrees
    <3> QED
      BY <1>1, <1>2, <3>1 DEF Spawn, SetWorkerPid, Disp
  <2>3. /\ task' = task \/ task' = [task EXCEPT ![t].pid = disp.pid]
        /\ tried' = tried
    BY <1>2, <2>1 DEF Spawn, SetWorkerPid, board, hist
  <2> QED
    BY <2>2, <2>3, FieldRetry
<1>3. ASSUME NEW t \in Tasks, NEW why \in {"ttl", "stale"}, ReclaimStart(t, why)
      PROVE  RetryInv'
  <2>1. disp.failed = {} /\ disp'.failed = {}
    <3>1. disp.failed = {}
      BY <1>3, Parts DEF ReclaimStart, DispIsIdle, DispAgrees
    <3>2. \/ disp' = disp
          \/ disp' = [DispIdle EXCEPT !.pc = "reclaim", !.t = t, !.why = why,
                                      !.lock = task[t].lock, !.pid = task[t].pid]
      BY <1>3 DEF ReclaimStart
    <3> QED
      BY <3>1, <3>2, IdleTypes DEF Disp
  <2>2. /\ task' = task \/ task' = [task EXCEPT ![t].expired = FALSE]
        /\ tried' = tried
    BY <1>3 DEF ReclaimStart, Extended, board, hist
  <2> QED
    BY <2>1, <2>2, FieldRetry
<1>4. ASSUME NEW t \in Tasks, TimeoutStart(t)
      PROVE  RetryInv'
  <2>1. disp'.failed = {}
    <3>1. disp' = [DispIdle EXCEPT !.pc = "timeout", !.t = t, !.lock = task[t].lock,
                                   !.pid = task[t].pid]
      BY <1>4 DEF TimeoutStart
    <3> QED
      BY <3>1, IdleTypes DEF Disp
  <2>2. disp.failed = {} /\ task' = task /\ tried' = tried
    BY <1>4, Parts DEF TimeoutStart, DispIsIdle, DispAgrees, board, hist
  <2> QED
    BY <2>1, <2>2, FieldRetry
<1>5. CASE DispPromote
  <2>1. FailureLimit \in Nat
    OBVIOUS
  <2> QED
    BY <1>5, <2>1, ProcSame, RecomputeRetry DEF DispPromote, hist
<1>6. CASE UNCHANGED vars \/ \E t \in Tasks : Expire(t)
  <2>1. PICK t \in Tasks : task' = task \/ task' = [task EXCEPT ![t].expired = TRUE]
    BY <1>1, <1>6 DEF vars, board, Expire
  <2>2. Calm /\ disp' = disp /\ tried' = tried
    BY <1>6, ProcSame DEF vars, hist, Expire, WorkerStep
  <2> QED
    BY <2>1, <2>2, FieldRetry
<1> QED
  BY <1>1, <1>2, <1>3, <1>4, <1>5, <1>6, ClaimRetry, SpawnFailedRetry, DetectCrashedRetry,
     AccountRetry, WorkerRetry, DispDiesRetry, ReclaimRetry, TimeoutRetry
     DEF Step, Dispatcher, DispPass, DispGoesOn

(* The breaker ends the retries of a task: as long as nobody forgives or   *)
(* moves it, no more of its runs fail than the limit on its failures       *)
(* allows, each with the violations that are let pass before it.  Crashes  *)
(* and timeouts are counted against a limit of their own: were it above    *)
(* FailureLimit, the retries would end at that one.                        *)
THEOREM RetriesAreBounded ==
  ASSUME MaxMoves = 0, DefaultLimit <= FailureLimit
  PROVE  Spec => []RetriesEnd
<1>1. Init => Quiet /\ PhaseInv /\ RetryInv
  <2> SUFFICES ASSUME Init
               PROVE  Quiet /\ PhaseInv /\ RetryInv
    OBVIOUS
  <2>1. Quiet /\ PhaseInv
    BY InitQuiet
  <2>2. disp.failed = {}
    BY IdleTypes DEF Init
  <2>3. ASSUME NEW t \in Tasks
        PROVE  Budgeted(t)
    <3>1. tried[t] = 0 /\ task[t].failures = 0 /\ task[t].streak = 0
      BY DEF Init
    <3> QED
      BY <3>1, InitHolds, TaskTypes, PaidFacts DEF Budgeted
  <2> QED
    BY <2>1, <2>2, <2>3 DEF RetryInv
<1>2. IInv /\ PremiseHolds /\ Quiet /\ PhaseInv /\ RetryInv /\ [Next]_vars
        => Quiet' /\ PhaseInv' /\ RetryInv'
  BY NoOperator, QuietStep, PhaseStep, RetryStep
<1>3. IInv /\ RetryInv => RetriesEnd
  <2> SUFFICES ASSUME IInv, RetryInv, NEW t \in Tasks
               PROVE  tried[t] <= ViolationLimit * (FailureLimit + moves)
    BY DEF RetriesEnd
  <2>1. moves = 0 /\ FailureLimit \in Nat
    BY Parts DEF OtherType
  <2>2. FailureLimit + moves = FailureLimit
    BY <2>1
  <2> QED
    BY <2>2 DEF RetryInv, Budgeted, Paid
<1> QED
  BY <1>1, <1>2, <1>3, InitHolds, NextKeeps, Premise, PTL DEF Spec

===============================================================================
