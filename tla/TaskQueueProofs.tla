---------------------------- MODULE TaskQueueProofs ----------------------------
(* Proofs about TaskQueue: for any workers, tasks, slots and attempts.     *)
EXTENDS TaskQueue, TLAPS

USE BoundsAssumption

(* The keys the operations build are keys.                                 *)
LEMMA Keys ==
  /\ NoRun \in Run
  /\ \A t \in Tasks, s \in 0..MaxSlot :
       First(t, s) \in Run /\ First(t, s).task = t /\ First(t, s).slot = s
  /\ \A r \in Run :
       /\ First(r.task, r.slot) \in Run
       /\ ~Last(r) => Retry(r) \in Run
BY TasksAssumption DEF Run, NoRun, First, Last, Retry

(***************************************************************************)
(* An insertion types, turns no row back to none, and changes no row that  *)
(* is there.                                                               *)
(***************************************************************************)
LEMMA Inserts ==
  ASSUME TypeOK, NEW r \in Run, NEW d \in BOOLEAN, Insert(r, d)
  PROVE  /\ status' \in [Run -> Status] /\ due' \in [Run -> BOOLEAN]
         /\ status'[r] # "none"
         /\ \A q \in Run : status[q] # "none" => status'[q] = status[q]
         /\ expired' = expired
BY DEF TypeOK, Insert, Status

LEMMA GotoTypes ==
  ASSUME TypeOK, NEW w \in Workers, NEW p \in Pc, NEW r \in Run, Goto(w, p, r)
  PROVE  /\ pc' \in [Workers -> Pc] /\ cur' \in [Workers -> Run]
         /\ pc'[w] = p /\ cur'[w] = r
         /\ \A v \in Workers \ {w} : pc'[v] = pc[v] /\ cur'[v] = cur[v]
BY DEF TypeOK, Goto

LEMMA WorkOnGoes ==
  ASSUME TypeOK, NEW w \in Workers, NEW S, WorkOn(w, S)
  PROVE  /\ pc' \in [Workers -> Pc] /\ cur' \in [Workers -> Run]
         /\ pc'[w] \in {"idle", "work"}
         /\ \A v \in Workers \ {w} : pc'[v] = pc[v] /\ cur'[v] = cur[v]
<1>1. PICK p \in {"idle", "work"} : Goto(w, p, NoRun)
  BY DEF WorkOn
<1> QED
  BY <1>1, GotoTypes, Keys DEF Pc

LEMMA Drops ==
  ASSUME TypeOK, NEW w \in Workers, NEW r \in Run, Drop(w, r)
  PROVE  /\ batch' \in [Workers -> SUBSET Run] /\ late' \in [Workers -> SUBSET Run]
         /\ batch'[w] = batch[w] \ {r}
         /\ \A v \in Workers \ {w} : batch'[v] = batch[v]
BY DEF TypeOK, Drop

-----------------------------------------------------------------------------
(***************************************************************************)
(* How a step changes the state, as far as the invariant depends on it.    *)
(* Each action falls under one of these, and each keeps the invariant.     *)
(***************************************************************************)

(* Rows are inserted, never removed.                                       *)
RowsStay == \A r \in Run : status[r] # "none" => status'[r] # "none"

(* No claim is made, and a row in the hands of a worker keeps its status.  *)
ClaimsStay ==
  /\ \A r \in Run : expired'[r] => status'[r] = "running"
  /\ lapsed \subseteq lapsed'
  /\ \A w \in Workers : batch'[w] \subseteq batch[w]
  /\ \A w \in Workers : \A r \in batch'[w] :
       r \notin lapsed' /\ status[r] = "running" /\ ~expired[r]
         => status'[r] = "running" /\ ~expired'[r]

(* No worker takes up a run, or goes on to insert a retry.                 *)
NoWorkerTakes ==
  \A w \in Workers :
    /\ pc'[w] = "handler" => pc[w] = "handler" /\ cur'[w] = cur[w] /\ cur[w] \in batch'[w]
    /\ pc'[w] = "retry"   => pc[w] = "retry" /\ cur'[w] = cur[w]

(* No worker reads a snapshot or enqueues.                                 *)
NoSnapshot ==
  \A w \in Workers :
    /\ snap'[w] \subseteq snap[w]
    /\ pc'[w] \in {"created", "advance"} => pc'[w] = pc[w] /\ cur'[w] = cur[w]

LEMMA ScheduleKept ==
  ASSUME TypeOK, NoSlotSkipped, RowsStay, nextRun' = nextRun
  PROVE  NoSlotSkipped'
BY Keys DEF TypeOK, NoSlotSkipped, RowsStay

LEMMA SnapshotsKept ==
  ASSUME TypeOK, Snapshots, RowsStay, NoSnapshot
  PROVE  Snapshots'
<1> SUFFICES ASSUME NEW w \in Workers
             PROVE  /\ \A r \in snap'[w] : r = First(r.task, r.slot)
                    /\ pc'[w] = "created" => cur'[w] = First(cur'[w].task, 0)
                    /\ pc'[w] = "advance" => /\ cur'[w] = First(cur'[w].task, cur'[w].slot)
                                             /\ status'[cur'[w]] # "none"
                    /\ \A r \in snap'[w] \cup IF pc'[w] = "advance" THEN {cur'[w]} ELSE {} :
                         \A s \in 1..(r.slot - 1) : status'[First(r.task, s)] # "none"
  BY DEF Snapshots
<1>1. /\ snap'[w] \subseteq snap[w]
      /\ pc'[w] \in {"created", "advance"} => pc'[w] = pc[w] /\ cur'[w] = cur[w]
  BY DEF NoSnapshot
<1>2. cur[w] \in Run /\ snap[w] \subseteq Run
  BY DEF TypeOK
<1>3. ASSUME NEW r \in snap'[w] \cup IF pc'[w] = "advance" THEN {cur'[w]} ELSE {},
             NEW s \in 1..(r.slot - 1)
      PROVE  status'[First(r.task, s)] # "none"
  <2>1. r \in snap[w] \cup IF pc[w] = "advance" THEN {cur[w]} ELSE {}
    BY <1>1
  <2>2. r \in Run /\ r.task \in Tasks /\ s \in 0..MaxSlot
    BY <2>1, <1>2 DEF Run
  <2>3. status[First(r.task, s)] # "none" /\ First(r.task, s) \in Run
    BY <2>1, <2>2, Keys DEF Snapshots
  <2> QED
    BY <2>3 DEF RowsStay
<1> QED
  BY <1>1, <1>2, <1>3 DEF Snapshots, RowsStay

LEMMA ClaimsKept ==
  ASSUME TypeOK, Held, OneHolder, ClaimsStay
  PROVE  OneHolder' /\ (\A w \in Workers : \A r \in batch'[w] :
                          r \notin lapsed' => status'[r] = "running" /\ ~expired'[r])
<1>1. \A r \in Run : Holders(r)' \subseteq Holders(r)
  BY DEF ClaimsStay, Holders
<1> QED
  BY <1>1 DEF TypeOK, Held, OneHolder, ClaimsStay

LEMMA HeldKept ==
  ASSUME TypeOK, Held, OneHolder, ClaimsStay, NoWorkerTakes
  PROVE  Held' /\ OneHolder'
BY ClaimsKept DEF Held, NoWorkerTakes, ClaimsStay, Last

-----------------------------------------------------------------------------
(* The type.                                                               *)

LEMMA TypeInit == Init => TypeOK
BY Keys DEF Init, TypeOK, Status, Pc

LEMMA TypeStep == TypeOK /\ Snapshots /\ Held /\ [Next]_vars => TypeOK'
<1> SUFFICES ASSUME TypeOK, Snapshots, Held, [Next]_vars PROVE TypeOK'
  OBVIOUS
<1>1. CASE Tick
  BY <1>1 DEF Tick, TypeOK, runVars, workerVars
<1>2. ASSUME NEW r \in Run, Due(r) PROVE TypeOK'
  BY <1>2 DEF Due, TypeOK, workerVars
<1>3. ASSUME NEW r \in Run, Expire(r) PROVE TypeOK'
  BY <1>3 DEF Expire, TypeOK
<1>4. ASSUME NEW w \in Workers, NEW t \in Tasks, Create(w, t) PROVE TypeOK'
  <2>1. First(t, 0) \in Run
    BY Keys
  <2>2. pc' \in [Workers -> Pc] /\ cur' \in [Workers -> Run]
    BY <1>4, <2>1, GotoTypes DEF Create, Pc
  <2> QED
    BY <1>4, <2>2 DEF Create, TypeOK, runVars
<1>5. ASSUME NEW w \in Workers, Poll(w) PROVE TypeOK'
  <2>0. cur[w] \in Run /\ cur[w].task \in Tasks /\ cur[w].slot \in 0..MaxSlot
    BY DEF TypeOK, Run
  <2>1. CASE CreateInitial(w)
    <3>1. pc' \in [Workers -> Pc] /\ cur' \in [Workers -> Run]
      BY <2>1, Keys, GotoTypes DEF CreateInitial, Pc
    <3>2. status' \in [Run -> Status] /\ due' \in [Run -> BOOLEAN] /\ expired' = expired
      BY <2>0, <2>1, Inserts DEF CreateInitial
    <3> QED
      BY <2>1, <3>1, <3>2 DEF CreateInitial, TypeOK
  <2>2. CASE Snapshot(w)
    <3>1. {First(t, nextRun[t]) : t \in DueTasks} \subseteq Run
      BY Keys DEF DueTasks, TypeOK
    <3> QED
      BY <2>2, <3>1 DEF Snapshot, TypeOK, Pc, runVars
  <2>3. CASE Enqueue(w)
    <3>1. PICK r \in snap[w] : /\ Insert(r, TRUE)
                               /\ snap' = [snap EXCEPT ![w] = @ \ {r}]
                               /\ Goto(w, "advance", r)
      BY <2>3 DEF Enqueue
    <3>2. r \in Run
      BY DEF TypeOK
    <3>3. pc' \in [Workers -> Pc] /\ cur' \in [Workers -> Run]
      BY <3>1, <3>2, GotoTypes DEF Pc
    <3>4. status' \in [Run -> Status] /\ due' \in [Run -> BOOLEAN] /\ expired' = expired
      BY <3>1, <3>2, Inserts
    <3> QED
      BY <2>3, <3>1, <3>3, <3>4 DEF Enqueue, TypeOK
  <2>4. CASE Advance(w)
    <3>1. pc' \in [Workers -> Pc] /\ cur' \in [Workers -> Run]
      BY <2>4, Keys, GotoTypes DEF Advance, Pc
    <3>2. NextSlot(cur[w]) \in 0..(MaxSlot + 1)
      BY <2>0 DEF NextSlot
    <3>3. nextRun' \in [Tasks -> 0..(MaxSlot + 1)]
      BY <2>4, <3>2 DEF Advance, TypeOK
    <3> QED
      BY <2>4, <3>1, <3>3 DEF Advance, TypeOK, runVars
  <2>5. CASE Enqueued(w)
    BY <2>5 DEF Enqueued, TypeOK, Pc, runVars
  <2>6. CASE Claim(w)
    <3>1. PICK S \in SUBSET Run :
            /\ status'  = [r \in Run |-> IF r \in S THEN "running" ELSE Reclaimed(r)]
            /\ expired' = [r \in Run |-> expired[r] /\ ~Expired(r)]
            /\ batch'   = [batch EXCEPT ![w] = S]
            /\ WorkOn(w, S)
      BY <2>6 DEF Claim
    <3>2. pc' \in [Workers -> Pc] /\ cur' \in [Workers -> Run]
      BY <3>1, WorkOnGoes
    <3>3. \A r \in Run : Reclaimed(r) \in Status
      BY DEF Reclaimed, TypeOK, Status
    <3>4. status' \in [Run -> Status]
      BY <3>1, <3>3 DEF Status
    <3>5. expired' \in [Run -> BOOLEAN]
      BY <3>1
    <3> QED
      BY <2>6, <3>1, <3>2, <3>4, <3>5 DEF Claim, TypeOK
  <2>7. CASE Work(w)
    <3>1. PICK r \in batch[w] :
            /\ Goto(w, "handler", r)
            /\ tries' = [tries EXCEPT ![r.task][r.slot] = IF @ < MaxTries THEN @ + 1 ELSE @]
      BY <2>7 DEF Work
    <3>2. r \in Run /\ r.task \in Tasks /\ r.slot \in 0..MaxSlot
      BY DEF TypeOK, Run
    <3>3. pc' \in [Workers -> Pc] /\ cur' \in [Workers -> Run]
      BY <3>1, <3>2, GotoTypes DEF Pc
    <3>4. tries' \in [Tasks -> [0..MaxSlot -> 0..MaxTries]]
      BY <3>1, <3>2 DEF TypeOK
    <3> QED
      BY <2>7, <3>3, <3>4 DEF Work, TypeOK, runVars
  <2>8. CASE Complete(w)
    <3>1. pc' \in [Workers -> Pc] /\ cur' \in [Workers -> Run]
      BY <2>8, WorkOnGoes DEF Complete
    <3>2. batch' \in [Workers -> SUBSET Run] /\ late' \in [Workers -> SUBSET Run]
      BY <2>0, <2>8, Drops DEF Complete
    <3> QED
      BY <2>0, <2>8, <3>1, <3>2 DEF Complete, TypeOK, Status
  <2>9. CASE FailAgain(w)
    <3>1. pc' \in [Workers -> Pc] /\ cur' \in [Workers -> Run]
      BY <2>0, <2>9, GotoTypes DEF FailAgain, Pc
    <3>2. batch' \in [Workers -> SUBSET Run] /\ late' \in [Workers -> SUBSET Run]
      BY <2>0, <2>9, Drops DEF FailAgain
    <3> QED
      BY <2>0, <2>9, <3>1, <3>2 DEF FailAgain, TypeOK, Status
  <2>10. CASE InsertRetry(w)
    <3>1. Retry(cur[w]) \in Run
      BY <2>0, <2>10, Keys DEF InsertRetry, Held
    <3>2. pc' \in [Workers -> Pc] /\ cur' \in [Workers -> Run]
      BY <2>10, WorkOnGoes DEF InsertRetry
    <3>3. status' \in [Run -> Status] /\ due' \in [Run -> BOOLEAN] /\ expired' = expired
      BY <3>1, <2>10, Inserts DEF InsertRetry
    <3> QED
      BY <2>10, <3>2, <3>3 DEF InsertRetry, TypeOK
  <2>11. CASE FailLast(w)
    <3>1. pc' \in [Workers -> Pc] /\ cur' \in [Workers -> Run]
      BY <2>11, WorkOnGoes DEF FailLast
    <3>2. batch' \in [Workers -> SUBSET Run] /\ late' \in [Workers -> SUBSET Run]
      BY <2>0, <2>11, Drops DEF FailLast
    <3> QED
      BY <2>11, <3>1, <3>2 DEF FailLast, TypeOK, runVars
  <2> QED
    BY <1>5, <2>1, <2>2, <2>3, <2>4, <2>5, <2>6, <2>7, <2>8, <2>9, <2>10, <2>11 DEF Poll
<1>6. ASSUME NEW w \in Workers, UpsertFails(w) PROVE TypeOK'
  BY <1>6 DEF UpsertFails, TypeOK, runVars
<1>7. ASSUME NEW w \in Workers, CompleteIsLost(w) PROVE TypeOK'
  <2>1. pc' \in [Workers -> Pc] /\ cur' \in [Workers -> Run]
    BY <1>7, WorkOnGoes DEF CompleteIsLost
  <2>2. batch' \in [Workers -> SUBSET Run] /\ late' \in [Workers -> SUBSET Run]
    BY <1>7, Drops DEF CompleteIsLost, TypeOK
  <2> QED
    BY <1>7, <2>1, <2>2 DEF CompleteIsLost, TypeOK, runVars
<1>8. ASSUME NEW w \in Workers, Die(w) PROVE TypeOK'
  <2>1. pc' \in [Workers -> Pc] /\ cur' \in [Workers -> Run]
    BY <1>8, Keys, GotoTypes DEF Die, Pc
  <2>2. faults' \in 0..MaxFaults
    BY <1>8 DEF Die, TypeOK
  <2>3. /\ snap' \in [Workers -> SUBSET Run] /\ batch' \in [Workers -> SUBSET Run]
        /\ late' \in [Workers -> SUBSET Run]
    BY <1>8 DEF Die, TypeOK
  <2> QED
    BY <1>8, <2>1, <2>2, <2>3 DEF Die, TypeOK, runVars
<1>9. CASE UNCHANGED vars
  BY <1>9 DEF TypeOK, vars, runVars, workerVars
<1> QED
  BY <1>1, <1>2, <1>3, <1>4, <1>5, <1>6, <1>7, <1>8, <1>9 DEF Next

-----------------------------------------------------------------------------
(* The schedule and the claims.                                            *)

LEMMA InvInit == Init => NoSlotSkipped /\ Snapshots /\ Held /\ OneHolder
BY DEF Init, NoSlotSkipped, Snapshots, Held, OneHolder, Holders

(* A claim takes pending rows, which nobody holds who is within his lease. *)
LEMMA ClaimKeeps ==
  ASSUME IInv, NEW w \in Workers, Claim(w)
  PROVE  NoSlotSkipped' /\ Snapshots' /\ Held' /\ OneHolder'
<1> USE DEF IInv
<1>1. PICK S \in SUBSET {r \in Run : Claimable(r)} :
        /\ status'  = [r \in Run |-> IF r \in S THEN "running" ELSE Reclaimed(r)]
        /\ expired' = [r \in Run |-> expired[r] /\ ~Expired(r)]
        /\ batch'   = [batch EXCEPT ![w] = S]
        /\ WorkOn(w, S)
  BY DEF Claim
<1>2. nextRun' = nextRun /\ snap' = snap /\ lapsed' = lapsed /\ pc[w] = "claim"
  BY DEF Claim
<1>3. /\ pc'[w] \in {"idle", "work"}
      /\ \A v \in Workers \ {w} : pc'[v] = pc[v] /\ cur'[v] = cur[v]
  BY <1>1, WorkOnGoes
<1>4. /\ batch'[w] = S
      /\ \A v \in Workers \ {w} : batch'[v] = batch[v]
  BY <1>1 DEF TypeOK
<1>5. RowsStay
  BY <1>1 DEF RowsStay, Reclaimed, Expired
<1>6. NoSnapshot
  BY <1>2, <1>3 DEF NoSnapshot
<1>7. \A r \in Run : r \notin lapsed /\ Holders(r) # {} =>
        r \notin S /\ status[r] = "running" /\ ~expired[r]
  BY <1>1 DEF Held, Holders, Claimable, Reclaimed, Expired
<1>8. \A r \in Run : r \notin lapsed /\ Holders(r) # {} =>
        status'[r] = "running" /\ ~expired'[r]
  BY <1>1, <1>7 DEF Reclaimed, Expired
<1>9. \A r \in Run : ~expired'[r] /\ (r \in S => status'[r] = "running")
  BY <1>1 DEF Expired, Held
<1>10. \A r \in S, v \in Workers : r \in batch'[v] /\ r \notin lapsed => v = w
  BY <1>4, <1>7 DEF Holders, TypeOK
<1>11. OneHolder'
  <2> SUFFICES ASSUME NEW r \in Run, r \notin lapsed,
                      NEW v \in Holders(r)', NEW u \in Holders(r)'
               PROVE  v = u
    BY <1>2 DEF OneHolder
  <2>1. CASE r \in S
    BY <2>1, <1>10 DEF Holders
  <2>2. CASE r \notin S
    <3>1. v \in Holders(r) /\ u \in Holders(r)
      BY <2>2, <1>4 DEF Holders
    <3> QED
      BY <3>1 DEF OneHolder
  <2> QED
    BY <2>1, <2>2
<1>12. Held'
  <2>1. ASSUME NEW v \in Workers, NEW r \in batch'[v], r \notin lapsed
        PROVE  status'[r] = "running"
    <3>1. r \in Run
      BY <1>1, <1>4 DEF TypeOK
    <3>2. CASE r \in S
      BY <3>1, <3>2, <1>9
    <3>3. CASE r \notin S
      BY <2>1, <3>1, <3>3, <1>4, <1>8 DEF Holders
    <3> QED
      BY <3>2, <3>3
  <2>2. \A v \in Workers : batch'[v] \subseteq Run
    BY <1>1, <1>4 DEF TypeOK
  <2>3. \A v \in Workers : /\ pc'[v] = "handler" => cur'[v] \in batch'[v]
                           /\ pc'[v] = "retry"   => ~Last(cur'[v])
    BY <1>3, <1>4 DEF Held
  <2> QED
    BY <1>2, <1>9, <2>1, <2>2, <2>3 DEF Held, Last
<1> QED
  BY <1>2, <1>5, <1>6, <1>11, <1>12, ScheduleKept, SnapshotsKept

(* The steps of a worker that dispose of a run, or change a row of its own.*)
LEMMA DisposeKeeps ==
  ASSUME IInv, NEW w \in Workers, Complete(w) \/ FailAgain(w) \/ FailLast(w) \/ CompleteIsLost(w)
  PROVE  NoSlotSkipped' /\ Snapshots' /\ Held' /\ OneHolder'
<1> USE DEF IInv
<1>1. /\ nextRun' = nextRun /\ snap' = snap /\ lapsed' = lapsed
      /\ pc[w] = "handler" /\ Drop(w, cur[w])
  BY DEF Complete, FailAgain, FailLast, CompleteIsLost, runVars
<1>2. cur[w] \in Run /\ cur[w] \in batch[w]
  BY <1>1 DEF TypeOK, Held
<1>3. /\ pc'[w] \in {"idle", "work", "retry"}
      /\ pc'[w] = "retry" => ~Last(cur[w]) /\ cur'[w] = cur[w]
      /\ \A v \in Workers \ {w} : pc'[v] = pc[v] /\ cur'[v] = cur[v]
  <2>1. CASE FailAgain(w)
    BY <1>2, <2>1, GotoTypes DEF FailAgain, Pc
  <2>2. CASE Complete(w) \/ FailLast(w) \/ CompleteIsLost(w)
    BY <2>2, WorkOnGoes DEF Complete, FailLast, CompleteIsLost
  <2> QED
    BY <2>1, <2>2
<1>4. /\ batch'[w] = batch[w] \ {cur[w]}
      /\ \A v \in Workers \ {w} : batch'[v] = batch[v]
  BY <1>1, <1>2, Drops
<1>5. /\ \A r \in Run \ {cur[w]} : status'[r] = status[r] /\ expired'[r] = expired[r]
      /\ \/ status'[cur[w]] = status[cur[w]] /\ expired'[cur[w]] = expired[cur[w]]
         \/ status'[cur[w]] # "none" /\ ~expired'[cur[w]]
  BY <1>2 DEF Complete, FailAgain, FailLast, CompleteIsLost, runVars, TypeOK
<1>6. RowsStay
  BY <1>2, <1>5 DEF RowsStay
<1>7. NoSnapshot
  BY <1>1, <1>3 DEF NoSnapshot
<1>8. ASSUME NEW v \in Workers, NEW r \in batch'[v], r \notin lapsed,
             status[r] = "running", ~expired[r]
      PROVE  status'[r] = "running" /\ ~expired'[r]
  <2>1. r \in Run /\ r \in batch[v]
    BY <1>4 DEF TypeOK
  <2>2. r # cur[w]
    BY <1>2, <1>4, <1>8, <2>1 DEF OneHolder, Holders
  <2> QED
    BY <1>5, <1>8, <2>1, <2>2
<1>9. ClaimsStay
  <2>1. \A v \in Workers : batch'[v] \subseteq batch[v]
    BY <1>4
  <2>2. \A r \in Run : expired'[r] => status'[r] = "running"
    BY <1>5 DEF Held
  <2> QED
    BY <1>1, <1>8, <2>1, <2>2 DEF ClaimsStay
<1>10. /\ OneHolder'
       /\ \A v \in Workers : \A r \in batch'[v] :
            r \notin lapsed' => status'[r] = "running" /\ ~expired'[r]
  BY <1>9, ClaimsKept
<1>11. \A v \in Workers : /\ pc'[v] = "handler" => cur'[v] \in batch'[v]
                          /\ pc'[v] = "retry"   => ~Last(cur'[v])
  BY <1>3, <1>4 DEF Held
<1>12. Held'
  BY <1>9, <1>10, <1>11 DEF Held, ClaimsStay, Last
<1> QED
  BY <1>1, <1>6, <1>7, <1>10, <1>12, ScheduleKept, SnapshotsKept

(* The steps of the schedule: claims and rows stay, a row may be inserted. *)
LEMMA CreateKeeps ==
  ASSUME IInv, NEW w \in Workers, NEW t \in Tasks, Create(w, t)
  PROVE  NoSlotSkipped' /\ Snapshots' /\ Held' /\ OneHolder'
<1> USE DEF IInv
<1>1. /\ pc'[w] = "created" /\ cur'[w] = First(t, 0)
      /\ \A v \in Workers \ {w} : pc'[v] = pc[v] /\ cur'[v] = cur[v]
  BY Keys, GotoTypes DEF Create, Pc
<1>2. UNCHANGED <<runVars, snap, batch, lapsed>>
  BY DEF Create
<1>3. NoSlotSkipped'
  BY <1>2 DEF Create, NoSlotSkipped, TypeOK, runVars
<1>4. Snapshots'
  BY <1>1, <1>2, Keys DEF Snapshots, runVars
<1>5. ClaimsStay /\ NoWorkerTakes
  BY <1>1, <1>2 DEF ClaimsStay, NoWorkerTakes, Held, runVars
<1> QED
  BY <1>3, <1>4, <1>5, HeldKept

LEMMA SnapshotKeeps ==
  ASSUME IInv, NEW w \in Workers, Snapshot(w)
  PROVE  NoSlotSkipped' /\ Snapshots' /\ Held' /\ OneHolder'
<1> USE DEF IInv
<1>1. /\ pc'[w] = "enqueue" /\ cur' = cur
      /\ \A v \in Workers \ {w} : pc'[v] = pc[v] /\ snap'[v] = snap[v]
      /\ snap'[w] = {First(t, nextRun[t]) : t \in DueTasks}
  BY DEF Snapshot, TypeOK
<1>2. UNCHANGED <<nextRun, runVars, batch, lapsed>>
  BY DEF Snapshot
<1>3. NoSlotSkipped' /\ RowsStay
  BY <1>2 DEF NoSlotSkipped, RowsStay, runVars
<1>4. ASSUME NEW r \in snap'[w]
      PROVE  /\ r = First(r.task, r.slot)
             /\ \A s \in 1..(r.slot - 1) : status[First(r.task, s)] # "none"
  <2>1. PICK t \in Tasks : /\ r = First(t, nextRun[t]) /\ nextRun[t] \in 1..clock
    BY <1>1 DEF DueTasks
  <2>2. nextRun[t] \in 1..MaxSlot
    BY <2>1 DEF TypeOK
  <2>3. r.task = t /\ r.slot = nextRun[t]
    BY <2>1, <2>2, Keys
  <2>4. \A s \in 1..(r.slot - 1) : s \in 1..MaxSlot /\ s < nextRun[t]
    BY <2>2, <2>3
  <2> QED
    BY <2>1, <2>3, <2>4 DEF NoSlotSkipped
<1>5. Snapshots'
  BY <1>1, <1>2, <1>4 DEF Snapshots, runVars
<1>6. ClaimsStay /\ NoWorkerTakes
  BY <1>1, <1>2 DEF ClaimsStay, NoWorkerTakes, Held, runVars
<1> QED
  BY <1>3, <1>5, <1>6, HeldKept

(* An insertion keeps what is known of rows and claims.                    *)
LEMMA InsertKeeps ==
  ASSUME TypeOK, Held, NEW r \in Run, NEW d \in BOOLEAN, Insert(r, d),
         batch' = batch, lapsed' = lapsed
  PROVE  RowsStay /\ ClaimsStay
<1>1. /\ status'[r] # "none" /\ expired' = expired
      /\ \A q \in Run : status[q] # "none" => status'[q] = status[q]
  BY Inserts
<1>2. \A q \in Run : status[q] = "running" => status'[q] = "running"
  BY <1>1
<1>3. \A w \in Workers : batch[w] \subseteq Run
  BY DEF TypeOK
<1> QED
  BY <1>1, <1>2, <1>3 DEF RowsStay, ClaimsStay, Held

LEMMA EnqueueKeeps ==
  ASSUME IInv, NEW w \in Workers, Enqueue(w)
  PROVE  NoSlotSkipped' /\ Snapshots' /\ Held' /\ OneHolder'
<1> USE DEF IInv
<1>1. PICK r \in snap[w] : /\ Insert(r, TRUE)
                           /\ snap' = [snap EXCEPT ![w] = @ \ {r}]
                           /\ Goto(w, "advance", r)
  BY DEF Enqueue
<1>2. r \in Run
  BY DEF TypeOK
<1>3. /\ pc'[w] = "advance" /\ cur'[w] = r
      /\ \A v \in Workers \ {w} : pc'[v] = pc[v] /\ cur'[v] = cur[v]
  BY <1>1, <1>2, GotoTypes DEF Pc
<1>4. UNCHANGED <<nextRun, batch, lapsed>>
  BY DEF Enqueue
<1>5. RowsStay /\ ClaimsStay
  BY <1>1, <1>2, <1>4, InsertKeeps
<1>6. status'[r] # "none"
  BY <1>1, <1>2, Inserts
<1>7. /\ snap'[w] \cup {r} \subseteq snap[w]
      /\ \A v \in Workers \ {w} : snap'[v] = snap[v]
  BY <1>1 DEF TypeOK
<1>8. Snapshots'
  <2> SUFFICES ASSUME NEW v \in Workers
               PROVE  /\ \A q \in snap'[v] : q = First(q.task, q.slot)
                      /\ pc'[v] = "created" => cur'[v] = First(cur'[v].task, 0)
                      /\ pc'[v] = "advance" => /\ cur'[v] = First(cur'[v].task, cur'[v].slot)
                                               /\ status'[cur'[v]] # "none"
                      /\ \A q \in snap'[v] \cup IF pc'[v] = "advance" THEN {cur'[v]} ELSE {} :
                           \A s \in 1..(q.slot - 1) : status'[First(q.task, s)] # "none"
    BY DEF Snapshots
  <2>1. ASSUME NEW q \in snap'[v] \cup IF pc'[v] = "advance" THEN {cur'[v]} ELSE {},
               NEW s \in 1..(q.slot - 1)
        PROVE  status'[First(q.task, s)] # "none"
    <3>1. q \in snap[v] \cup IF pc[v] = "advance" THEN {cur[v]} ELSE {}
      BY <1>3, <1>7
    <3>0. q \in Run
      BY <3>1 DEF TypeOK
    <3>2. q \in Run /\ q.task \in Tasks /\ s \in 0..MaxSlot
      BY <3>0 DEF Run
    <3>3. status[First(q.task, s)] # "none" /\ First(q.task, s) \in Run
      BY <3>1, <3>2, Keys DEF Snapshots
    <3> QED
      BY <3>3, <1>5 DEF RowsStay
  <2>2. cur[v] \in Run
    BY DEF TypeOK
  <2> QED
    BY <1>3, <1>5, <1>6, <1>7, <2>1, <2>2 DEF Snapshots, RowsStay
<1>9. NoWorkerTakes
  BY <1>3, <1>4 DEF NoWorkerTakes, Held
<1> QED
  BY <1>4, <1>5, <1>8, <1>9, ScheduleKept, HeldKept

(* next_run_at moves past a slot that is enqueued, as are those before it. *)
LEMMA AdvanceKeeps ==
  ASSUME IInv, NEW w \in Workers, Advance(w)
  PROVE  NoSlotSkipped' /\ Snapshots' /\ Held' /\ OneHolder'
<1> USE DEF IInv
<1>1. /\ pc[w] = "advance" /\ Goto(w, "enqueue", NoRun)
      /\ nextRun' = [nextRun EXCEPT ![cur[w].task] = cur[w].slot + 1]
      /\ UNCHANGED <<runVars, snap, batch, lapsed>>
  BY DEF Advance, NextSlot
<1>2. /\ pc'[w] = "enqueue"
      /\ \A v \in Workers \ {w} : pc'[v] = pc[v] /\ cur'[v] = cur[v]
  BY <1>1, Keys, GotoTypes DEF Pc
<1>3. cur[w] \in Run /\ cur[w].task \in Tasks /\ cur[w].slot \in 0..MaxSlot
  BY DEF TypeOK, Run
<1>4. NoSlotSkipped'
  <2> SUFFICES ASSUME NEW t \in Tasks, NEW s \in 1..MaxSlot, s < nextRun'[t]
               PROVE  status[First(t, s)] # "none"
    BY <1>1 DEF NoSlotSkipped, runVars
  <2>1. CASE t # cur[w].task
    BY <2>1, <1>1 DEF NoSlotSkipped, TypeOK
  <2>2. CASE t = cur[w].task
    <3>1. s < cur[w].slot + 1
      BY <2>2, <1>1, <1>3 DEF TypeOK
    <3>2. CASE s = cur[w].slot
      BY <3>2, <2>2, <1>1 DEF Snapshots
    <3>3. CASE s # cur[w].slot
      <4>1. s \in 1..(cur[w].slot - 1)
        BY <3>1, <3>3, <1>3
      <4> QED
        BY <4>1, <2>2, <1>1 DEF Snapshots
    <3> QED
      BY <3>2, <3>3
  <2> QED
    BY <2>1, <2>2
<1>5. RowsStay /\ NoSnapshot /\ ClaimsStay /\ NoWorkerTakes
  BY <1>1, <1>2 DEF RowsStay, NoSnapshot, ClaimsStay, NoWorkerTakes, Held, runVars
<1> QED
  BY <1>4, <1>5, SnapshotsKept, HeldKept

(* The other steps neither dispose of a run nor touch the schedule.        *)
LEMMA OthersKeep ==
  ASSUME IInv, nextRun' = nextRun, RowsStay, NoSnapshot, ClaimsStay, NoWorkerTakes
  PROVE  NoSlotSkipped' /\ Snapshots' /\ Held' /\ OneHolder'
BY ScheduleKept, SnapshotsKept, HeldKept DEF IInv

LEMMA InvStep == IInv /\ [Next]_vars => NoSlotSkipped' /\ Snapshots' /\ Held' /\ OneHolder'
<1> SUFFICES ASSUME IInv, [Next]_vars
             PROVE  NoSlotSkipped' /\ Snapshots' /\ Held' /\ OneHolder'
  OBVIOUS
<1> DEFINE Goal == NoSlotSkipped' /\ Snapshots' /\ Held' /\ OneHolder'
<1> USE DEF IInv
<1>0. \A w \in Workers : batch[w] \subseteq Run /\ cur[w] \in Run
  BY DEF TypeOK
<1>1. ASSUME Tick \/ UNCHANGED vars PROVE Goal
  <2>1. UNCHANGED <<nextRun, runVars, workerVars, lapsed>>
    BY <1>1 DEF Tick, vars
  <2>2. RowsStay /\ NoSnapshot /\ ClaimsStay /\ NoWorkerTakes
    BY <2>1 DEF RowsStay, NoSnapshot, ClaimsStay, NoWorkerTakes, Held, runVars, workerVars
  <2> QED
    BY <2>1, <2>2, OthersKeep
<1>2. ASSUME NEW r \in Run, Due(r) PROVE Goal
  <2>1. UNCHANGED <<nextRun, status, expired, workerVars, lapsed>>
    BY <1>2 DEF Due
  <2>2. RowsStay /\ NoSnapshot /\ ClaimsStay /\ NoWorkerTakes
    BY <2>1 DEF RowsStay, NoSnapshot, ClaimsStay, NoWorkerTakes, Held, workerVars
  <2> QED
    BY <2>1, <2>2, OthersKeep
<1>3. ASSUME NEW r \in Run, Expire(r) PROVE Goal
  <2>1. /\ UNCHANGED <<nextRun, status, pc, snap, cur, batch>>
        /\ status[r] = "running" /\ lapsed \subseteq lapsed'
    BY <1>3 DEF Expire
  <2>2. RowsStay /\ NoSnapshot /\ NoWorkerTakes
    BY <2>1 DEF RowsStay, NoSnapshot, NoWorkerTakes, Held
  <2>3. \A q \in Run : expired'[q] = (expired[q] \/ q = r)
    BY <1>3 DEF Expire, TypeOK
  <2>4. \A w \in Workers : r \in batch[w] => r \in lapsed'
    BY <1>3 DEF Expire, Holders
  <2>5. ClaimsStay
    BY <1>0, <2>1, <2>3, <2>4 DEF ClaimsStay, Held
  <2> QED
    BY <2>1, <2>2, <2>5, OthersKeep
<1>4. ASSUME NEW w \in Workers, NEW t \in Tasks, Create(w, t) PROVE Goal
  BY <1>4, CreateKeeps
<1>5. ASSUME NEW w \in Workers, CreateInitial(w) PROVE Goal
  <2>1. /\ Insert(cur[w], FALSE) /\ Goto(w, "idle", NoRun)
        /\ UNCHANGED <<nextRun, snap, batch, lapsed>>
    BY <1>5 DEF CreateInitial
  <2>2. /\ pc'[w] = "idle"
        /\ \A v \in Workers \ {w} : pc'[v] = pc[v] /\ cur'[v] = cur[v]
    BY <2>1, Keys, GotoTypes DEF Pc
  <2>3. RowsStay /\ ClaimsStay
    BY <1>0, <2>1, InsertKeeps
  <2>4. NoSnapshot /\ NoWorkerTakes
    BY <2>1, <2>2 DEF NoSnapshot, NoWorkerTakes, Held
  <2> QED
    BY <2>1, <2>3, <2>4, OthersKeep
<1>6. ASSUME NEW w \in Workers, Enqueued(w) PROVE Goal
  <2>1. /\ UNCHANGED <<nextRun, runVars, snap, cur, batch, lapsed>>
        /\ pc' = [pc EXCEPT ![w] = "claim"]
    BY <1>6 DEF Enqueued
  <2>2. RowsStay /\ NoSnapshot /\ ClaimsStay /\ NoWorkerTakes
    BY <2>1 DEF RowsStay, NoSnapshot, ClaimsStay, NoWorkerTakes, Held, runVars, TypeOK
  <2> QED
    BY <2>1, <2>2, OthersKeep
<1>7. ASSUME NEW w \in Workers, Work(w) PROVE Goal
  <2>1. PICK r \in batch[w] : Goto(w, "handler", r)
    BY <1>7 DEF Work
  <2>2. /\ pc'[w] = "handler" /\ cur'[w] = r
        /\ \A v \in Workers \ {w} : pc'[v] = pc[v] /\ cur'[v] = cur[v]
    BY <1>0, <2>1, GotoTypes DEF Pc
  <2>3. UNCHANGED <<nextRun, runVars, snap, batch, lapsed>>
    BY <1>7 DEF Work
  <2>4. RowsStay /\ NoSnapshot /\ ClaimsStay
    BY <2>2, <2>3 DEF RowsStay, NoSnapshot, ClaimsStay, Held, runVars
  <2>5. \A v \in Workers : /\ pc'[v] = "handler" => cur'[v] \in batch'[v]
                           /\ pc'[v] = "retry"   => ~Last(cur'[v])
    BY <2>2, <2>3 DEF Held
  <2>6. Held' /\ OneHolder'
    BY <2>4, <2>5, ClaimsKept DEF Held, ClaimsStay, Last
  <2> QED
    BY <2>3, <2>4, <2>6, ScheduleKept, SnapshotsKept
<1>8. ASSUME NEW w \in Workers, InsertRetry(w) PROVE Goal
  <2>1. /\ Insert(Retry(cur[w]), FALSE) /\ WorkOn(w, batch[w]) /\ ~Last(cur[w])
        /\ UNCHANGED <<nextRun, snap, batch, lapsed>>
    BY <1>8 DEF InsertRetry, Held
  <2>2. /\ pc'[w] \in {"idle", "work"}
        /\ \A v \in Workers \ {w} : pc'[v] = pc[v] /\ cur'[v] = cur[v]
    BY <2>1, WorkOnGoes
  <2>3. Retry(cur[w]) \in Run
    BY <1>0, <2>1, Keys
  <2>4. RowsStay /\ ClaimsStay
    BY <2>1, <2>3, InsertKeeps
  <2>5. NoSnapshot /\ NoWorkerTakes
    BY <2>1, <2>2 DEF NoSnapshot, NoWorkerTakes, Held
  <2> QED
    BY <2>1, <2>4, <2>5, OthersKeep
<1>9. ASSUME NEW w \in Workers, UpsertFails(w) PROVE Goal
  <2>1. /\ UNCHANGED <<nextRun, runVars, pc, cur, batch, lapsed>>
        /\ \E r \in snap[w] : snap' = [snap EXCEPT ![w] = @ \ {r}]
    BY <1>9 DEF UpsertFails
  <2>2. \A v \in Workers : snap'[v] \subseteq snap[v]
    BY <2>1 DEF TypeOK
  <2>3. RowsStay /\ NoSnapshot /\ ClaimsStay /\ NoWorkerTakes
    BY <2>1, <2>2 DEF RowsStay, NoSnapshot, ClaimsStay, NoWorkerTakes, Held, runVars
  <2> QED
    BY <2>1, <2>3, OthersKeep
<1>10. ASSUME NEW w \in Workers, Die(w) PROVE Goal
  <2>1. /\ UNCHANGED <<nextRun, runVars, lapsed>> /\ Goto(w, "idle", NoRun)
        /\ \A v \in Workers : snap'[v] \subseteq snap[v]
        /\ \A v \in Workers \ {w} : batch'[v] = batch[v]
        /\ batch'[w] = {}
    BY <1>10 DEF Die, TypeOK
  <2>2. /\ pc'[w] = "idle"
        /\ \A v \in Workers \ {w} : pc'[v] = pc[v] /\ cur'[v] = cur[v]
    BY <2>1, Keys, GotoTypes DEF Pc
  <2>3. RowsStay /\ NoSnapshot /\ ClaimsStay /\ NoWorkerTakes
    BY <2>1, <2>2 DEF RowsStay, NoSnapshot, ClaimsStay, NoWorkerTakes, Held, runVars
  <2> QED
    BY <2>1, <2>3, OthersKeep
<1> QED
  BY <1>1, <1>2, <1>3, <1>4, <1>5, <1>6, <1>7, <1>8, <1>9, <1>10,
     SnapshotKeeps, EnqueueKeeps, AdvanceKeeps, ClaimKeeps, DisposeKeeps DEF Next, Poll

-----------------------------------------------------------------------------
(* The theorems.                                                           *)

(***************************************************************************)
(* The queue keeps its inductive invariant: for any number of workers,     *)
(* tasks, slots, attempts and faults.                                      *)
(***************************************************************************)
THEOREM Invariance == Spec => []IInv
<1>1. Init => IInv
  BY TypeInit, InvInit DEF IInv
<1>2. IInv /\ [Next]_vars => IInv'
  BY TypeStep, InvStep DEF IInv
<1> QED
  BY <1>1, <1>2, PTL DEF Spec

(* The schedule never moves past a slot whose run is not in the table.     *)
THEOREM ScheduleSkipsNothing == Spec => []NoSlotSkipped
<1>1. IInv => NoSlotSkipped
  BY DEF IInv
<1> QED
  BY <1>1, Invariance, PTL

(* A run whose lease no worker outlives is in the hands of one at most.    *)
THEOREM RunsAreExclusive == Spec => []OneHolder
<1>1. IInv => OneHolder
  BY DEF IInv
<1> QED
  BY <1>1, Invariance, PTL

(***************************************************************************)
(* A completed or failed run whose lease no worker outlives stays as it    *)
(* is: nobody holds it, and a claim passes it over.                        *)
(***************************************************************************)
THEOREM OverIsFinal == Spec => OverStaysOver
<1> DEFINE Over(r) == status[r] \in {"completed", "failed"} /\ r \notin lapsed
<1>1. ASSUME IInv, [Next]_vars, NEW r \in Run, Over(r)
      PROVE  status'[r] = status[r]
  <2> USE DEF IInv
  <2>1. \A w \in Workers : r \notin batch[w]
    BY <1>1 DEF Held
  <2>2. \A w \in Workers : pc[w] = "handler" => cur[w] # r /\ cur[w] \in Run
    BY <1>1, <2>1 DEF Held, TypeOK
  <2>3. ASSUME NEW q \in Run, NEW d \in BOOLEAN, Insert(q, d)
        PROVE  status'[r] = status[r]
    BY <1>1, <2>3, Inserts
  <2>4. \A w \in Workers : Complete(w) \/ FailAgain(w) => status'[r] = status[r]
    BY <1>1, <2>2 DEF Complete, FailAgain, TypeOK
  <2>5. \A w \in Workers : Claim(w) => status'[r] = status[r]
    BY <1>1 DEF Claim, Claimable, Reclaimed, Expired
  <2>6. \A w \in Workers : CreateInitial(w) => status'[r] = status[r]
    BY <2>3, <1>1 DEF CreateInitial, TypeOK
  <2>7. \A w \in Workers : Enqueue(w) => status'[r] = status[r]
    BY <2>3, <1>1 DEF Enqueue, TypeOK
  <2>8. ASSUME NEW w \in Workers, InsertRetry(w) PROVE status'[r] = status[r]
    <3>1. cur[w] \in Run /\ ~Last(cur[w])
      BY <1>1, <2>8 DEF InsertRetry, Held, TypeOK
    <3> QED
      BY <2>3, <2>8, <3>1, Keys DEF InsertRetry
  <2>9. \/ status' = status
        \/ \E w \in Workers : \/ Complete(w) \/ FailAgain(w) \/ Claim(w)
                             \/ CreateInitial(w) \/ Enqueue(w) \/ InsertRetry(w)
    BY <1>1 DEF Next, Poll, Tick, Due, Expire, Create, Snapshot, Advance, Enqueued, Work,
       FailLast, UpsertFails, CompleteIsLost, Die, vars, runVars
  <2> QED
    BY <2>4, <2>5, <2>6, <2>7, <2>8, <2>9
<1>2. IInv /\ [Next]_vars
        => [\A r \in Run : Over(r) => status'[r] = status[r]]_vars
  BY <1>1
<1>3. [\A r \in Run : Over(r) => status'[r] = status[r]]_vars
        => [\A r \in Run : /\ status[r] \in {"completed", "failed"}
                           /\ r \notin lapsed
                           => status'[r] = status[r]]_vars
  OBVIOUS
<1> QED
  BY <1>2, <1>3, Invariance, PTL DEF Spec, OverStaysOver

================================================================================
