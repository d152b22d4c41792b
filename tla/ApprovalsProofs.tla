--------------------------- MODULE ApprovalsProofs ---------------------------
(***************************************************************************)
(* Proofs about the approval bus, for every set of rows and sessions, every *)
(* lease, time to live and bound.                                          *)
(***************************************************************************)
EXTENDS Approvals, TLAPS, FiniteSetTheorems

USE DEF Null

(***************************************************************************)
(* Initially every row is absent and every session idle: the type          *)
(* invariant of the approval bus holds.                                    *)
(***************************************************************************)
LEMMA InitTypeOK == Init => TypeOK
BY TypesAssumption DEF Init, TypeOK, Status, Pc

(***************************************************************************)
(* No step of the approval bus takes a variable out of its type.           *)
(***************************************************************************)
LEMMA NextTypeOK == TypeOK /\ [Next]_vars => TypeOK'
<1> SUFFICES ASSUME TypeOK, [Next]_vars PROVE TypeOK'
  OBVIOUS
<1> USE TimeAssumption DEF TypeOK, rowVars, sessVars, Goto, Finish
<1>1. CASE Tick
  BY <1>1 DEF Tick
<1>2. ASSUME NEW a \in Approvals, Create(a) PROVE TypeOK'
  BY <1>2 DEF Create, Status, Final
<1>3. ASSUME NEW s \in Sessions, NEW a \in Approvals,
             NEW d \in {"approve", "reject"}, Fetch(s, a, d)
      PROVE TypeOK'
  BY <1>3 DEF Fetch, Pc
<1>4. ASSUME NEW s \in Sessions, Step(s) PROVE TypeOK'
  <2>1. CASE Recover(s)
    <3>1. CASE CanRecover(s)
      <4>1. /\ status'     = [status EXCEPT ![item[s]] = "pending"]
            /\ consumedAt' = [consumedAt EXCEPT ![item[s]] = 0]
            /\ recovered'  = [recovered EXCEPT ![item[s]] = TRUE]
            /\ pc' = [pc EXCEPT ![s] = "auditRecovered"]
            /\ UNCHANGED <<now, kind, required, expiresAt, execId, lastExec,
                           effects, audit, item, act, at, exec>>
        BY <2>1, <3>1 DEF Recover
      <4>2. recovered' \in [Approvals -> BOOLEAN]
        BY <4>1
      <4>3. QED
        BY <4>1, <4>2 DEF Pc, Status
    <3>2. CASE ~CanRecover(s)
      BY <2>1, <3>2 DEF Recover, Pc
    <3>3. QED
      BY <3>1, <3>2
  <2>2. CASE AuditRecovered(s)
    BY <2>2 DEF AuditRecovered, WriteAudit, Audited, Pc
  <2>3. CASE Check(s)
    BY <2>3 DEF Check, Pc
  <2>4. CASE Expire(s)
    BY <2>4 DEF Expire, CasPending, Pc, Status, Final
  <2>5. CASE Reject(s)
    BY <2>5 DEF Reject, CasPending, Pc, Status, Final
  <2>6. CASE Claim(s)
    <3>1. CASE StillPending(s)
      BY <2>6, <3>1 DEF Claim, Pc, Status
    <3>2. CASE ~StillPending(s)
      BY <2>6, <3>2 DEF Claim, Pc
    <3>3. QED
      BY <3>1, <3>2
  <2>7. CASE AuditApproved(s)
    BY <2>7 DEF AuditApproved, WriteAudit, Audited, Pc
  <2>8. CASE Run(s)
    <3>1. EffectKey(kind[item[s]], exec[s]) \in Nat
      BY <1>4 DEF EffectKey
    <3>2. QED
      BY <2>8, <3>1 DEF Run, Pc
  <2>9. CASE Persist(s)
    BY <2>9 DEF Persist, CasOwned, Pc, Status, Final
  <2>10. CASE Fail(s)
    BY <2>10 DEF Fail, CasOwned, Pc, Status, Final
  <2>11. CASE AuditOutcome(s)
    BY <2>11 DEF AuditOutcome, WriteAudit, Audited, Pc
  <2> QED
    BY <1>4, <2>1, <2>2, <2>3, <2>4, <2>5, <2>6, <2>7, <2>8, <2>9, <2>10, <2>11
    DEF Step
<1>5. ASSUME NEW s \in Sessions, Crash(s) PROVE TypeOK'
  BY <1>5 DEF Crash, Pc
<1>6. CASE UNCHANGED vars
  BY <1>6 DEF vars
<1> QED
  BY <1>1, <1>2, <1>3, <1>4, <1>5, <1>6 DEF Next

(***************************************************************************)
(* Type correctness of the approval bus for every instance.                *)
(***************************************************************************)
THEOREM TypeCorrect == Spec => []TypeOK
BY InitTypeOK, NextTypeOK, PTL DEF Spec

(***************************************************************************)
(* No step takes the row away from a session that works on it.             *)
(***************************************************************************)
LEMMA NextWorksOnRow ==
  IInv /\ [Next]_vars => WorksOnRow'
<1> SUFFICES ASSUME IInv, [Next]_vars PROVE WorksOnRow'
  OBVIOUS
<1> USE TimeAssumption DEF WorksOnRow, TypeOK, Final, Status, rowVars, sessVars, Goto, Finish
<1>1. CASE Tick
  BY <1>1 DEF IInv, Tick
<1>2. ASSUME NEW a \in Approvals, Create(a) PROVE WorksOnRow'
  BY <1>2 DEF IInv, Create
<1>3. ASSUME NEW s \in Sessions, NEW a \in Approvals,
             NEW d \in {"approve", "reject"}, Fetch(s, a, d)
      PROVE WorksOnRow'
  BY <1>3 DEF IInv, Fetch, LeaseExpired
<1>4. ASSUME NEW s \in Sessions, Step(s) PROVE WorksOnRow'
  <2>1. CASE Recover(s)
    BY <2>1 DEF IInv, Recover, CanRecover, LeaseExpired
  <2>2. CASE AuditRecovered(s)
    BY <2>2 DEF IInv, AuditRecovered, WriteAudit
  <2>3. CASE Check(s)
    BY <2>3 DEF IInv, Check, Expired
  <2>4. CASE Expire(s)
    BY <2>4 DEF IInv, Expire, CasPending, StillPending
  <2>5. CASE Reject(s)
    BY <2>5 DEF IInv, Reject, CasPending, StillPending
  <2>6. CASE Claim(s)
    BY <2>6 DEF IInv, Claim, StillPending
  <2>7. CASE AuditApproved(s)
    BY <2>7 DEF IInv, AuditApproved, WriteAudit
  <2>8. CASE Run(s)
    BY <2>8 DEF IInv, Run
  <2>9. CASE Persist(s)
    BY <2>9 DEF IInv, Persist, CasOwned
  <2>10. CASE Fail(s)
    BY <2>10 DEF IInv, Fail, CasOwned
  <2>11. CASE AuditOutcome(s)
    BY <2>11 DEF IInv, AuditOutcome, WriteAudit
  <2> QED
    BY <1>4, <2>1, <2>2, <2>3, <2>4, <2>5, <2>6, <2>7, <2>8,
       <2>9, <2>10, <2>11 DEF Step
<1>5. ASSUME NEW s \in Sessions, Crash(s) PROVE WorksOnRow'
  BY <1>5 DEF IInv, Crash
<1>6. CASE UNCHANGED vars
  BY <1>6 DEF IInv, vars
<1> QED
  BY <1>1, <1>2, <1>3, <1>4, <1>5, <1>6 DEF Next

(***************************************************************************)
(* Execution ids stay unique, and below the last one drawn.                *)
(***************************************************************************)
LEMMA NextExecutionIds ==
  IInv /\ [Next]_vars => ExecutionIds'
<1> SUFFICES ASSUME IInv, [Next]_vars PROVE ExecutionIds'
  OBVIOUS
<1> USE TimeAssumption DEF ExecutionIds, Executing, WorksOnRow, TypeOK, OwnsRow, rowVars, sessVars, Goto, Finish
<1>1. CASE Tick
  BY <1>1 DEF IInv, Tick
<1>2. ASSUME NEW a \in Approvals, Create(a) PROVE ExecutionIds'
  BY <1>2 DEF IInv, Create
<1>3. ASSUME NEW s \in Sessions, NEW a \in Approvals,
             NEW d \in {"approve", "reject"}, Fetch(s, a, d)
      PROVE ExecutionIds'
  BY <1>3 DEF IInv, Fetch, LeaseExpired
<1>4. ASSUME NEW s \in Sessions, Step(s) PROVE ExecutionIds'
  <2>1. CASE Recover(s)
    BY <2>1 DEF IInv, Recover, CanRecover, LeaseExpired
  <2>2. CASE AuditRecovered(s)
    BY <2>2 DEF IInv, AuditRecovered, WriteAudit
  <2>3. CASE Check(s)
    BY <2>3 DEF IInv, Check, Expired
  <2>4. CASE Expire(s)
    BY <2>4 DEF IInv, Expire, CasPending, StillPending
  <2>5. CASE Reject(s)
    BY <2>5 DEF IInv, Reject, CasPending, StillPending
  <2>6. CASE Claim(s)
    <3>1. CASE StillPending(s)
      <4>1. /\ lastExec' = lastExec + 1
            /\ exec' = [exec EXCEPT ![s] = lastExec + 1]
            /\ execId' = [execId EXCEPT ![item[s]] = lastExec + 1]
            /\ status' = [status EXCEPT ![item[s]] = "executing"]
            /\ pc' = [pc EXCEPT ![s] = "auditApproved"]
            /\ item' = item
        BY <2>6, <3>1 DEF Claim
      <4>2. ASSUME NEW t \in Sessions, NEW u \in Sessions,
                   Executing(t)', Executing(u)', exec'[t] = exec'[u]
            PROVE t = u
        BY <4>1, <4>2 DEF IInv
      <4>3. QED
        BY <4>1, <4>2 DEF IInv
    <3>2. CASE ~StillPending(s)
      BY <2>6, <3>2 DEF IInv, Claim
    <3>3. QED
      BY <3>1, <3>2
  <2>7. CASE AuditApproved(s)
    BY <2>7 DEF IInv, AuditApproved, WriteAudit
  <2>8. CASE Run(s)
    BY <2>8 DEF IInv, Run
  <2>9. CASE Persist(s)
    BY <2>9 DEF IInv, Persist, CasOwned
  <2>10. CASE Fail(s)
    BY <2>10 DEF IInv, Fail, CasOwned
  <2>11. CASE AuditOutcome(s)
    BY <2>11 DEF IInv, AuditOutcome, WriteAudit
  <2> QED
    BY <1>4, <2>1, <2>2, <2>3, <2>4, <2>5, <2>6, <2>7, <2>8,
       <2>9, <2>10, <2>11 DEF Step
<1>5. ASSUME NEW s \in Sessions, Crash(s) PROVE ExecutionIds'
  BY <1>5 DEF IInv, Crash
<1>6. CASE UNCHANGED vars
  BY <1>6 DEF IInv, vars
<1> QED
  BY <1>1, <1>2, <1>3, <1>4, <1>5, <1>6 DEF Next

(***************************************************************************)
(* An executor that is not the owner of its row has outlived its lease.    *)
(***************************************************************************)
LEMMA NextOwnerOrStale ==
  IInv /\ [Next]_vars => OwnerOrStale'
<1> SUFFICES ASSUME IInv, [Next]_vars PROVE OwnerOrStale'
  OBVIOUS
<1> USE TimeAssumption DEF OwnerOrStale, ExecutionIds, Executing, WorksOnRow, TypeOK, HoldsLease, OwnsRow, rowVars, sessVars, Goto, Finish
<1>1. CASE Tick
  BY <1>1 DEF IInv, Tick
<1>2. ASSUME NEW a \in Approvals, Create(a) PROVE OwnerOrStale'
  BY <1>2 DEF IInv, Create
<1>3. ASSUME NEW s \in Sessions, NEW a \in Approvals,
             NEW d \in {"approve", "reject"}, Fetch(s, a, d)
      PROVE OwnerOrStale'
  BY <1>3 DEF IInv, Fetch, LeaseExpired
<1>4. ASSUME NEW s \in Sessions, Step(s) PROVE OwnerOrStale'
  <2>1. CASE Recover(s)
    BY <2>1 DEF IInv, Recover, CanRecover, LeaseExpired
  <2>2. CASE AuditRecovered(s)
    BY <2>2 DEF IInv, AuditRecovered, WriteAudit
  <2>3. CASE Check(s)
    BY <2>3 DEF IInv, Check, Expired
  <2>4. CASE Expire(s)
    BY <2>4 DEF IInv, Expire, CasPending, StillPending
  <2>5. CASE Reject(s)
    BY <2>5 DEF IInv, Reject, CasPending, StillPending
  <2>6. CASE Claim(s)
    BY <2>6 DEF IInv, Claim, StillPending
  <2>7. CASE AuditApproved(s)
    BY <2>7 DEF IInv, AuditApproved, WriteAudit
  <2>8. CASE Run(s)
    BY <2>8 DEF IInv, Run
  <2>9. CASE Persist(s)
    BY <2>9 DEF IInv, Persist, CasOwned
  <2>10. CASE Fail(s)
    BY <2>10 DEF IInv, Fail, CasOwned
  <2>11. CASE AuditOutcome(s)
    BY <2>11 DEF IInv, AuditOutcome, WriteAudit
  <2> QED
    BY <1>4, <2>1, <2>2, <2>3, <2>4, <2>5, <2>6, <2>7, <2>8,
       <2>9, <2>10, <2>11 DEF Step
<1>5. ASSUME NEW s \in Sessions, Crash(s) PROVE OwnerOrStale'
  BY <1>5 DEF IInv, Crash
<1>6. CASE UNCHANGED vars
  BY <1>6 DEF IInv, vars
<1> QED
  BY <1>1, <1>2, <1>3, <1>4, <1>5, <1>6 DEF Next

(***************************************************************************)
(* What the control points say stays true until the session moves on.      *)
(***************************************************************************)
LEMMA NextProgress ==
  IInv /\ [Next]_vars => Progress'
<1> SUFFICES ASSUME IInv, [Next]_vars PROVE Progress'
  OBVIOUS
<1> USE TimeAssumption DEF Progress, WorksOnRow, Executing, TypeOK, OwnsRow, rowVars, sessVars, Goto, Finish
<1>1. CASE Tick
  BY <1>1 DEF IInv, Tick
<1>2. ASSUME NEW a \in Approvals, Create(a) PROVE Progress'
  BY <1>2 DEF IInv, Create
<1>3. ASSUME NEW s \in Sessions, NEW a \in Approvals,
             NEW d \in {"approve", "reject"}, Fetch(s, a, d)
      PROVE Progress'
  BY <1>3 DEF IInv, Fetch, LeaseExpired
<1>4. ASSUME NEW s \in Sessions, Step(s) PROVE Progress'
  <2>1. CASE Recover(s)
    BY <2>1 DEF IInv, Recover, CanRecover, LeaseExpired
  <2>2. CASE AuditRecovered(s)
    BY <2>2 DEF IInv, AuditRecovered, WriteAudit
  <2>3. CASE Check(s)
    BY <2>3 DEF IInv, Check, Expired
  <2>4. CASE Expire(s)
    BY <2>4 DEF IInv, Expire, CasPending, StillPending
  <2>5. CASE Reject(s)
    BY <2>5 DEF IInv, Reject, CasPending, StillPending
  <2>6. CASE Claim(s)
    BY <2>6 DEF IInv, Claim, StillPending
  <2>7. CASE AuditApproved(s)
    BY <2>7 DEF IInv, AuditApproved, WriteAudit
  <2>8. CASE Run(s)
    BY <2>8 DEF IInv, Run
  <2>9. CASE Persist(s)
    BY <2>9 DEF IInv, Persist, CasOwned
  <2>10. CASE Fail(s)
    BY <2>10 DEF IInv, Fail, CasOwned
  <2>11. CASE AuditOutcome(s)
    BY <2>11 DEF IInv, AuditOutcome, WriteAudit
  <2> QED
    BY <1>4, <2>1, <2>2, <2>3, <2>4, <2>5, <2>6, <2>7, <2>8,
       <2>9, <2>10, <2>11 DEF Step
<1>5. ASSUME NEW s \in Sessions, Crash(s) PROVE Progress'
  BY <1>5 DEF IInv, Crash
<1>6. CASE UNCHANGED vars
  BY <1>6 DEF IInv, vars
<1> QED
  BY <1>1, <1>2, <1>3, <1>4, <1>5, <1>6 DEF Next

(***************************************************************************)
(* A row without approval stays free of effects and executors.             *)
(***************************************************************************)
LEMMA NextUntouched ==
  IInv /\ [Next]_vars => Untouched'
<1> SUFFICES ASSUME IInv, [Next]_vars PROVE Untouched'
  OBVIOUS
<1> USE TimeAssumption DEF Untouched, Executing, WorksOnRow, TypeOK, OwnsRow, rowVars, sessVars, Goto, Finish
<1>1. CASE Tick
  BY <1>1 DEF IInv, Tick
<1>2. ASSUME NEW a \in Approvals, Create(a) PROVE Untouched'
  BY <1>2 DEF IInv, Create
<1>3. ASSUME NEW s \in Sessions, NEW a \in Approvals,
             NEW d \in {"approve", "reject"}, Fetch(s, a, d)
      PROVE Untouched'
  BY <1>3 DEF IInv, Fetch, LeaseExpired
<1>4. ASSUME NEW s \in Sessions, Step(s) PROVE Untouched'
  <2>1. CASE Recover(s)
    BY <2>1 DEF IInv, Recover, CanRecover, LeaseExpired
  <2>2. CASE AuditRecovered(s)
    BY <2>2 DEF IInv, AuditRecovered, WriteAudit
  <2>3. CASE Check(s)
    BY <2>3 DEF IInv, Check, Expired
  <2>4. CASE Expire(s)
    BY <2>4 DEF IInv, Expire, CasPending, StillPending
  <2>5. CASE Reject(s)
    BY <2>5 DEF IInv, Reject, CasPending, StillPending
  <2>6. CASE Claim(s)
    BY <2>6 DEF IInv, Claim, StillPending
  <2>7. CASE AuditApproved(s)
    BY <2>7 DEF IInv, AuditApproved, WriteAudit
  <2>8. CASE Run(s)
    BY <2>8 DEF IInv, Run
  <2>9. CASE Persist(s)
    BY <2>9 DEF IInv, Persist, CasOwned
  <2>10. CASE Fail(s)
    BY <2>10 DEF IInv, Fail, CasOwned
  <2>11. CASE AuditOutcome(s)
    BY <2>11 DEF IInv, AuditOutcome, WriteAudit
  <2> QED
    BY <1>4, <2>1, <2>2, <2>3, <2>4, <2>5, <2>6, <2>7, <2>8,
       <2>9, <2>10, <2>11 DEF Step
<1>5. ASSUME NEW s \in Sessions, Crash(s) PROVE Untouched'
  BY <1>5 DEF IInv, Crash
<1>6. CASE UNCHANGED vars
  BY <1>6 DEF IInv, vars
<1> QED
  BY <1>1, <1>2, <1>3, <1>4, <1>5, <1>6 DEF Next

(***************************************************************************)
(* A row is claimed anew only after a recovery.                            *)
(***************************************************************************)
LEMMA NextOneExecution ==
  IInv /\ [Next]_vars => OneExecution'
<1> SUFFICES ASSUME IInv, [Next]_vars PROVE OneExecution'
  OBVIOUS
<1> USE TimeAssumption DEF OneExecution, Untouched, ExecutionIds, Executing, TypeOK, rowVars, sessVars, Goto, Finish
<1>1. CASE Tick
  BY <1>1 DEF IInv, Tick
<1>2. ASSUME NEW a \in Approvals, Create(a) PROVE OneExecution'
  BY <1>2 DEF IInv, Create
<1>3. ASSUME NEW s \in Sessions, NEW a \in Approvals,
             NEW d \in {"approve", "reject"}, Fetch(s, a, d)
      PROVE OneExecution'
  BY <1>3 DEF IInv, Fetch, LeaseExpired
<1>4. ASSUME NEW s \in Sessions, Step(s) PROVE OneExecution'
  <2>1. CASE Recover(s)
    BY <2>1 DEF IInv, Recover, CanRecover, LeaseExpired
  <2>2. CASE AuditRecovered(s)
    BY <2>2 DEF IInv, AuditRecovered, WriteAudit
  <2>3. CASE Check(s)
    BY <2>3 DEF IInv, Check, Expired
  <2>4. CASE Expire(s)
    BY <2>4 DEF IInv, Expire, CasPending, StillPending
  <2>5. CASE Reject(s)
    BY <2>5 DEF IInv, Reject, CasPending, StillPending
  <2>6. CASE Claim(s)
    BY <2>6 DEF IInv, Claim, StillPending
  <2>7. CASE AuditApproved(s)
    BY <2>7 DEF IInv, AuditApproved, WriteAudit
  <2>8. CASE Run(s)
    BY <2>8 DEF IInv, Run
  <2>9. CASE Persist(s)
    BY <2>9 DEF IInv, Persist, CasOwned
  <2>10. CASE Fail(s)
    BY <2>10 DEF IInv, Fail, CasOwned
  <2>11. CASE AuditOutcome(s)
    BY <2>11 DEF IInv, AuditOutcome, WriteAudit
  <2> QED
    BY <1>4, <2>1, <2>2, <2>3, <2>4, <2>5, <2>6, <2>7, <2>8,
       <2>9, <2>10, <2>11 DEF Step
<1>5. ASSUME NEW s \in Sessions, Crash(s) PROVE OneExecution'
  BY <1>5 DEF IInv, Crash
<1>6. CASE UNCHANGED vars
  BY <1>6 DEF IInv, vars
<1> QED
  BY <1>1, <1>2, <1>3, <1>4, <1>5, <1>6 DEF Next

(***************************************************************************)
(* Success is stored only by the execution whose effect is there.          *)
(***************************************************************************)
LEMMA NextExecutedHadItsEffect ==
  IInv /\ [Next]_vars => ExecutedHadItsEffect'
<1> SUFFICES ASSUME IInv, [Next]_vars PROVE ExecutedHadItsEffect'
  OBVIOUS
<1> USE TimeAssumption DEF ExecutedHadItsEffect, Progress, TypeOK, OwnsRow, rowVars, sessVars, Goto, Finish
<1>1. CASE Tick
  BY <1>1 DEF IInv, Tick
<1>2. ASSUME NEW a \in Approvals, Create(a) PROVE ExecutedHadItsEffect'
  BY <1>2 DEF IInv, Create
<1>3. ASSUME NEW s \in Sessions, NEW a \in Approvals,
             NEW d \in {"approve", "reject"}, Fetch(s, a, d)
      PROVE ExecutedHadItsEffect'
  BY <1>3 DEF IInv, Fetch, LeaseExpired
<1>4. ASSUME NEW s \in Sessions, Step(s) PROVE ExecutedHadItsEffect'
  <2>1. CASE Recover(s)
    BY <2>1 DEF IInv, Recover, CanRecover, LeaseExpired
  <2>2. CASE AuditRecovered(s)
    BY <2>2 DEF IInv, AuditRecovered, WriteAudit
  <2>3. CASE Check(s)
    BY <2>3 DEF IInv, Check, Expired
  <2>4. CASE Expire(s)
    BY <2>4 DEF IInv, Expire, CasPending, StillPending
  <2>5. CASE Reject(s)
    BY <2>5 DEF IInv, Reject, CasPending, StillPending
  <2>6. CASE Claim(s)
    BY <2>6 DEF IInv, Claim, StillPending
  <2>7. CASE AuditApproved(s)
    BY <2>7 DEF IInv, AuditApproved, WriteAudit
  <2>8. CASE Run(s)
    BY <2>8 DEF IInv, Run
  <2>9. CASE Persist(s)
    BY <2>9 DEF IInv, Persist, CasOwned
  <2>10. CASE Fail(s)
    BY <2>10 DEF IInv, Fail, CasOwned
  <2>11. CASE AuditOutcome(s)
    BY <2>11 DEF IInv, AuditOutcome, WriteAudit
  <2> QED
    BY <1>4, <2>1, <2>2, <2>3, <2>4, <2>5, <2>6, <2>7, <2>8,
       <2>9, <2>10, <2>11 DEF Step
<1>5. ASSUME NEW s \in Sessions, Crash(s) PROVE ExecutedHadItsEffect'
  BY <1>5 DEF IInv, Crash
<1>6. CASE UNCHANGED vars
  BY <1>6 DEF IInv, vars
<1> QED
  BY <1>1, <1>2, <1>3, <1>4, <1>5, <1>6 DEF Next

(***************************************************************************)
(* Failure is stored only by the executor itself, as it gives up.          *)
(***************************************************************************)
LEMMA NextFailedHasNoExecutor ==
  IInv /\ [Next]_vars => FailedHasNoExecutor'
<1> SUFFICES ASSUME IInv, [Next]_vars PROVE FailedHasNoExecutor'
  OBVIOUS
<1> USE TimeAssumption DEF FailedHasNoExecutor, Executing, ExecutionIds, WorksOnRow, TypeOK, OwnsRow, rowVars, sessVars, Goto, Finish
<1>1. CASE Tick
  BY <1>1 DEF IInv, Tick
<1>2. ASSUME NEW a \in Approvals, Create(a) PROVE FailedHasNoExecutor'
  BY <1>2 DEF IInv, Create
<1>3. ASSUME NEW s \in Sessions, NEW a \in Approvals,
             NEW d \in {"approve", "reject"}, Fetch(s, a, d)
      PROVE FailedHasNoExecutor'
  BY <1>3 DEF IInv, Fetch, LeaseExpired
<1>4. ASSUME NEW s \in Sessions, Step(s) PROVE FailedHasNoExecutor'
  <2>1. CASE Recover(s)
    BY <2>1 DEF IInv, Recover, CanRecover, LeaseExpired
  <2>2. CASE AuditRecovered(s)
    BY <2>2 DEF IInv, AuditRecovered, WriteAudit
  <2>3. CASE Check(s)
    BY <2>3 DEF IInv, Check, Expired
  <2>4. CASE Expire(s)
    BY <2>4 DEF IInv, Expire, CasPending, StillPending
  <2>5. CASE Reject(s)
    BY <2>5 DEF IInv, Reject, CasPending, StillPending
  <2>6. CASE Claim(s)
    BY <2>6 DEF IInv, Claim, StillPending
  <2>7. CASE AuditApproved(s)
    BY <2>7 DEF IInv, AuditApproved, WriteAudit
  <2>8. CASE Run(s)
    BY <2>8 DEF IInv, Run
  <2>9. CASE Persist(s)
    BY <2>9 DEF IInv, Persist, CasOwned
  <2>10. CASE Fail(s)
    BY <2>10 DEF IInv, Fail, CasOwned
  <2>11. CASE AuditOutcome(s)
    BY <2>11 DEF IInv, AuditOutcome, WriteAudit
  <2> QED
    BY <1>4, <2>1, <2>2, <2>3, <2>4, <2>5, <2>6, <2>7, <2>8,
       <2>9, <2>10, <2>11 DEF Step
<1>5. ASSUME NEW s \in Sessions, Crash(s) PROVE FailedHasNoExecutor'
  BY <1>5 DEF IInv, Crash
<1>6. CASE UNCHANGED vars
  BY <1>6 DEF IInv, vars
<1> QED
  BY <1>1, <1>2, <1>3, <1>4, <1>5, <1>6 DEF Next

(***************************************************************************)
(* Audit events of outcomes are written only by sessions that know them.   *)
(***************************************************************************)
LEMMA NextAuditIsTruthful ==
  IInv /\ [Next]_vars => AuditIsTruthful'
<1> SUFFICES ASSUME IInv, [Next]_vars PROVE AuditIsTruthful'
  OBVIOUS
<1> USE TimeAssumption DEF AuditIsTruthful, Progress, WorksOnRow, TypeOK, OwnsRow, rowVars, sessVars, Goto, Finish
<1>1. CASE Tick
  BY <1>1 DEF IInv, Tick
<1>2. ASSUME NEW a \in Approvals, Create(a) PROVE AuditIsTruthful'
  BY <1>2 DEF IInv, Create
<1>3. ASSUME NEW s \in Sessions, NEW a \in Approvals,
             NEW d \in {"approve", "reject"}, Fetch(s, a, d)
      PROVE AuditIsTruthful'
  BY <1>3 DEF IInv, Fetch, LeaseExpired
<1>4. ASSUME NEW s \in Sessions, Step(s) PROVE AuditIsTruthful'
  <2>1. CASE Recover(s)
    BY <2>1 DEF IInv, Recover, CanRecover, LeaseExpired
  <2>2. CASE AuditRecovered(s)
    BY <2>2 DEF IInv, AuditRecovered, WriteAudit
  <2>3. CASE Check(s)
    BY <2>3 DEF IInv, Check, Expired
  <2>4. CASE Expire(s)
    BY <2>4 DEF IInv, Expire, CasPending, StillPending
  <2>5. CASE Reject(s)
    BY <2>5 DEF IInv, Reject, CasPending, StillPending
  <2>6. CASE Claim(s)
    BY <2>6 DEF IInv, Claim, StillPending
  <2>7. CASE AuditApproved(s)
    BY <2>7 DEF IInv, AuditApproved, WriteAudit
  <2>8. CASE Run(s)
    BY <2>8 DEF IInv, Run
  <2>9. CASE Persist(s)
    BY <2>9 DEF IInv, Persist, CasOwned
  <2>10. CASE Fail(s)
    BY <2>10 DEF IInv, Fail, CasOwned
  <2>11. CASE AuditOutcome(s)
    BY <2>11 DEF IInv, AuditOutcome, WriteAudit
  <2> QED
    BY <1>4, <2>1, <2>2, <2>3, <2>4, <2>5, <2>6, <2>7, <2>8,
       <2>9, <2>10, <2>11 DEF Step
<1>5. ASSUME NEW s \in Sessions, Crash(s) PROVE AuditIsTruthful'
  BY <1>5 DEF IInv, Crash
<1>6. CASE UNCHANGED vars
  BY <1>6 DEF IInv, vars
<1> QED
  BY <1>1, <1>2, <1>3, <1>4, <1>5, <1>6 DEF Next

-----------------------------------------------------------------------------
(***************************************************************************)
(* The inductive invariant holds in every initial state.                   *)
(***************************************************************************)
LEMMA InitIInv == Init => IInv
<1> SUFFICES ASSUME Init PROVE IInv
  OBVIOUS
<1>1. TypeOK
  BY InitTypeOK
<1> QED
  BY <1>1 DEF Init, IInv, WorksOnRow, ExecutionIds, OwnerOrStale, Progress,
              Untouched, OneExecution, ExecutedHadItsEffect, FailedHasNoExecutor,
              AuditIsTruthful, Executing

(***************************************************************************)
(* The inductive invariant of the approval bus holds in every reachable    *)
(* state of every instance.                                                *)
(***************************************************************************)
THEOREM Invariance == Spec => []IInv
<1>1. IInv /\ [Next]_vars => IInv'
  <2>1. IInv /\ [Next]_vars => TypeOK'
    BY NextTypeOK DEF IInv
  <2>2. QED
    BY <2>1, NextWorksOnRow, NextExecutionIds, NextOwnerOrStale, NextProgress,
       NextUntouched, NextOneExecution, NextExecutedHadItsEffect,
       NextFailedHasNoExecutor, NextAuditIsTruthful
    DEF IInv
<1> QED
  BY <1>1, InitIInv, PTL DEF Spec

(***************************************************************************)
(* At most one session carries out an action inside its lease.             *)
(***************************************************************************)
THEOREM Exclusive == Spec => []OneLiveExecution
<1>1. IInv => OneLiveExecution
  BY DEF IInv, OneLiveExecution, OwnerOrStale, ExecutionIds, OwnsRow
<1> QED
  BY <1>1, Invariance, PTL

(***************************************************************************)
(* A row that reads executed had the effect of the execution it names.     *)
(***************************************************************************)
THEOREM ExecutedIsEffective == Spec => []ExecutedHadItsEffect
<1>1. IInv => ExecutedHadItsEffect
  BY DEF IInv
<1> QED
  BY <1>1, Invariance, PTL

(***************************************************************************)
(* A row that reads failed has no executor under the id it names.          *)
(***************************************************************************)
THEOREM FailureIsOwn == Spec => []FailedHasNoExecutor
<1>1. IInv => FailedHasNoExecutor
  BY DEF IInv
<1> QED
  BY <1>1, Invariance, PTL

(***************************************************************************)
(* A refusal that is the first decision on a row is the end of its action. *)
(***************************************************************************)
THEOREM FirstRefusalIsFinal == Spec => []FirstRefusalHolds
<1>1. IInv => FirstRefusalHolds
  BY DEF IInv, FirstRefusalHolds, Untouched
<1> QED
  BY <1>1, Invariance, PTL

(***************************************************************************)
(* Until a lease is recovered, an action is one session's and takes effect *)
(* at most once, however many approve it and however late they are.        *)
(***************************************************************************)
THEOREM RepeatsAreReplays == Spec => []ExecutedOnce
<1>1. IInv => ExecutedOnce
  <2> SUFFICES ASSUME IInv, NEW a \in Approvals, ~recovered[a]
               PROVE  /\ Cardinality(effects[a]) <= 1
                      /\ \A s, t \in Sessions :
                           Executing(s) /\ Executing(t) /\ item[s] = a /\ item[t] = a => s = t
    BY DEF ExecutedOnce
  <2> DEFINE key == EffectKey(kind[a], execId[a])
  <2>1. effects[a] = {} \/ effects[a] = {key}
    BY DEF IInv, OneExecution
  <2>2. Cardinality({}) = 0 /\ Cardinality({key}) = 1
    BY FS_EmptySet, FS_Singleton
  <2>3. \A s, t \in Sessions :
          Executing(s) /\ Executing(t) /\ item[s] = a /\ item[t] = a => s = t
    BY DEF IInv, OneExecution, ExecutionIds
  <2> QED
    BY <2>1, <2>2, <2>3
<1> QED
  BY <1>1, Invariance, PTL

(***************************************************************************)
(* The audit log records no outcome that did not come about.               *)
(***************************************************************************)
THEOREM AuditTruthful == Spec => []AuditIsTruthful
<1>1. IInv => AuditIsTruthful
  BY DEF IInv
<1> QED
  BY <1>1, Invariance, PTL

(***************************************************************************)
(* A decided row is never decided again.                                   *)
(***************************************************************************)
THEOREM DecisionsAreFinal == Spec => FinalIsFinal
<1>1. TypeOK /\ [Next]_vars =>
        [\A a \in Approvals : status[a] \in Final => status'[a] = status[a]]_vars
  BY DEF Next, vars, rowVars, sessVars, Tick, Create, Fetch, Step, Recover, CanRecover,
         LeaseExpired, AuditRecovered, Check, Expire, Reject, Claim, AuditApproved,
         Run, Persist, Fail, AuditOutcome, Crash, CasPending, CasOwned, StillPending,
         OwnsRow, Final, TypeOK
<1> QED
  BY <1>1, TypeCorrect, PTL DEF Spec, FinalIsFinal

-----------------------------------------------------------------------------
(* The bus implements its contract.                                        *)

phase   == [a \in Approvals |-> PhaseOf(status[a])]
granted == [a \in Approvals |-> execId[a] # Null]
applied == [a \in Approvals |-> effects[a] # {}]

(***************************************************************************)
(* An update of one row's status moves that row's phase and no other.      *)
(***************************************************************************)
LEMMA PhaseMoves ==
  ASSUME TypeOK, NEW a \in Approvals, NEW st \in Status,
         status' = [status EXCEPT ![a] = st]
  PROVE  phase' = [phase EXCEPT ![a] = PhaseOf(st)]
BY DEF TypeOK, phase

(***************************************************************************)
(* The steps that leave status, execution ids and effects alone stutter.   *)
(***************************************************************************)
LEMMA Stutters ==
  UNCHANGED <<status, execId, effects>> => UNCHANGED Contract!vars
BY DEF Contract!vars

(***************************************************************************)
(* Each compare-and-set of the bus is a step of the contract or nothing.   *)
(***************************************************************************)
LEMMA StepRefines ==
  ASSUME IInv, NEW s \in Sessions, Step(s)
  PROVE  [Contract!Next]_Contract!vars
<1> USE DEF Goto, Finish, sessVars, rowVars
<1>0. PICK a \in Approvals : a = item[s] /\ status[a] \in Status
  BY DEF IInv, TypeOK
<1>1. CASE Recover(s)
  <2>1. CASE CanRecover(s)
    <3>1. status[a] = "executing" /\ status' = [status EXCEPT ![a] = "pending"]
          /\ UNCHANGED <<execId, effects>>
      BY <1>0, <1>1, <2>1 DEF Recover, CanRecover, LeaseExpired
    <3>2. phase' = [phase EXCEPT ![a] = PhaseOf("pending")]
      BY <3>1, <1>0, PhaseMoves DEF IInv, Status
    <3>3. Contract!Reopen(a)
      BY <3>1, <3>2, <1>0 DEF Contract!Reopen, Contract!Move, phase, PhaseOf
    <3>4. QED
      BY <3>3 DEF Contract!Next
  <2>2. CASE ~CanRecover(s)
    BY <1>1, <2>2, Stutters DEF Recover
  <2>3. QED
    BY <2>1, <2>2
<1>2. CASE AuditRecovered(s) \/ Check(s) \/ AuditApproved(s) \/ AuditOutcome(s)
  BY <1>2, Stutters DEF AuditRecovered, Check, AuditApproved, AuditOutcome
<1>3. CASE Expire(s) \/ Reject(s)
  <2>1. UNCHANGED <<execId, effects>>
        /\ \E st \in {"expired", "rejected"} : CasPending(s, st)
    BY <1>3 DEF Expire, Reject
  <2>2. CASE StillPending(s)
    <3>1. PICK st \in {"expired", "rejected"} : status' = [status EXCEPT ![a] = st]
      BY <1>0, <2>1, <2>2 DEF CasPending
    <3>2. phase' = [phase EXCEPT ![a] = "refused"]
      <4>1. CASE st = "expired"
        <5>1. status' = [status EXCEPT ![a] = "expired"] /\ "expired" \in Status
          BY <3>1, <4>1 DEF Status, Final
        <5>2. phase' = [phase EXCEPT ![a] = PhaseOf("expired")]
          BY <5>1, <1>0, PhaseMoves DEF IInv
        <5>3. QED
          BY <5>2 DEF PhaseOf
      <4>2. CASE st = "rejected"
        <5>1. status' = [status EXCEPT ![a] = "rejected"] /\ "rejected" \in Status
          BY <3>1, <4>2 DEF Status, Final
        <5>2. phase' = [phase EXCEPT ![a] = PhaseOf("rejected")]
          BY <5>1, <1>0, PhaseMoves DEF IInv
        <5>3. QED
          BY <5>2 DEF PhaseOf
      <4>3. QED
        BY <4>1, <4>2
    <3>3. Contract!Refuse(a)
      BY <2>1, <2>2, <3>2, <1>0
      DEF Contract!Refuse, Contract!Move, StillPending, phase, PhaseOf
    <3>4. QED
      BY <3>3 DEF Contract!Next
  <2>3. CASE ~StillPending(s)
    BY <2>1, <2>3, Stutters DEF CasPending
  <2>4. QED
    BY <2>2, <2>3
<1>4. CASE Claim(s)
  <2>1. CASE StillPending(s)
    <3>1. /\ status[a] = "pending"
          /\ status' = [status EXCEPT ![a] = "executing"]
          /\ execId' = [execId EXCEPT ![a] = lastExec + 1]
          /\ UNCHANGED effects
      BY <1>0, <1>4, <2>1 DEF Claim, StillPending
    <3>2. phase' = [phase EXCEPT ![a] = PhaseOf("executing")]
      BY <3>1, <1>0, PhaseMoves DEF IInv, Status
    <3>3. granted' = [granted EXCEPT ![a] = TRUE]
      <4>0. lastExec + 1 # 0 /\ execId \in [Approvals -> Nat]
        BY DEF IInv, TypeOK
      <4>1. \A b \in Approvals : (execId'[b] # 0) <=> (b = a \/ execId[b] # 0)
        BY <3>1, <1>0, <4>0
      <4>2. granted' = [b \in Approvals |-> IF b = a THEN TRUE ELSE granted[b]]
        BY <4>1 DEF granted
      <4>3. QED
        BY <4>2, Zenon DEF granted
    <3>4. Contract!Grant(a)
      BY <3>1, <3>2, <3>3, <1>0
      DEF Contract!Grant, Contract!Move, phase, granted, PhaseOf
    <3>5. QED
      BY <3>4 DEF Contract!Next
  <2>2. CASE ~StillPending(s)
    BY <1>4, <2>2, Stutters DEF Claim
  <2>3. QED
    BY <2>1, <2>2
<1>5. CASE Run(s)
  <2>1. UNCHANGED <<status, execId>>
        /\ \/ UNCHANGED effects
           \/ effects' = [effects EXCEPT ![a] = @ \cup {EffectKey(kind[a], exec[s])}]
    BY <1>0, <1>5 DEF Run
  <2>2. CASE UNCHANGED effects
    BY <2>1, <2>2, Stutters
  <2>3. CASE effects' = [effects EXCEPT ![a] = @ \cup {EffectKey(kind[a], exec[s])}]
    <3>1. applied' = [applied EXCEPT ![a] = TRUE]
      BY <2>3, <1>0 DEF applied, IInv, TypeOK
    <3>2. granted[a]
      BY <1>0, <1>5 DEF IInv, ExecutionIds, Executing, Run, granted
    <3>3. Contract!Apply(a)
      BY <2>1, <3>1, <3>2 DEF Contract!Apply, applied, granted
    <3>4. QED
      BY <3>3 DEF Contract!Next
  <2>4. QED
    BY <2>1, <2>2, <2>3
<1>6. CASE Persist(s)
  <2>1. UNCHANGED <<execId, effects>> /\ (CasOwned(s, "executed") \/ UNCHANGED status)
    BY <1>6 DEF Persist
  <2>2. CASE status' = [status EXCEPT ![a] = "executed"] /\ OwnsRow(s)
    <3>1. phase' = [phase EXCEPT ![a] = PhaseOf("executed")]
      BY <2>2, <1>0, PhaseMoves DEF IInv, Status, Final
    <3>2. applied[a]
      BY <1>0, <1>6 DEF IInv, Progress, Persist, applied
    <3>3. Contract!Done(a)
      BY <2>1, <2>2, <3>1, <3>2, <1>0
      DEF Contract!Done, Contract!Move, OwnsRow, phase, applied, PhaseOf
    <3>4. QED
      BY <3>3 DEF Contract!Next
  <2>3. CASE UNCHANGED status
    BY <2>1, <2>3, Stutters
  <2>4. QED
    BY <1>0, <2>1, <2>2, <2>3 DEF CasOwned
<1>7. CASE Fail(s)
  <2>1. UNCHANGED <<execId, effects>> /\ (CasOwned(s, "failed") \/ UNCHANGED status)
    BY <1>7 DEF Fail
  <2>2. CASE status' = [status EXCEPT ![a] = "failed"] /\ OwnsRow(s)
    <3>1. phase' = [phase EXCEPT ![a] = PhaseOf("failed")]
      BY <2>2, <1>0, PhaseMoves DEF IInv, Status, Final
    <3>2. Contract!Failed(a)
      BY <2>1, <2>2, <3>1, <1>0
      DEF Contract!Failed, Contract!Move, OwnsRow, phase, PhaseOf
    <3>3. QED
      BY <3>2 DEF Contract!Next
  <2>3. CASE UNCHANGED status
    BY <2>1, <2>3, Stutters
  <2>4. QED
    BY <1>0, <2>1, <2>2, <2>3 DEF CasOwned
<1> QED
  BY <1>1, <1>2, <1>3, <1>4, <1>5, <1>6, <1>7 DEF Step

(***************************************************************************)
(* The approval bus implements its contract: no effect before an approval, *)
(* no success without an effect, and final decisions, for every instance.  *)
(***************************************************************************)
THEOREM Refinement == Spec => ImplementsContract
<1>1. Init => Contract!Init
  BY DEF Init, Contract!Init, PhaseOf
<1>2. IInv /\ [Next]_vars => [Contract!Next]_Contract!vars
  <2> SUFFICES ASSUME IInv, [Next]_vars PROVE [Contract!Next]_Contract!vars
    OBVIOUS
  <2> USE DEF sessVars, rowVars
  <2>1. CASE Tick
    BY <2>1, Stutters DEF Tick
  <2>2. ASSUME NEW a \in Approvals, Create(a) PROVE [Contract!Next]_Contract!vars
    <3>1. phase' = [phase EXCEPT ![a] = PhaseOf("pending")]
      BY <2>2, PhaseMoves DEF Create, IInv, Status
    <3>2. Contract!Submit(a)
      BY <2>2, <3>1 DEF Create, Contract!Submit, Contract!Move, phase, PhaseOf
    <3>3. QED
      BY <3>2 DEF Contract!Next
  <2>3. ASSUME NEW s \in Sessions, NEW a \in Approvals,
               NEW d \in {"approve", "reject"}, Fetch(s, a, d)
        PROVE [Contract!Next]_Contract!vars
    BY <2>3, Stutters DEF Fetch
  <2>4. ASSUME NEW s \in Sessions, Step(s) PROVE [Contract!Next]_Contract!vars
    BY <2>4, StepRefines
  <2>5. ASSUME NEW s \in Sessions, Crash(s) PROVE [Contract!Next]_Contract!vars
    BY <2>5, Stutters DEF Crash, Finish, Goto
  <2>6. CASE UNCHANGED vars
    BY <2>6, Stutters DEF vars
  <2> QED
    BY <2>1, <2>2, <2>3, <2>4, <2>5, <2>6 DEF Next
<1> QED
  BY <1>1, <1>2, Invariance, PTL DEF Spec, ImplementsContract, Contract!Spec

=============================================================================
