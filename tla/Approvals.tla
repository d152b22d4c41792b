------------------------------ MODULE Approvals ------------------------------
(***************************************************************************)
(* The approval bus of the control plane, src/src/lib/agent/approvals.ts.  *)
(*                                                                         *)
(* A row of agent_approvals freezes a sensitive action.  Any number of     *)
(* approver sessions (HTTP requests running processApproval) work on the   *)
(* rows concurrently.  Every await of the code is a step boundary here:    *)
(* a session reads the row, checks its snapshot, and only then issues the  *)
(* compare-and-set that moves the row; between two of its steps the other  *)
(* sessions run, time passes, and the process may crash.                   *)
(***************************************************************************)
EXTENDS Naturals, FiniteSets

CONSTANTS
  Approvals,      (* Rows; a row is named by its unique invocation_id.     *)
  Sessions,       (* Concurrent executions of processApproval.             *)
  RoleOf,         (* The role of the user behind each session.             *)
  ActionTypes,    (* The action types the rows of this instance may have.  *)
  RequiredRoles,  (* The required_role values of this instance.            *)
  Lease,          (* EXECUTING_LEASE_MS, in ticks.                         *)
  Ttl,            (* expiresInHours, in ticks.                             *)
  MaxTime,        (* Bound on the clock.                                   *)
  MaxExecutions   (* Bound on the execution ids ever drawn.                *)

(***************************************************************************)
(* The action types executed inside the control plane.  The two            *)
(* roveagent.* types call the execution plane: module ToolGrants.          *)
(***************************************************************************)
ActionType == {"purchase.create_draft", "marketing.create_draft_campaign",
               "reviews.reply", "stripe.refund"}

Role == {"staff", "manager", "owner", "admin"}

ASSUME SessionsAssumption == RoleOf \in [Sessions -> Role]
ASSUME TypesAssumption    == ActionTypes \subseteq ActionType
ASSUME RolesAssumption    == RequiredRoles \subseteq Role
ASSUME TimeAssumption     == /\ Lease \in Nat \ {0}
                             /\ Ttl \in Nat \ {0}
                             /\ MaxTime \in Nat
                             /\ MaxExecutions \in Nat

VARIABLES
  now,          (* The wall clock; starts at 1, so that 0 reads as null.   *)
  status,       (* agent_approvals.status, "none" before the insert.       *)
  kind,         (* action_type                                             *)
  required,     (* required_role                                           *)
  expiresAt,    (* expires_at                                              *)
  consumedAt,   (* consumed_at: when the row was claimed, 0 for null.      *)
  execId,       (* execution_id, 0 for null.                               *)
  lastExec,     (* The last execution id drawn by randomUUID.              *)
  effects,      (* The distinct side effects applied for each row, by the  *)
                (* key under which the target system would deduplicate.    *)
  recovered,    (* History: the row's lease was recovered at least once.   *)
  audit,        (* The audit_events actions stored for each row.           *)
  pc,           (* Where each session is.                                  *)
  item,         (* The row each session works on.                          *)
  act,          (* The decision each session carries.                      *)
  at,           (* nowIso: the time each session took its decision at.     *)
  exec          (* executionId of each session.                            *)

rowVars  == <<status, kind, required, expiresAt, consumedAt, execId, recovered>>
sessVars == <<pc, item, act, at, exec>>
vars     == <<now, rowVars, lastExec, effects, audit, sessVars>>

Null == 0

Final == {"executed", "rejected", "expired", "failed"}

Status == Final \cup {"none", "pending", "executing"}

Audited == {"approved", "rejected", "executed", "failed", "lease_recovered"}

Pc == {"idle", "recover", "auditRecovered", "check", "expire", "reject", "claim",
       "auditApproved", "run", "persist", "fail",
       "auditRejected", "auditExecuted", "auditFailed"}

-----------------------------------------------------------------------------
(* Roles.                                                                  *)

RoleRank == [r \in Role |-> CASE r = "staff"   -> 1
                              [] r = "manager" -> 2
                              [] r = "owner"   -> 3
                              [] r = "admin"   -> 4]

(* canApprove: a platform-admin action is outside the merchant's domain.   *)
CanApprove(r, req) == req # "admin" /\ RoleRank[r] >= RoleRank[req]

-----------------------------------------------------------------------------
(* Side effects.                                                           *)

(***************************************************************************)
(* What identifies one application of a row's side effect.  A refund goes  *)
(* to Stripe under `refund:${invocation_id}` and a review reply overwrites *)
(* the same columns: applying either again changes nothing.  The two draft *)
(* actions insert a new row with no key each time they run.                *)
(***************************************************************************)
EffectKey(k, e) == IF k \in {"stripe.refund", "reviews.reply"} THEN 0 ELSE e

(* executingLeaseExpired                                                   *)
LeaseExpired(a) == status[a] = "executing" /\ now >= consumedAt[a] + Lease

(* new Date(item.expires_at).getTime() <= now.getTime()                    *)
Expired(a) == expiresAt[a] <= now

-----------------------------------------------------------------------------
Init ==
  /\ now        = 1
  /\ status     = [a \in Approvals |-> "none"]
  /\ kind       \in [Approvals -> ActionTypes]
  /\ required   \in [Approvals -> RequiredRoles]
  /\ expiresAt  = [a \in Approvals |-> Null]
  /\ consumedAt = [a \in Approvals |-> Null]
  /\ execId     = [a \in Approvals |-> Null]
  /\ lastExec   = 0
  /\ effects    = [a \in Approvals |-> {}]
  /\ recovered  = [a \in Approvals |-> FALSE]
  /\ audit      = [a \in Approvals |-> {}]
  /\ pc         = [s \in Sessions |-> "idle"]
  /\ item       \in [Sessions -> Approvals]
  /\ act        = [s \in Sessions |-> "approve"]
  /\ at         = [s \in Sessions |-> Null]
  /\ exec       = [s \in Sessions |-> Null]

(* Move session s to control point l.                                      *)
Goto(s, l) == pc' = [pc EXCEPT ![s] = l]

(* The request of session s ends; its local variables are gone.            *)
Finish(s) == /\ Goto(s, "idle")
             /\ at'   = [at EXCEPT ![s] = Null]
             /\ exec' = [exec EXCEPT ![s] = Null]

Tick ==
  /\ now < MaxTime
  /\ now' = now + 1
  /\ UNCHANGED <<rowVars, lastExec, effects, audit, sessVars>>

(* Slip: the update does not repeat the condition on status.               *)
StillPendingUnchecked(s) == status[item[s]] # "none"

(* UPDATE ... SET status = st WHERE id = item AND status = 'pending'       *)
StillPending(s) == status[item[s]] = "pending"

CasPending(s, st) ==
  status' = IF StillPending(s) THEN [status EXCEPT ![item[s]] = st] ELSE status

(* Slips: the update of the outcome forgets one half of its fence.         *)
OwnsRowAnyExecution(s) == status[item[s]] = "executing"
OwnsRowAnyStatus(s)    == execId[item[s]] = exec[s]

(***************************************************************************)
(* UPDATE ... SET status = st WHERE id = item AND execution_id = the       *)
(* session's own AND status = 'executing'.                                 *)
(***************************************************************************)
OwnsRow(s) == /\ status[item[s]] = "executing"
              /\ execId[item[s]] = exec[s]

CasOwned(s, st) ==
  status' = IF OwnsRow(s) THEN [status EXCEPT ![item[s]] = st] ELSE status

(* writeAuditEvent: an insert that fails is logged and otherwise ignored.  *)
WriteAudit(s, event) ==
  \E stored \in BOOLEAN :
    audit' = IF stored THEN [audit EXCEPT ![item[s]] = @ \cup {event}] ELSE audit

-----------------------------------------------------------------------------
(* createPendingApproval.  A second insert under the same invocation_id    *)
(* hits the unique index and returns the existing row: no change.          *)
Create(a) ==
  /\ status[a] = "none"
  /\ status'    = [status EXCEPT ![a] = "pending"]
  /\ expiresAt' = [expiresAt EXCEPT ![a] = now + Ttl]
  /\ UNCHANGED <<now, kind, required, consumedAt, execId, recovered,
                 lastExec, effects, audit, sessVars>>

(***************************************************************************)
(* processApproval, first step: read the row.  Only a pending row, or an   *)
(* executing one whose lease has run out, leads any further; for every     *)
(* other row the request returns at once.                                  *)
(***************************************************************************)
Fetch(s, a, d) ==
  /\ pc[s] = "idle"
  /\ \/ status[a] = "pending" /\ Goto(s, "check")
     \/ LeaseExpired(a)       /\ Goto(s, "recover")
  /\ item' = [item EXCEPT ![s] = a]
  /\ act'  = [act EXCEPT ![s] = d]
  /\ UNCHANGED <<now, rowVars, lastExec, effects, audit, at, exec>>

(* Slip: the recovery trusts the snapshot's lease.                         *)
CanRecoverAnyExecuting(s) == /\ CanApprove(RoleOf[s], required[item[s]])
                             /\ status[item[s]] = "executing"

(***************************************************************************)
(* recoverExecutingApproval: after the role check, executing -> pending if *)
(* the row is still executing and was still claimed before the cutoff.     *)
(***************************************************************************)
CanRecover(s) == /\ CanApprove(RoleOf[s], required[item[s]])
                 /\ LeaseExpired(item[s])

Recover(s) ==
  /\ pc[s] = "recover"
  /\ IF CanRecover(s)
     THEN /\ status'     = [status EXCEPT ![item[s]] = "pending"]
          /\ consumedAt' = [consumedAt EXCEPT ![item[s]] = Null]
          /\ recovered'  = [recovered EXCEPT ![item[s]] = TRUE]
          /\ Goto(s, "auditRecovered")
          /\ UNCHANGED <<at, exec>>
     ELSE /\ Finish(s)
          /\ UNCHANGED <<status, consumedAt, recovered>>
  /\ UNCHANGED <<now, kind, required, expiresAt, execId, lastExec, effects,
                 audit, item, act>>

AuditRecovered(s) ==
  /\ pc[s] = "auditRecovered"
  /\ WriteAudit(s, "lease_recovered")
  /\ Goto(s, "check")
  /\ UNCHANGED <<now, rowVars, lastExec, effects, item, act, at, exec>>

(***************************************************************************)
(* The checks on the snapshot, all made at one instant, nowIso: the role,  *)
(* the expiry, and then which compare-and-set to issue.                    *)
(***************************************************************************)
Check(s) ==
  LET a == item[s] IN
  /\ pc[s] = "check"
  /\ \/ /\ ~CanApprove(RoleOf[s], required[a])
        /\ Finish(s)
     \/ /\ CanApprove(RoleOf[s], required[a])
        /\ Goto(s, IF Expired(a) THEN "expire"
                   ELSE IF act[s] = "reject" THEN "reject" ELSE "claim")
        /\ at' = [at EXCEPT ![s] = now]
        /\ UNCHANGED exec
  /\ UNCHANGED <<now, rowVars, lastExec, effects, audit, item, act>>

(* The row has expired: pending -> expired, and the request is refused.    *)
Expire(s) ==
  /\ pc[s] = "expire"
  /\ CasPending(s, "expired")
  /\ Finish(s)
  /\ UNCHANGED <<now, kind, required, expiresAt, consumedAt, execId, recovered,
                 lastExec, effects, audit, item, act>>

(* pending -> rejected; the loser of a race is told so and changes nothing. *)
Reject(s) ==
  /\ pc[s] = "reject"
  /\ CasPending(s, "rejected")
  /\ IF StillPending(s)
     THEN Goto(s, "auditRejected") /\ UNCHANGED <<at, exec>>
     ELSE Finish(s)
  /\ UNCHANGED <<now, kind, required, expiresAt, consumedAt, execId, recovered,
                 lastExec, effects, audit, item, act>>

(***************************************************************************)
(* pending -> executing under a fresh execution id; consumed_at is the     *)
(* time of the check.  The bound MaxExecutions is this model's.            *)
(***************************************************************************)
Claim(s) ==
  LET a == item[s] IN
  /\ pc[s] = "claim"
  /\ IF StillPending(s)
     THEN /\ lastExec < MaxExecutions
          /\ lastExec'   = lastExec + 1
          /\ status'     = [status EXCEPT ![a] = "executing"]
          /\ execId'     = [execId EXCEPT ![a] = lastExec + 1]
          /\ consumedAt' = [consumedAt EXCEPT ![a] = at[s]]
          /\ exec'       = [exec EXCEPT ![s] = lastExec + 1]
          /\ Goto(s, "auditApproved")
          /\ UNCHANGED at
     ELSE /\ Finish(s)
          /\ UNCHANGED <<status, execId, consumedAt, lastExec>>
  /\ UNCHANGED <<now, kind, required, expiresAt, recovered, effects, audit, item, act>>

AuditApproved(s) ==
  /\ pc[s] = "auditApproved"
  /\ WriteAudit(s, "approved")
  /\ Goto(s, "run")
  /\ UNCHANGED <<now, rowVars, lastExec, effects, item, act, at, exec>>

(***************************************************************************)
(* executeFrozenApproval: the side effect is applied and acknowledged, or  *)
(* applied with the answer lost, or not applied.                           *)
(***************************************************************************)
Run(s) ==
  /\ pc[s] = "run"
  /\ \E applied \in BOOLEAN, acked \in BOOLEAN :
       /\ acked => applied
       /\ effects' = IF applied
                     THEN [effects EXCEPT ![item[s]] =
                             @ \cup {EffectKey(kind[item[s]], exec[s])}]
                     ELSE effects
       /\ Goto(s, IF acked THEN "persist" ELSE "fail")
  /\ UNCHANGED <<now, rowVars, lastExec, audit, item, act, at, exec>>

(***************************************************************************)
(* executing -> executed, fenced by execution_id.  An update that matches  *)
(* no row is no error; one whose answer is an error goes to the catch      *)
(* block whether or not it was applied.                                    *)
(***************************************************************************)
Persist(s) ==
  /\ pc[s] = "persist"
  /\ \/ CasOwned(s, "executed") /\ Goto(s, "auditExecuted")
     \/ CasOwned(s, "executed") /\ Goto(s, "fail")
     \/ UNCHANGED status        /\ Goto(s, "fail")
  /\ UNCHANGED <<now, kind, required, expiresAt, consumedAt, execId, recovered,
                 lastExec, effects, audit, item, act, at, exec>>

(* The catch block: executing -> failed under the same fence, whose own    *)
(* error is not looked at.                                                 *)
Fail(s) ==
  /\ pc[s] = "fail"
  /\ CasOwned(s, "failed") \/ UNCHANGED status
  /\ Goto(s, "auditFailed")
  /\ UNCHANGED <<now, kind, required, expiresAt, consumedAt, execId, recovered,
                 lastExec, effects, audit, item, act, at, exec>>

(* The last audit event of a decision, then the answer.                    *)
AuditOutcome(s) ==
  /\ \/ pc[s] = "auditRejected" /\ WriteAudit(s, "rejected")
     \/ pc[s] = "auditExecuted" /\ WriteAudit(s, "executed")
     \/ pc[s] = "auditFailed"   /\ WriteAudit(s, "failed")
  /\ Finish(s)
  /\ UNCHANGED <<now, rowVars, lastExec, effects, item, act>>

(* The process that runs the session dies, or the request is abandoned, or *)
(* a database call outside the try block answers with an error, applied or *)
(* not, and the request returns.                                           *)
Crash(s) ==
  /\ pc[s] # "idle"
  /\ Finish(s)
  /\ UNCHANGED <<now, rowVars, lastExec, effects, audit, item, act>>

-----------------------------------------------------------------------------
Step(s) ==
  \/ Recover(s) \/ AuditRecovered(s) \/ Check(s)
  \/ Expire(s) \/ Reject(s) \/ Claim(s)
  \/ AuditApproved(s) \/ Run(s) \/ Persist(s) \/ Fail(s) \/ AuditOutcome(s)

Next ==
  \/ Tick
  \/ \E a \in Approvals : Create(a)
  \/ \E s \in Sessions, a \in Approvals, d \in {"approve", "reject"} : Fetch(s, a, d)
  \/ \E s \in Sessions : Step(s)
  \/ \E s \in Sessions : Crash(s)

Spec == Init /\ [][Next]_vars

-----------------------------------------------------------------------------
(* Properties.                                                             *)

TypeOK ==
  /\ now \in Nat \ {0}
  /\ status     \in [Approvals -> Status]
  /\ kind       \in [Approvals -> ActionTypes]
  /\ required   \in [Approvals -> RequiredRoles]
  /\ expiresAt  \in [Approvals -> Nat]
  /\ consumedAt \in [Approvals -> Nat]
  /\ execId     \in [Approvals -> Nat]
  /\ lastExec   \in Nat
  /\ effects    \in [Approvals -> SUBSET Nat]
  /\ recovered  \in [Approvals -> BOOLEAN]
  /\ audit      \in [Approvals -> SUBSET Audited]
  /\ pc         \in [Sessions -> Pc]
  /\ item       \in [Sessions -> Approvals]
  /\ act        \in [Sessions -> {"approve", "reject"}]
  /\ at         \in [Sessions -> Nat]
  /\ exec       \in [Sessions -> Nat]

(* Session s has claimed its row and is carrying the action out.           *)
Executing(s) == pc[s] \in {"auditApproved", "run", "persist", "fail"}

(* The lease session s took when it claimed its row still runs.            *)
HoldsLease(s) == now < at[s] + Lease

(***************************************************************************)
(* No two sessions carry out the same action inside their leases, however  *)
(* approvals, recoveries and replays interleave: the claim is exclusive    *)
(* until it is EXECUTING_LEASE_MS old (lines 386-439, 518-539).            *)
(***************************************************************************)
OneLiveExecution ==
  \A s, t \in Sessions :
    /\ Executing(s) /\ HoldsLease(s)
    /\ Executing(t) /\ HoldsLease(t)
    /\ item[s] = item[t]
    => s = t

(***************************************************************************)
(* A row reads executed only if the side effect of the very execution its  *)
(* execution_id names was applied: the result of a superseded execution is *)
(* never stored over a newer one (the execution_id fence, lines 541-550).  *)
(***************************************************************************)
ExecutedHadItsEffect ==
  \A a \in Approvals :
    status[a] = "executed" => EffectKey(kind[a], execId[a]) \in effects[a]

(***************************************************************************)
(* A row reads failed only once the execution it names has given up: an    *)
(* executor that lost its lease cannot fail the replay that took over      *)
(* (the same fence in the catch block, lines 559-564).                     *)
(***************************************************************************)
FailedHasNoExecutor ==
  \A a \in Approvals : status[a] = "failed" =>
    \A s \in Sessions : ~(Executing(s) /\ item[s] = a /\ exec[s] = execId[a])

(***************************************************************************)
(* A rejection or an expiry that is the first decision on a row means that *)
(* the action was never carried out and that nobody is about to (the CASes *)
(* on status pending).                                                     *)
(***************************************************************************)
FirstRefusalHolds ==
  \A a \in Approvals :
    status[a] \in {"rejected", "expired"} /\ ~recovered[a] =>
      /\ effects[a] = {}
      /\ \A s \in Sessions : Executing(s) => item[s] # a

(***************************************************************************)
(* As long as nobody has recovered its lease, an action is in the hands of *)
(* one session, even one that is late, and takes effect at most once,      *)
(* draft or not: two executions of a row are a recovery's replay, never    *)
(* two approvals (the CAS on pending and its new id, lines 518-534).       *)
(***************************************************************************)
ExecutedOnce ==
  \A a \in Approvals : ~recovered[a] =>
    /\ Cardinality(effects[a]) <= 1
    /\ \A s, t \in Sessions :
         Executing(s) /\ Executing(t) /\ item[s] = a /\ item[t] = a => s = t

(***************************************************************************)
(* The audit log never claims what did not happen: approval.rejected only  *)
(* for a row this decision did reject, approval.executed only after the    *)
(* side effect.                                                            *)
(***************************************************************************)
AuditIsTruthful ==
  \A a \in Approvals :
    /\ "rejected" \in audit[a] => status[a] = "rejected"
    /\ "executed" \in audit[a] => effects[a] # {}

(* A decided row is never decided again: executed, rejected, expired and   *)
(* failed are final.                                                       *)
FinalIsFinal ==
  [][\A a \in Approvals : status[a] \in Final => status'[a] = status[a]]_vars

-----------------------------------------------------------------------------
(* The abstract specification this one implements.                         *)

PhaseOf(st) == CASE st = "none"      -> "absent"
                 [] st = "pending"   -> "open"
                 [] st = "executing" -> "running"
                 [] st = "executed"  -> "done"
                 [] st = "failed"    -> "failed"
                 [] st \in {"rejected", "expired"} -> "refused"

Contract == INSTANCE ApprovalContract WITH
  Actions <- Approvals,
  phase   <- [a \in Approvals |-> PhaseOf(status[a])],
  granted <- [a \in Approvals |-> execId[a] # Null],
  applied <- [a \in Approvals |-> effects[a] # {}]

(***************************************************************************)
(* The bus keeps the contract: nothing takes effect before an approval,    *)
(* nothing is reported executed that did not take effect, and decisions    *)
(* are final (processApproval as a whole, lines 441-574).                  *)
(***************************************************************************)
ImplementsContract == Contract!Spec

-----------------------------------------------------------------------------
(* The inductive invariant behind the safety properties.                   *)

(* Sessions past Fetch work on a row that exists.                          *)
WorksOnRow == \A s \in Sessions : pc[s] # "idle" => status[item[s]] # "none"

(* Execution ids are drawn once each, and a null one means never claimed.  *)
ExecutionIds ==
  /\ \A a \in Approvals :
       /\ execId[a] <= lastExec
       /\ status[a] \in {"executing", "executed", "failed"} => execId[a] # Null
  /\ \A s \in Sessions : Executing(s) =>
       /\ exec[s] \in 1..lastExec
       /\ execId[item[s]] # Null
  /\ \A s, t \in Sessions :
       Executing(s) /\ Executing(t) /\ exec[s] = exec[t] => s = t

(* An executor owns its row, or its lease is over, or it has stored its    *)
(* success and only the acknowledgement was lost.                          *)
OwnerOrStale ==
  \A s \in Sessions : Executing(s) =>
    \/ OwnsRow(s) /\ consumedAt[item[s]] = at[s]
    \/ ~HoldsLease(s)
    \/ /\ pc[s] = "fail"
       /\ status[item[s]] = "executed"
       /\ execId[item[s]] = exec[s]

(* What a control point says about the work done so far.                   *)
Progress ==
  \A s \in Sessions :
    /\ pc[s] = "persist" => EffectKey(kind[item[s]], exec[s]) \in effects[item[s]]
    /\ pc[s] = "auditRejected" => status[item[s]] = "rejected"
    /\ pc[s] = "auditExecuted" => effects[item[s]] # {}

(* Until its first claim, and without a recovery, an action is untouched.  *)
Untouched ==
  \A a \in Approvals :
    ~recovered[a] /\ status[a] \in {"none", "pending", "rejected", "expired"} =>
      /\ effects[a] = {}
      /\ \A s \in Sessions : Executing(s) => item[s] # a

(* Without a recovery, every execution is the one the row names.           *)
OneExecution ==
  \A a \in Approvals : ~recovered[a] =>
    /\ effects[a] \subseteq {EffectKey(kind[a], execId[a])}
    /\ \A s \in Sessions : Executing(s) /\ item[s] = a => exec[s] = execId[a]

IInv ==
  /\ TypeOK
  /\ WorksOnRow
  /\ ExecutionIds
  /\ OwnerOrStale
  /\ Progress
  /\ Untouched
  /\ OneExecution
  /\ ExecutedHadItsEffect
  /\ FailedHasNoExecutor
  /\ AuditIsTruthful

-----------------------------------------------------------------------------
(* What the documents say of the bus, and the code does not keep.          *)

(***************************************************************************)
(* "Rejection and expiry can never execute the action."                    *)
(* (docs/current/ARCHITECTURE.md:93).                                      *)
(***************************************************************************)
RefusalNeverExecutes ==
  \A a \in Approvals : status[a] \in {"rejected", "expired"} => effects[a] = {}

=============================================================================
