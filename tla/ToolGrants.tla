------------------------------ MODULE ToolGrants ------------------------------
(***************************************************************************)
(* Approved tool calls, across the two planes.  The execution plane's gate *)
(* (roveagent/enterprise/gate_hook.py) blocks a sensitive call and pushes  *)
(* it to the approval bus; an approver's decision comes back as a signed   *)
(* callback, resolve_tool of roveagent/api/app.py, which records a grant   *)
(* (roveagent/enterprise/approval_grants.py), claims it, and resumes the   *)
(* call through the same gate, where the grant is consumed.                *)
(*                                                                         *)
(* Module Approvals has the bus step by step.  Here one step takes a       *)
(* decision with its compare-and-set, and a lease may lapse at any time;   *)
(* what is fine-grained is the callback and the gate.  A message, once     *)
(* sent, may be delivered late, more than once, or never.                  *)
(***************************************************************************)
EXTENDS Naturals, FiniteSets

CONSTANTS
  Invocations,    (* The invocation ids the gate may draw for blocked calls. *)
  Calls,          (* A tool with its arguments, in one request of a business. *)
  CallOf,         (* The call each invocation freezes.                     *)
  Threads,        (* Threads of the service: callbacks and agent calls.    *)
  NoMsg,          (* What a thread serves that carries an agent's own call. *)
  Redelivery,     (* Whether a callback may be delivered more than once.   *)
  MaxGrants,      (* How many grants _save keeps: 500.                     *)
  MaxExecutions   (* Bound on the execution ids ever drawn.                *)

ASSUME CallsAssumption  == CallOf \in [Invocations -> Calls]
ASSUME LimitsAssumption == /\ Redelivery \in BOOLEAN
                           /\ MaxGrants \in Nat \ {0}
                           /\ MaxExecutions \in Nat
                           /\ IsFiniteSet(Invocations)

VARIABLES
  row,        (* agent_approvals.status of each invocation.                *)
  rowExec,    (* Its execution_id, 0 for null.                             *)
  lastExec,   (* The last execution id drawn.                              *)
  sent,       (* The callback messages that may still be delivered.        *)
  waiting,    (* The messages whose sender still waits for the answer.     *)
  answer,     (* The first answer to the callback of each execution.       *)
  grant,      (* grants.json, by invocation id.                            *)
  appended,   (* How many grants were ever appended to it.                 *)
  pc,         (* Where each thread of the service is.                      *)
  msg,        (* The callback it serves; NoMsg for an agent's own call.    *)
  call,       (* The call it carries through the gate.                     *)
  own,        (* The invocations whose grant it has consumed.              *)
  ran         (* How many times the tool ran under each invocation's grant. *)

busVars    == <<row, rowExec, lastExec>>
wireVars   == <<sent, waiting, answer>>
threadVars == <<pc, msg, call, own>>
fileVars   == <<grant, appended>>
vars       == <<busVars, wireVars, fileVars, threadVars, ran>>

Row        == {"none", "pending", "executing", "executed", "rejected", "failed"}
Executions == 1..MaxExecutions
Message    == [inv : Invocations, exec : 0..MaxExecutions, approved : BOOLEAN]
Pc         == {"idle", "recorded", "gate", "push", "replay", "over"}

(* One grant.  Its status field is written and reported, never decided on: *)
(* the model leaves it out.                                                *)
Grant == [present  : BOOLEAN,
          approved : BOOLEAN,
          exec     : 0..MaxExecutions,
          consumed : BOOLEAN,   (* consumed_at is set.                     *)
          claimed  : BOOLEAN,   (* callback_claimed_at is set.             *)
          live     : BOOLEAN,   (* Younger than GRANT_TTL_S.               *)
          pos      : Nat]       (* Its place in the file's list.           *)

ASSUME NoMsgAssumption == NoMsg \notin Message

NoGrant == [present |-> FALSE, approved |-> FALSE, exec |-> 0, consumed |-> FALSE,
            claimed |-> FALSE, live |-> FALSE, pos |-> 0]

Present(i) == grant[i].present

Init ==
  /\ row      = [i \in Invocations |-> "none"]
  /\ rowExec  = [i \in Invocations |-> 0]
  /\ lastExec = 0
  /\ sent     = {}
  /\ waiting  = {}
  /\ answer   = [e \in Executions |-> "none"]
  /\ grant    = [i \in Invocations |-> NoGrant]
  /\ appended = 0
  /\ pc       = [t \in Threads |-> "idle"]
  /\ msg      = [t \in Threads |-> NoMsg]
  /\ call     \in [Threads -> Calls]
  /\ own      = [t \in Threads |-> {}]
  /\ ran      = [i \in Invocations |-> 0]

-----------------------------------------------------------------------------
(* The approval bus.                                                       *)

(* The claim of processApproval and the callback it sends.                 *)
Approve(i) ==
  /\ row[i] = "pending"
  /\ lastExec < MaxExecutions
  /\ lastExec' = lastExec + 1
  /\ row'      = [row EXCEPT ![i] = "executing"]
  /\ rowExec'  = [rowExec EXCEPT ![i] = lastExec + 1]
  /\ LET m == [inv |-> i, exec |-> lastExec + 1, approved |-> TRUE]
     IN  sent' = sent \cup {m} /\ waiting' = waiting \cup {m}
  /\ UNCHANGED <<answer, fileVars, threadVars, ran>>

(* A rejection calls back too, under the empty execution id.               *)
Reject(i) ==
  /\ row[i] = "pending"
  /\ row'  = [row EXCEPT ![i] = "rejected"]
  /\ sent' = sent \cup {[inv |-> i, exec |-> 0, approved |-> FALSE]}
  /\ UNCHANGED <<rowExec, lastExec, waiting, answer, fileVars, threadVars, ran>>

(* recoverExecutingApproval.                                               *)
Lapse(i) ==
  /\ row[i] = "executing"
  /\ row' = [row EXCEPT ![i] = "pending"]
  /\ UNCHANGED <<rowExec, lastExec, wireVars, fileVars, threadVars, ran>>

(* Slip: the outcome is stored without the execution_id fence.             *)
OwnsAny(m) == row[m.inv] = "executing"

Owns(m) == row[m.inv] = "executing" /\ rowExec[m.inv] = m.exec

Outcomes(m) == IF answer[m.exec] = "ok" THEN {"executed", "failed"} ELSE {"failed"}

(***************************************************************************)
(* The sender stores the outcome: any answer of status 2xx counts as       *)
(* executed, whatever its body says; an error, or no answer within 30 s,   *)
(* counts as failed, and so does an outcome that could not be stored.      *)
(***************************************************************************)
Store(m) ==
  /\ m \in waiting
  /\ waiting' = waiting \ {m}
  /\ \E outcome \in Outcomes(m) :
       row' = IF Owns(m) THEN [row EXCEPT ![m.inv] = outcome] ELSE row
  /\ UNCHANGED <<rowExec, lastExec, sent, answer, fileVars, threadVars, ran>>

(* The control plane's process dies before it stores the outcome.          *)
SenderDies(m) ==
  /\ m \in waiting
  /\ waiting' = waiting \ {m}
  /\ UNCHANGED <<busVars, sent, answer, fileVars, threadVars, ran>>

-----------------------------------------------------------------------------
(* The callback.                                                           *)

(***************************************************************************)
(* The thread serving message m answers the sender, if that still waits,   *)
(* and is free again.                                                      *)
(***************************************************************************)
Answer(t, m, a) ==
  /\ pc'     = [pc EXCEPT ![t] = "idle"]
  /\ msg'    = [msg EXCEPT ![t] = NoMsg]
  /\ own'    = [own EXCEPT ![t] = {}]
  /\ answer' = IF m \in waiting /\ answer[m.exec] = "none"
               THEN [answer EXCEPT ![m.exec] = a] ELSE answer

(* _save keeps the last MaxGrants grants of the list.                      *)
Trim(g) ==
  [i \in Invocations |->
     IF Cardinality({j \in Invocations : /\ g[j].present
                                         /\ g[j].pos > g[i].pos}) >= MaxGrants
     THEN NoGrant ELSE g[i]]

(* The decision on file for an invocation is the one the message brings.   *)
SameDecision(m) == /\ grant[m.inv].approved = m.approved
                   /\ grant[m.inv].exec     = m.exec

(***************************************************************************)
(* record_grant: the first message of an invocation appends a grant; a     *)
(* later one must bring the very same decision, or the request fails.      *)
(***************************************************************************)
Record(t, m) ==
  /\ pc[t] = "idle"
  /\ m \in sent
  /\ sent' = IF Redelivery THEN sent ELSE sent \ {m}
  /\ IF Present(m.inv)
     THEN UNCHANGED fileVars
     ELSE /\ appended' = appended + 1
          /\ grant' = Trim([grant EXCEPT ![m.inv] =
                             [present  |-> TRUE,
                              approved |-> m.approved,
                              exec     |-> m.exec,
                              consumed |-> FALSE,
                              claimed  |-> FALSE,
                              live     |-> TRUE,
                              pos      |-> appended + 1]])
  /\ IF Present(m.inv) /\ ~SameDecision(m)
     THEN Answer(t, m, "error")
     ELSE IF m.approved
     THEN /\ pc'  = [pc EXCEPT ![t] = "recorded"]
          /\ msg' = [msg EXCEPT ![t] = m]
          /\ UNCHANGED <<own, answer>>
     ELSE Answer(t, m, "ok")
  /\ UNCHANGED <<busVars, waiting, call, ran>>

(* The grant the callback of m recorded, unless it has been trimmed away.  *)
OnFile(m) == Present(m.inv) /\ grant[m.inv].exec = m.exec

(* Slip: the claim does not look at callback_claimed_at.                   *)
ClaimableAgain(m) == OnFile(m)

Claimable(m) == OnFile(m) /\ ~grant[m.inv].claimed

(***************************************************************************)
(* claim_resolution: the first delivery of a callback goes on into the     *)
(* middleware; another one is answered with the state on file.             *)
(***************************************************************************)
Claim(t) ==
  LET m == msg[t] IN
  /\ pc[t] = "recorded"
  /\ IF Claimable(m)
     THEN /\ grant' = [grant EXCEPT ![m.inv].claimed = TRUE]
          /\ pc'    = [pc EXCEPT ![t] = "gate"]
          /\ call'  = [call EXCEPT ![t] = CallOf[m.inv]]
          /\ UNCHANGED <<msg, own, answer>>
     ELSE /\ Answer(t, m, IF OnFile(m) THEN "ok" ELSE "error")
          /\ UNCHANGED <<grant, call>>
  /\ UNCHANGED <<busVars, sent, waiting, appended, ran>>

-----------------------------------------------------------------------------
(* The gate, for a resumed call as for one an agent makes itself.          *)

AgentCalls(t, c) ==
  /\ pc[t] = "idle"
  /\ pc'   = [pc EXCEPT ![t] = "gate"]
  /\ msg'  = [msg EXCEPT ![t] = NoMsg]
  /\ call' = [call EXCEPT ![t] = c]
  /\ UNCHANGED <<busVars, wireVars, fileVars, own, ran>>

(* Slips: a grant is not used up by its use; or a rejection passes.        *)
UsableTwice(i, c)    == CallOf[i] = c /\ grant[i].approved /\ grant[i].live
UsableRejected(i, c) == CallOf[i] = c /\ ~grant[i].consumed /\ grant[i].live

Usable(i, c) == /\ CallOf[i] = c
                /\ grant[i].approved
                /\ ~grant[i].consumed
                /\ grant[i].live

(***************************************************************************)
(* consume_grant takes the newest grant for the same call, whichever       *)
(* invocation it was recorded for.                                         *)
(***************************************************************************)
Consume(t) ==
  /\ pc[t] = "gate"
  /\ \E i \in Invocations :
      /\ Usable(i, call[t])
      /\ \A j \in Invocations : Usable(j, call[t]) => grant[j].pos <= grant[i].pos
      /\ grant' = [grant EXCEPT ![i].consumed = TRUE]
      /\ own'   = [own EXCEPT ![t] = {i}]
      /\ pc'    = [pc EXCEPT ![t] = "replay"]
      /\ UNCHANGED row

(***************************************************************************)
(* No grant: the call is frozen under a fresh invocation id and pushed to  *)
(* the approval bus; whether or not that succeeds, it is blocked.          *)
(***************************************************************************)
Freeze(t) ==
  /\ pc[t] = "gate"
  /\ \A i \in Invocations : ~Usable(i, call[t])
  /\ pc' = [pc EXCEPT ![t] = "push"]
  /\ UNCHANGED <<row, grant, own>>

Push(t) ==
  /\ pc[t] = "push"
  /\ \/ \E i \in Invocations : /\ row[i] = "none"
                                /\ CallOf[i] = call[t]
                                /\ row' = [row EXCEPT ![i] = "pending"]
     \/ UNCHANGED row
  /\ pc' = [pc EXCEPT ![t] = "over"]
  /\ UNCHANGED <<grant, own>>

(***************************************************************************)
(* authorize needs no approval: it raises, denies the call, or allows it,  *)
(* and then the tool runs under no grant.                                  *)
(***************************************************************************)
Outright(t) ==
  /\ pc[t] = "gate"
  /\ pc' = [pc EXCEPT ![t] = "over"]
  /\ UNCHANGED <<row, grant, own>>

Gate(t) ==
  /\ Consume(t) \/ Freeze(t) \/ Push(t) \/ Outright(t)
  /\ UNCHANGED <<rowExec, lastExec, wireVars, appended, msg, call, ran>>

(***************************************************************************)
(* The replay is audited and the tool runs; a failing audit sink blocks    *)
(* the call with its grant already consumed.                               *)
(***************************************************************************)
Dispatch(t) ==
  /\ pc[t] = "replay"
  /\ pc' = [pc EXCEPT ![t] = "over"]
  /\ \/ ran' = [i \in Invocations |-> IF i \in own[t] THEN ran[i] + 1 ELSE ran[i]]
     \/ UNCHANGED ran
  /\ UNCHANGED <<busVars, wireVars, fileVars, msg, call, own>>

(***************************************************************************)
(* complete_grant, which needs the grant on file, and the answer.  A call  *)
(* the gate blocked returned a string like any other, and a tool's own     *)
(* exception comes back as one: only an exception of the middleware or of  *)
(* the file itself answers with an error.                                  *)
(***************************************************************************)
Complete(t) ==
  LET m == msg[t] IN
  /\ pc[t] = "over"
  /\ \E a \in {"error"} \cup IF m # NoMsg /\ OnFile(m) THEN {"ok"} ELSE {} :
       Answer(t, m, a)
  /\ UNCHANGED <<busVars, sent, waiting, fileVars, call, ran>>

-----------------------------------------------------------------------------
(* GRANT_TTL_S passes for grant i, and so for every older one.  The age of *)
(* a grant that is of no use any more is never looked at.                  *)
Age(i) ==
  /\ Usable(i, CallOf[i])
  /\ grant' = [j \in Invocations |->
                 IF grant[j].pos <= grant[i].pos THEN [grant[j] EXCEPT !.live = FALSE]
                                                 ELSE grant[j]]
  /\ UNCHANGED <<busVars, wireVars, appended, threadVars, ran>>

(* The service restarts: its threads are gone, the file is not.            *)
Restart ==
  /\ \E t \in Threads : pc[t] # "idle"
  /\ pc'  = [t \in Threads |-> "idle"]
  /\ msg' = [t \in Threads |-> NoMsg]
  /\ own' = [t \in Threads |-> {}]
  /\ UNCHANGED <<busVars, wireVars, fileVars, call, ran>>

Next ==
  \/ \E i \in Invocations : Approve(i) \/ Reject(i) \/ Lapse(i) \/ Age(i)
  \/ \E m \in waiting : Store(m) \/ SenderDies(m)
  \/ \E t \in Threads, m \in sent : Record(t, m)
  \/ \E t \in Threads, c \in Calls : AgentCalls(t, c)
  \/ \E t \in Threads : Claim(t) \/ Gate(t) \/ Dispatch(t) \/ Complete(t)
  \/ Restart

Spec == Init /\ [][Next]_vars

-----------------------------------------------------------------------------
(* Properties.                                                             *)

TypeOK ==
  /\ row      \in [Invocations -> Row]
  /\ rowExec  \in [Invocations -> 0..MaxExecutions]
  /\ lastExec \in 0..MaxExecutions
  /\ sent     \subseteq Message
  /\ waiting  \subseteq Message
  /\ answer   \in [Executions -> {"none", "ok", "error"}]
  /\ grant    \in [Invocations -> Grant]
  /\ appended \in Nat
  /\ pc       \in [Threads -> Pc]
  /\ msg      \in [Threads -> Message \cup {NoMsg}]
  /\ call     \in [Threads -> Calls]
  /\ own      \in [Threads -> SUBSET Invocations]
  /\ ran      \in [Invocations -> Nat]

(* Thread t is about to run the tool under the grant of invocation i.      *)
Replays(t, i) == pc[t] = "replay" /\ i \in own[t]

(***************************************************************************)
(* One approval, one run: however a call is retried by its agent, its      *)
(* callback delivered again, its approval replayed after a lapsed lease or *)
(* the service restarted, the tool runs at most once under each            *)
(* invocation's grant (consumed_at, approval_grants.py lines 132-147).     *)
(***************************************************************************)
RanOnce == \A i \in Invocations : ran[i] <= 1

(***************************************************************************)
(* The tool runs under an invocation's grant only if an approver claimed   *)
(* that invocation and the decision on file is the approval: not if the    *)
(* first decision that arrived is a rejection, whatever the row, retries   *)
(* of the call and late callbacks then do (lines 65-78 and 140).  A row    *)
(* rejected after an approval whose sender died may still run: its first   *)
(* decision is the approval.                                               *)
(***************************************************************************)
RunsAreApproved ==
  \A i \in Invocations : ran[i] > 0 => rowExec[i] # 0 /\ grant[i].approved

(***************************************************************************)
(* At most one thread resumes an invocation, even when its callback is     *)
(* delivered twice or two executions of its row each send one              *)
(* (claim_resolution, lines 103-121).                                      *)
(***************************************************************************)
OneResume ==
  \A t, u \in Threads :
    /\ pc[t] \notin {"idle", "recorded"} /\ msg[t] # NoMsg
    /\ pc[u] \notin {"idle", "recorded"} /\ msg[u] # NoMsg
    /\ msg[t].inv = msg[u].inv
    => t = u

(***************************************************************************)
(* The planes agree: a row reads executed only if the decision on file     *)
(* bears the row's own execution id and its callback was taken up (the     *)
(* fence of approvals.ts lines 545-548 and the claim together).            *)
(***************************************************************************)
ExecutedIsOnFile ==
  \A i \in Invocations :
    row[i] = "executed" => /\ grant[i].approved
                           /\ grant[i].claimed
                           /\ grant[i].exec = rowExec[i]

-----------------------------------------------------------------------------
(* The inductive invariant behind the safety properties.  It needs a file  *)
(* that never trims a grant away.                                          *)

GrantsFit == Cardinality(Invocations) <= MaxGrants

(* Callbacks carry the execution id their row's claim drew, each its own.  *)
Messages ==
  /\ \A m \in waiting : m.approved
  /\ \A e \in Executions : answer[e] # "none" => e <= lastExec
  /\ \A m \in sent \cup waiting : m.approved =>
       /\ m.exec \in 1..lastExec
       /\ rowExec[m.inv] # 0
  /\ \A m, n \in sent \cup waiting :
       m.approved /\ n.approved /\ m.exec = n.exec => m = n

(* What is on file: approvals stand for a claimed row.                     *)
OnRecord ==
  \A i \in Invocations :
    /\ grant[i].approved => Present(i) /\ rowExec[i] # 0
    /\ grant[i].claimed  => grant[i].approved

(* A thread past Record serves the callback whose decision is on file.     *)
Serving ==
  \A t \in Threads :
    /\ pc[t] = "recorded" => msg[t] # NoMsg
    /\ pc[t] # "idle" /\ msg[t] # NoMsg =>
         /\ OnFile(msg[t])
         /\ msg[t].approved /\ grant[msg[t].inv].approved
         /\ pc[t] # "recorded" => grant[msg[t].inv].claimed

(* A run uses up its grant: at most one thread is about to make it.        *)
Consumption ==
  /\ \A t \in Threads : pc[t] = "replay" => \E i \in Invocations : own[t] = {i}
  /\ \A i \in Invocations : ran[i] > 0 => grant[i].consumed /\ grant[i].approved
  /\ \A t \in Threads, i \in Invocations : Replays(t, i) =>
       /\ grant[i].consumed /\ grant[i].approved
       /\ ran[i] = 0
  /\ \A t, u \in Threads, i \in Invocations :
       Replays(t, i) /\ Replays(u, i) => t = u

(* A callback answered with success was taken up.                          *)
Answered ==
  \A m \in waiting :
    answer[m.exec] = "ok" => OnFile(m) /\ grant[m.inv].claimed

IInv == /\ TypeOK
        /\ Messages
        /\ OnRecord
        /\ Serving
        /\ Consumption
        /\ Answered
        /\ RanOnce
        /\ OneResume
        /\ ExecutedIsOnFile

=============================================================================
