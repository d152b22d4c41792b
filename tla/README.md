# RoveFrame: a verification project

TLA+ models of RoveFrame, the configurations with which TLC checks them, and
theorems about them that the TLA+ proof system checks. Paths below are relative
to the repository, which is `src/` here: `src/src/lib/...` is the repository's
`src/lib/...`.

1. [The system](#1-the-system)
2. [Inventory](#2-inventory)
3. [The plan](#3-the-plan)
4. [How the modules correspond to the code](#4-how-the-modules-correspond-to-the-code)
5. [What is checked](#5-what-is-checked)
6. [What is proved](#6-what-is-proved)
7. [What the code does not keep](#7-what-the-code-does-not-keep)
8. [What is not modelled](#8-what-is-not-modelled)

## 1. The system

RoveFrame runs small businesses: shops, restaurants, delivery. It has two planes.

* The **control plane** is a Next.js application over Postgres (`src/src`). Its
  request handlers and its scheduler are stateless: what they share is rows, and
  what keeps them from treading on one another is conditional updates
  (`UPDATE ... WHERE status = ...`), unique keys, and two SQL functions that claim
  rows with `FOR UPDATE SKIP LOCKED` (`src/scripts/migrate.sql`). There are no
  transactions that span statements: every `await` of a Supabase call is its own.
* The **execution plane** is a FastAPI service (`src/roveagent`) that runs agents
  and their tools, in threads, with JSON files for state. It reaches back to the
  control plane over HTTP. Beside it the agent runtime has two schedulers of its
  own, which several processes of one host share: **cron jobs**
  (`src/roveagent/cron`: `jobs.json` under file locks, a ledger of executions in
  SQLite) and the **Kanban board** (`src/roveagent/clisupport/kanban_db.py`: tasks and
  runs in SQLite, a dispatcher that spawns a worker process for each).

Money, mail to customers, and whatever an agent wants to do that is sensitive go
through **approvals**: a row freezes the action, a human decides, and the process
that takes the decision carries the action out. Work that must survive a process
goes through **leased queues**: tasks, mail, notifications. A scheduler tick, once
a minute, drives the queues (`src/src/lib/scheduler.ts`):

    tick -> pollAndExecuteTasks          agent_tasks, agent_task_runs
         -> processEmailSendQueue        email_send_tasks
         -> dispatchNotificationOutbox   notification_outbox
         -> per business: briefing, alerts, Telegram, synchronisation

    agent's tool call -> gate_hook -> (sensitive) -> approval row
    approver -> processApproval -> frozen refund, draft, reply, campaign, or
             -> signed callback -> approval_grants -> gate_hook -> the tool

    gateway, desktop, command line: each ticks -> jobs.json -> run -> delivery
    dispatcher -> claim -> worker process -> verdict; operator at the board

`README.md:543` asks for a single replica with one scheduler. That does not make
the workers sequential: a tick that takes more than ten minutes is overtaken by
the next (`scheduler.ts:577-592`), handlers of requests run beside it, and a
deployment that is being replaced has two processes for a while. The modules
therefore let several workers poll at once and share nothing but the database.

**What is hard here** is the same everywhere: a decision taken on a row that was
read earlier; a process that dies between two statements; a lease that runs out
while its holder is alive; an answer that is lost after the other side has acted;
a message delivered twice or late. None of it is reachable by the repository's
unit tests, which run one call at a time against a stub. `PROJECT.json` lists each
such place under "hazards", at its line, with the properties that watch it.

## 2. Inventory

For each component: the state it keeps, its operations, whom it talks to, and
what makes it correct.

### Modelled

**Approval bus** (`src/src/lib/agent/approvals.ts`, `audit.ts`). *State*: rows of
`agent_approvals` (status, `required_role`, `expires_at`, `consumed_at`,
`execution_id`) and `audit_events`. *Operations*: `createPendingApproval`,
`processApproval` (read, recover a lapsed lease, check, expire, reject or claim,
execute, store the outcome), best-effort audit at each turn. *Talks to*: Stripe,
drafts and replies in the same database, the execution plane. *Correct if* one
execution at a time owns a row within its lease; stored outcomes are those of the
execution they name; decisions are final, made in time, and by a sufficient role;
refunds and replies take effect once.

**Tool grants and the enterprise gate** (`roveagent/enterprise/*.py`, `resolve_tool`
of `roveagent/api/app.py`, `src/src/lib/roveagent/client.ts`). *State*: the grants
file (`approved`, `execution_id`, `claimed`, `consumed_at`, age), the bus's rows.
*Operations*: block and freeze a call; take a callback, record it, claim it,
resume the call through the gate, consume the grant, run the tool, complete;
trim and age grants. *Correct if* an approval lets the tool run once, no frozen call
runs without one, however the callback is delivered or the agent retries, and the
planes agree on what was executed.

**Task queue** (`src/src/lib/agent/tasks/worker.ts`, `claim_agent_task_runs`).
*State*: `agent_tasks.next_run_at`, `agent_task_runs` (status, attempt,
`available_at`, `claimed_at`). *Operations*: create tasks, enqueue a due slot and
advance, claim with lease recovery, execute, complete, fail and retry. *Correct
if* no slot is skipped, a run has one holder, a finished run stays so, nothing
reads running for ever, and a budget of attempts holds.

**Outgoing mail** (`email/outgoing.ts`, `agent/recovery-campaign.ts`,
`marketing/send`, `email/unsubscribe.ts` and its route). *State*:
`email_send_tasks`, `marketing_contents`, `email_unsubscribes`. *Operations*: write
a campaign and its rows, queue a newsletter, recover stale rows, select, read the
opt-outs, skip or claim, send, write the outcome, complete the campaign; opt out
by hand or by link. *Correct if* one worker sends a mail, a mail is repeated only
for a fault, budgets hold, a campaign reads sent when it is, opt-outs are heeded,
and every mail settles.

**Payments** (`payments/checkout`, `webhooks/[provider]`, `payments/refund`,
`payments/reconcile`). *State*: the row in `payments`, receipts in
`payment_events`. *Operations*: open a checkout, take Stripe's events, refund
under an approval, reconcile. *Correct if* the row claims neither money nor
refunds that are not there, and no event is handled twice at once, acknowledged
unapplied, or lost.

**Kanban board** (`roveagent/clisupport/kanban_db.py`, with the worker's tools in
`tools/kanban_tools.py`). *State*: `tasks` (status, `claim_lock`, `claim_expires`,
`worker_pid`, `current_run_id`, `consecutive_failures`), `task_links`, `task_runs`,
events. *Operations*: claim and spawn; the worker completes, blocks, asks for
review or for changes, and beats its claim; the dispatcher releases stale claims,
times runs out, detects crashes and accounts for them, promotes; the operator
unblocks, promotes, reclaims, reopens, schedules, archives, drags. *Correct if* two
workers never share a task, the rows of runs and tasks agree, nothing stands on an
unfinished parent, an interrupted review is taken up as one, failures end at the
breaker and stay there, and a task whose worker died is taken back.

**Cron jobs** (`roveagent/cron/jobs.py`, `scheduler.py`, `executions.py`). *State*: the
record of a job (state, `next_run_at`, `repeat`, `run_claim`, `fire_claim`), the
ledger of its executions, the set of runs in each process, two locks. *Operations*:
the tick scans, advances and submits; a provider's callback and a person start a
run; a run claims the fire, beats its claim, dispatches, delivers under the fence
and is recorded, or raises and sends a notice of the failure; shutdown, crash and
recovery; the operator pauses, resumes, triggers, re-arms, removes. *Correct if* a
job is not run twice at once, an occurrence is run within its budget, results are
delivered by the claim's owner alone, the ledger is closed once, and a due job is not forgotten.

### Not modelled yet

| component | state | what is hard | what makes it correct |
|---|---|---|---|
| Scheduler tick | in-process lock, `cron_state` slots, alert watermarks, Telegram offsets | an overtaken tick releases its successor's lock; a slot is claimed before the send | one tick at a time; a briefing once per slot |
| Notification outbox | `notification_outbox` | partial delivery to several subscriptions, stale recovery that charges twice | an item is delivered or given up, within its budget |
| AI router, circuit breaker | breaker per provider | concurrent requests share one probe | a recovered provider is used again |
| Store orders and delivery | orders, deliveries | idempotency with compensation; two riders | one rider; a retry is answered with the truth |
| Coding agent | proposals, git worktree | apply, gate, revert and roll back in steps | status says what is merged |
| Audited mutations | three audit rows | an audit that fails before or after the handler | no mutation without its started event |
| Task store | versioned tasks | optimistic updates by concurrent requests | no lost update, no double execution |
| Connectors | cursors | a cursor moved before its rows | nothing skipped |
| Plugin centre | install, enable, remove | steps of one install failing | no half-installed plugin is loaded |

The remaining components (chat and gateway, agent loop, identity, rate limits,
metrics, artifacts, CRUD routes, the rest of the agent runtime, the user interface,
deployment) are listed in `PROJECT.json` with the reason each stays out: pure
reading, one statement per operation, sequential within a request, third-party,
or input and output.

## 3. The plan

The order is by what a mistake costs: money and irreversible actions first, then
mail to customers, then work that is merely lost or repeated.

| # | module | models | composes or refines | state |
|---|---|---|---|---|
| 1 | `Approvals` | the bus, every `await` a step | implements `ApprovalContract` | checked, proved |
| 2 | `ToolGrants` | callback, grants file, gate | takes the bus in coarse steps | checked, proved |
| 3 | `TaskQueue` | schedule, claims, retries | | checked, proved |
| 4 | `EmailQueue` | queue, campaigns, opt-outs | campaign, queue and opt-outs in one module | checked, proved |
| 5 | `Payments` | row, webhook, refunds, reconciliation | refunds under an approval | checked, proved |
| 6 | `Kanban` | board, dispatcher, workers, operator | all four in one module | checked, proved |
| 7 | `Cron` | a job, its runs, the processes, the operator | tick, callback and manual run over one record | checked, proved |
| 8 | `CircuitBreaker` | one breaker, concurrent requests, probe | | planned |
| 9 | `Delivery` | an order with its compensation, riders | | planned |
| 10 | `Outbox` | claim, partial delivery, stale recovery | a sibling of `EmailQueue` | planned |
| 11 | `SchedulerTick` | the lock, slots, watermarks | drives 3, 4, 10 | planned |
| 12 | `CodingAgent` | apply, gate, revert, roll back | | planned |
| 13 | `TaskStore`, `AuditedMutation` | optimistic versions; three audit rows | | planned |

*Abstract specifications.* `ApprovalContract` is done. Worth stating next: a leased
queue (a job waits, is held, is settled; every hold ends; a settled job stays so)
that `TaskQueue`, `EmailQueue` and `Outbox` each implement up to the deviations of
section 7; and an account (money in, money out, never more than was paid) for
`Payments`.

*Runs.* One exhaustive safety run per module with the smallest instance in which
two actors conflict, one fault may hit any step, and something is retried;
liveness on a smaller instance; one run per statement of the documents that the
code contradicts. The planned modules get the same, and small questions about one
module are put to a run it already has.

*Theorems.* For each module its type invariant and its safety properties, from one
inductive invariant per module; the refinement of each abstract specification.
Still wanted: what of `OneWorker`, `PhaseKept` and `RetriesEnd` holds beside an
operator, the leased-queue refinements, and the breaker's and the riders' exclusion.

*How modules are written.* Parameters are CONSTANTS with named assumptions; every
operation is an action; invariants are conjunctions of named parts; recursion is
not used. `MC<Module>.tla` gives instances to TLC and replaces nothing.
`<Module>Proofs.tla` holds the proofs. Definitions commented "Slip:" are plausible
mistakes in the definition that follows them. The specification does not use
them: they are what the properties are tried out against, and each property is
violated when one of them takes its neighbour's place.

## 4. How the modules correspond to the code

`PROJECT.json` maps every definition to its lines. The conventions are common:

* A statement on the database, a SQL function, or a file operation under its lock
  is **one atomic step**. Between two of them anything may interleave. `pc[s]` is
  where a request, worker, thread or handler stands; its other local variables are
  exactly what the code holds in variables across an `await`.
* A **fault** is a process that dies, a statement that fails, or an answer that is
  lost after the statement took effect. `MaxFaults` bounds them, except in
  `Approvals` and `ToolGrants`, where they cost no counter and are not bounded.
* In the execution plane a step is a write transaction of SQLite (`Kanban`) or what
  runs under `_jobs_lock` (`Cron`); a signal sent, a process spawned, a row read
  before the transaction is a step of its own.
* **Time.** `Approvals` has a clock, since expiry and lease are compared. The
  others replace each timestamp by a flag that is raised when its time has come,
  at any moment from then on.
* **History variables** (`recovered`, `lapsed`, `stale`, `early`, `repeated`,
  `orphaned`, `tries`, `delivered`, `ran`, `applied`, `clicked`; `asked` and `tried` of
  `Kanban`, `slept`, `began`, `occ` and `uncounted` of `Cron`) decide nothing;
  properties are stated with them.

### Approvals

`Create` is `createPendingApproval`. A session runs `processApproval`:
`Fetch` (the read of the row), `Recover` and `AuditRecovered`
(`recoverExecutingApproval`), `Check` (role, status and expiry of the snapshot),
`Expire`, `Reject` or `Claim` (the compare-and-set on `pending`, drawing an
execution id), `AuditApproved`, `Run` (`executeFrozenApproval`), `Persist` (the
update fenced by status and execution id), `Fail` (the catch block, with the same
fence), `AuditOutcome`. `Crash` ends a session anywhere. The side effects of a row
are a set of keys: an action with an idempotency key has one, the drafts have one
per execution (`EffectKey`).

`ApprovalContract` has no sessions, clock, leases or ids: an action is submitted,
refused or granted, takes effect only after a grant, and is reported done only
after it took effect. `Approvals!Contract` maps `status` to its phase, a row that
ever had an execution id to `granted`, and a non-empty set of effects to
`applied`.

### ToolGrants

The bus appears in one step per decision (`Approve`, `Reject`, `Lapse`, `Store`,
`SenderDies`); a lease may lapse at any time, which the clock of `Approvals`
refines. A callback, once sent, stays in `sent`: delivered late, again, or never.
`Record` is `record_grant` with the trimming of `_save`; `Claim` is
`claim_resolution`; `AgentCalls` is a call an agent makes itself; `Gate` is
the middleware's decision: `Consume` (`consume_grant`), `Freeze` (no grant was
found) and then `Push` (`push_requires_approval`, whose row may or may not arrive),
or `Outright` (the policy allows, denies or raises, and no grant is looked at);
`Dispatch` runs the tool; `Complete` is
`complete_grant` and the answer; `Age` is the grants' time to live; `Restart` ends
every thread and keeps the file.

### TaskQueue

Slot `s` of a task is its `s`-th `next_run_at`; a run is a task, a slot and an
attempt, which is what its `idempotency_key` consists of. `Create`,
`CreateInitial` are `ensureSystemAgentTasks` and `createAgentTask`; `Snapshot`,
`Enqueue`, `Advance`, `UpsertFails` are `enqueueDueTaskRuns`; `Claim` is the SQL
function with its lease recovery, atomic as a whole; `Work`, `Complete`,
`CompleteIsLost`, `FailAgain`, `InsertRetry`, `FailLast` are the loop of
`pollAndExecuteTasks` over its claims.

### EmailQueue

A row is a campaign (0: none, a newsletter) and a recipient. `Execute`, `Insert`,
`InsertFails` are `executeRecoveryCampaign`; `Newsletter` is `marketing/send`;
`OptOut` and `Click` are `recordUnsubscribe` by the owner and by the link. A
worker: `Start`, `Recover` (`recoverStaleEmailSends`), `Select` (the snapshot of
the due rows with their attempts), `ReadList` (the opt-outs, once per batch),
`Skip`, `Claim`, `Accept` or `Refuse` (the mail server), `MarkSent`, `MarkFailed`,
then `Check` and `Close` for each campaign it touched
(`finalizeCampaignIfComplete`). `claimed_at` is when the poll began, so a lease may
be over as soon as it is taken; `Slow` says whether that happens.

### Payments

Stripe is external: an intent may be processing for a while, a declined card leaves
it open, a payment has two events of success (the session's and the intent's); it
refunds no more than was paid and once per idempotency key, and sends an event until
it is answered with 200. `InsertPayment`
to `CheckoutDies` are `createCheckout`; `Receive` (the insert of the receipt),
`Apply`, `Complete`, `Undo` and their failures are `handleStripeWebhook`;
`Request`, `ReadPayment`, `CallStripe`, `Persist` are the refund from its request
to the frozen execution; `RetrieveIntent` and `UpdateReconciled` are
reconciliation. None of the writes to the row looks at what it has become, and
the model has them so.

### Kanban

`Claim`, `Spawn`, `SetWorkerPid`, `SpawnFailed` are the ready and review lanes of
`_dispatch_once_locked`; a worker's process then decides: `WorkerComplete` with
`WorkerClear` and `WorkerPromote` (the two transactions after the one that
completes), `WorkerBlock`, `WorkerRequestReview`, `WorkerRequestChanges`,
`Heartbeat`, or `Exit`, clean, by rate limit or by a crash. The passes of the tick:
`ReclaimStart` and `Reclaim` (`release_stale_claims` and `detect_stale_running`, the
signal and the transaction), `TimeoutStart` and `Timeout` (`enforce_max_runtime`),
`DetectCrashed` and one `Account` for each crash it found, `DispPromote`
(`recompute_ready`). `DispDies` loses what the dispatcher held in memory. The
operator: `OpComplete` to `OpDrag`, with `OpReclaimStart`, `OpReclaim`, `OpClear`,
`OpRecompute` for those that take several steps. A dragged card is read (`OpDrag`),
written in a transaction of its own (`OpSetStatus`, which may refuse), and then the
workers whose claims it took are killed (`OpKill`).
`TerminalClaim` is `kanban claim`. All crashes are taken to have one fingerprint, so
that three of them are systemic; whether a pid was recycled is left out.

### Cron

The functions treat each job by itself, so there is one, of either kind. A tick is
a scan (`ScanRecurring`, `ScanOnce`, or what else the scan does to the record:
`RetireMissed`, `RetireSpent`, `Sweep`), then `TickAdvance`, then `TickSubmit` or
`SubmitFails`. An attempt is a row of `att`: queued by the tick, a provider or a
person (`Start`), it has the claim (`Claim`, `ClaimRefused`), validates it
(`Validate`), is counted (`Dispatch`), ends (`RunEnds`), delivers (`EnterDelivery`,
`LeaveDelivery`, `SkipDelivery`), and is recorded (`Mark`, `Close`). An exception on
the way leads either to the record at once (`Raise`) or first to a notice of the
failure (`Warn`, `Warned`), which is sent without the fence after one look at the
claim. `Beat` and `BeatRun` are its heartbeats. `fence` is
`_fire_job_lock`: whoever does not have it in thirty seconds goes without, so that a
step that needs it while a delivery holds it fails. A claim becomes stale
(`AgeRun`, `AgeFire`) when nobody beats it, or at any time when the host sleeps
through its TTL (`Sleeps`), which is counted among the moves. `Inline` is whether the pool of background runs is ever at capacity.

## 5. What is checked

All runs are exhaustive on their instance. States are distinct states after
symmetry.

| run | states | instance |
|---|---|---|
| `approvals` | 881 thousand | 1 row, manager and owner, either required role, a refund or a draft, lease 2, time to live 3, clock to 5, 3 executions |
| `toolgrants` | 1.79 million | 2 frozen copies of one call, 2 threads, redelivery, 2 executions |
| `taskqueue` | 815 thousand | 1 task, slots 0 and 1, 2 attempts, 2 workers that may be late, 1 fault |
| `taskqueue_live` | 33 thousand | 1 task, slots 0 to 2, 1 attempt, 2 punctual workers, 1 fault, fairness |
| `email` | 1.28 million | 1 campaign of 2 mails, 2 attempts, 2 punctual workers, 1 fault |
| `email_newsletter` | 34 thousand | 1 newsletter mail, 2 workers that may be late, 1 fault, fairness |
| `payments` | 1.42 million | amount 2, a refund of half and one of the rest, 2 handlers, 1 fault |
| `kanban` | 862 thousand | 2 tasks, one the other's parent, 2 runs, 2 moves of the operator, runs that may be too long |
| `kanban_workers` | 52 thousand | 1 task, 3 runs, 1 death of the dispatcher, workers that survive SIGKILL, a terminal, fairness |
| `kanban_breaker` | until violated | 1 task, 3 runs |
| `cron` | 1.05 million | a one-shot, or a recurring job of two runs; 2 processes, 2 attempts, 1 further slot, 1 move, shutdown or sleep |
| `cron_wedged` | until violated | a one-shot, 2 processes, ticks alone, fairness |

**Why the bounds are enough for the interesting cases.** Rows do not interact in
`Approvals`, except through execution ids, so one row suffices; two sessions give
every race of a decision with another, a recovery or a replay; three executions
give a replay of a replay; a lease shorter than the time to live lets a row be
recovered and still be decided, and a clock past both lets it expire afterwards.
In `ToolGrants` the hard case is two approvals of the *same* call, since a grant is
consumed by call and not by invocation; two executions are a replay after a lapsed
lease. In the queues, two workers conflict, two attempts retry, and one fault
hits any one step of either; `TaskQueue`'s slot 0 and 1 are the initial run and a
scheduled one, and the live run has two scheduled slots so that a snapshot can be
old. In `Payments` half and the rest compete for one amount. In `Kanban` a child and its
parent are what the premise is about, and two moves take a task back and forth;
three runs are what a breaker with limit one and a streak of violations needs to
trip. In `Cron` two processes race, two attempts overlap or repeat, and one further
slot tells a repeated slot from the next one; a move can be a re-arm, which is a
second occurrence of a one-shot, or a sleep, after which another takes a live claim. For the safety properties the bounds do not matter
in the end, under the hypotheses that section 6 names.

**What the passing runs show.**

* *Approvals*: `OneLiveExecution` (the claim is exclusive inside its lease),
  `ExecutedHadItsEffect` and `FailedHasNoExecutor` (stored outcomes are those of
  the execution the row names, whoever else is still at it), `FirstRefusalHolds`,
  `FinalIsFinal`, and `ImplementsContract`, the refinement. Parts of `IInv` that are
  worth a name: `OneExecution` (an action is one execution's until its lease is
  recovered, so that what takes effect twice is a recovery's replay) and
  `AuditIsTruthful`.
* *ToolGrants*: `RanOnce`, `RunsAreApproved`, `OneResume`, `ExecutedIsOnFile`. Runs
  are those under a grant; a call that the policy allows outright needs none.
* *TaskQueue*: `NoSlotSkipped`, `OneHolder`, `OverStaysOver`; live: `SlotIsEnqueued`,
  `RunningEnds`.
* *EmailQueue*: `OneSender`, `SentOncePerFault`, `BudgetKept`, `SentIsComplete`,
  `SettledIsFinal`, `OptOutsAreHeeded`; live: `TasksSettle`.
* *Payments*: `OneHandler`, `PaidIsReal`, `RecordedIsReturned`, `OpenIsHeld`; in
  `IInv` also `AcknowledgedIsApplied`.
* *Kanban*: `Ledger` (in `IInv`), `PremiseHolds`; with dying workers and dispatchers
  `OneWorker`, `PhaseKept`, `RetriesEnd`; live: `Recovered`.
* *Cron*: `FenceHolds`, `DeliversAlone` (results and failure summaries leave under the
  fence) and `LedgerAgrees` (in `IInv`), `OneRunner` (which counts whoever sends the
  notice of an exception too), `OccurrenceOnce`.

Each module's `IInv`, which begins with its type invariant, is an invariant of its
safety run.

Several properties are stated with an exception, and the exception is the finding:
`OneHolder`, `OneSender`, `SentOncePerFault`, `SettledIsFinal` leave out rows whose
lease was outlived by a live holder, because outcomes are written by id alone and
nothing then holds; `BudgetKept` leaves out rows claimed from an outdated snapshot;
`SentIsComplete` those campaigns that were found complete while still being
written; `RecordedIsReturned` payments with a refund executed again after a crash;
`FirstRefusalHolds` rows whose lease was ever recovered; `OneRunner` runs that slept
through their claim or were told to stop by a shutdown; `Ledger` boards where a
terminal claims by hand. Of `OneRunner` two more have to be named: manual runs that
find the pool full (`Inline`, section 7), and manual runs that outlast
`sweep_stale_inflight`, which every tick calls and the model leaves out: its
`mark_job_run` names no owner (`scheduler.py:1239-1246`) and may clear the claim of a
live run. `DeliversAlone` is about results; the notice of an exception is sent without
the fence (`scheduler.py:7576-7608`), and of it only `OneRunner` says something.
`OccurrenceOnce` does not count the run of a one-shot whose record was removed between
its claim and its dispatch, which `claim_dispatch` lets pass (`jobs.py:3299-3304`), and
counts a slot of a recurring job for the ticks alone: a provider's callback fires
whatever the schedule says. `RunsAreApproved` is about the first decision on file: a
row rejected after it was approved, its sender dead and its lease over, may have run.

**Fairness.** Safety runs assume none. The live runs assume:

* `TaskQueue`, `EmailQueue`: weak fairness of each worker's `Poll(w)` as a whole.
  The scheduler calls the workers every minute, and a poll goes on as long as its
  handler or the mail server returns; one that never returns is outside these runs.
  A fault is never fair: a worker may die, and its successor polls. Leases and schedules run out by
  themselves: weak fairness of `Expire` (and `Due` in `EmailQueue`, where a row that
  is never due would never be sent).
* `Payments`: an event is received by some handler as long as it may be (Stripe
  sends it again until it gets 200), and a handler goes on while its process
  lives. No fairness for customers, owners or reconciliation.

* `Kanban`: the dispatcher goes on with what it has begun, takes every pass in its
  ticks (strong fairness of the two passes the property needs, because another pass
  may be under way at any one moment), and a claim that nobody extends expires.
  Nothing is assumed of workers or of the operator.
* `Cron` (`cron_wedged`): a process that is alive ticks and recovers the ledger, its
  attempts go on, time passes. The counterexample needs no unfairness: nothing is
  left that could move.

In particular nothing assumes that a *given* row is picked, that a mail is
accepted, or that a human decides.

**Deadlock** is checked for the queues. `Approvals`, `ToolGrants`, `Payments`, `Kanban` and `Cron` may
really stop: everything is decided, or the bounds on time, executions, runs and
attempts are reached.

## 6. What is proved

For every value of the constants, with the assumptions that the modules declare
(`Amount`, `Lease`, `MaxAttempts` positive, bounds natural, and so on). The
sets of rows, sessions, workers, recipients, refunds, handlers, tasks and processes
may be any sets; only `ToolGrants` needs its invocations finite, to count them. The
links of `Kanban` may be any relation, with cycles too.

| module | theorems |
|---|---|
| `ApprovalsProofs` | `TypeCorrect`, `Invariance`, `Exclusive`, `ExecutedIsEffective`, `FailureIsOwn`, `FirstRefusalIsFinal`, `RepeatsAreReplays`, `AuditTruthful`, `DecisionsAreFinal`, `Refinement` |
| `ToolGrantsProofs` | `Invariance`, `ToolRunsOnce`, `ToolRunsApproved`, `ResumedByOne`, `PlanesAgree` |
| `TaskQueueProofs` | `Invariance`, `ScheduleSkipsNothing`, `RunsAreExclusive`, `OverIsFinal` |
| `EmailQueueProofs` | `TypeCorrect`, `Invariance`, `SendersAreExclusive`, `RepeatsHaveFaults`, `BudgetHolds`, `SentCampaignsAreComplete`, `SettledStaysSettled`, `OptOutsHold` |
| `PaymentsProofs` | `Invariance`, `TypeCorrect`, `ReceiptsExclude`, `EventsAreNotLost`, `ClaimsArePaid`, `RefundsAreBacked` |
| `KanbanProofs` | `Invariance`, `Premise` |
| `KanbanWorkersProofs` | `WorkAlone`, `Phases`, `RetriesAreBounded` |
| `CronProofs` | `Invariance`, `RunsWithinBudget`, `RunsAlone` |

Each specification has one inductive invariant, `IInv`, checked by TLC before it was
proved; `KanbanWorkersProofs` adds to it what holds while no operator is at work. A
module's proof has one step for each action and below it one for each conjunct the
action can disturb. Why the invariants are what they are:

* **Approvals.** The properties speak of rows, the code's fences of execution ids,
  so `ExecutionIds` says that an id is drawn once and never shared by two
  executors. `OwnerOrStale` is the heart: an executor either owns its row as
  claimed, or its lease is over, or it stored its success and only the answer was
  lost. From it follows exclusion; from it and `Progress` (what a control point
  says about the work done) that stored outcomes are truthful. `Untouched` is what
  makes a first refusal final, and `OneExecution` ties every effect of a row that was
  never recovered to the one id drawn for it (`RepeatsAreReplays`).
* **ToolGrants.** `Messages` (an approval's callback bears the id its claim drew),
  `OnRecord`, `Serving` (a thread past `Record` serves the decision on file),
  `Consumption` (a replaying thread owns exactly one grant, which has not run),
  `Answered`. The theorems assume `GrantsFit`, that the file never trims: with
  fewer places than invocations a late replay of a trimmed decision can run the
  tool again (section 7).
* **TaskQueue.** `Snapshots`: all earlier slots of a task in a worker's snapshot are
  in the table, so that even an old snapshot takes `next_run_at` back only to a slot
  whose predecessors are there. `Held`: a run no one was late with is running and
  not expired while held.
* **EmailQueue.** `Held` again; `TriesSpend` and `AttemptsLeft` tie what was tried to
  what is recorded, so that the budget holds through recovery; `DeliveriesHaveFaults`
  counts a delivery that is not on record against a fault; `Closing` says that a
  campaign being closed is over, which survives until the update because nobody
  queues a settled row. `OptOutsHold` is an action property: a worker that has read
  the opt-out does not have the row in `smtp`.
* **Payments.** `Handling` (a receipt has one handler from its insertion on),
  `NotYetPaid` (until the intent succeeded nothing anywhere says so), `Fits` and
  `Backed` (what is about to be written was returned by Stripe).

* **Kanban.** `Ledger` is the runs invariant, and inductive only with `PointersHold` and
  `DispAgrees`: `SpawnFailed`, `SetWorkerPid` and `Account` write by what the
  dispatcher remembers, so what it remembers must be a run that exists and a task
  that was taken back. A terminal's claim between a crash and its accounting breaks
  `Ledger` (section 7), so `IInv` has it where no terminal claims; what is left
  otherwise is that a pointer without a running task is an implementer's, on which
  `RetryStatus` depends. `PremiseHolds` is inductive over `IInv`. Every step is
  careful with each task: it becomes running, in review or done only with its parents
  done, and stops being done or archived only in the transaction that takes back what
  was built on it. For a dragged card that is the whole of the recursive query,
  `Descendants`, the least set that is closed under children; being closed is all the
  proof needs of it, so that it needs no induction and no acyclic links.
* **Kanban's workers.** The three theorems of `KanbanWorkersProofs` are about dispatchers,
  workers and terminals left to themselves (`MaxMoves = 0`), for an operator may break
  each: a drag or `reclaim_task` lets go of a claim whether or not its worker has
  died, a review that is dragged or scheduled loses its phase. `Quiet` says that a run
  that was not begun has no process and that the run about to be spawned is current.
  `WorkersHold` says that whoever works has the task's current run and that its pid is
  on the row or about to be; hence `~Torn`, for a dispatcher that dies in between
  leaves a worker without a pid, and `~(Runtime /\ Unkillable)`, for
  `enforce_max_runtime` releases the claim of a worker that survived it. `PhaseInv`
  ties the phase asked for to the row at rest, to the run while it runs, and to the
  failures still to be counted, which may block a task that has moved on. `RetryInv`
  is the account behind `RetriesEnd`: a counted failure pays for itself and for the
  violations that were let pass before it, what is not yet counted is a streak of
  violations or is about to be counted, and a task that may run again has failures to
  spare. `RetriesAreBounded` assumes `DefaultLimit <= FailureLimit`: crashes and timeouts
  are counted against `DEFAULT_FAILURE_LIMIT`, whatever `kanban.failure_limit` says; both
  are 2 as the board is shipped, and with a lower `kanban.failure_limit` a crash is
  retried beyond it.
* **Cron.** `DeliversAlone` needs `FenceHolds` (who delivers under the fence is the
  claim's owner, or there is no claim) and `TokensAgree`: a claim names an attempt that
  has claimed, and a token that is not the attempt's own never regains the claim.
  `GuardHolds` is `OneRunner` carried back to the claim: whoever is to run, awake and
  untold, holds the claim or delivers under the fence. It fails where a manual run
  acts on the record from before its claim, so `IInv` has it where the pool is never
  at capacity, and `RunsAlone` assumes `~Inline`; `MCCronInline.cfg` is the
  counterexample (section 7). It takes in the attempt that sends the notice of an
  exception, and so does `OneRunner`; of one that slept nothing is said
  (`MCCronNotice.cfg`). `SlotsAgree` says in whose hands a slot is between
  `advance_next_runs` and the dispatch, `BudgetHolds` that the runs of an occurrence
  are within what was counted, which `claim_dispatch` does before the run begins (but
  for those whose record was gone by then, `uncounted`);
  together they give `OccurrenceOnce` for any number of processes and crashes.

**Only model-checked**: everything about liveness (`SlotIsEnqueued`, `RunningEnds`,
`TasksSettle`, `Recovered`), for the prover does not do fairness or ENABLED. Every
safety property of the passing runs is stated by a theorem; those of `Kanban` and `Cron`
under the hypotheses above, which their runs satisfy. The violations of section 7 are
by nature TLC's. No module uses a recursive operator.

## 7. What the code does not keep

Sentences of the repository that the code contradicts. The first two are runs that
expect the violation; the others are configurations that `PROJECT.json` does not
list, one property each, to be run in the same way. Each ends with the shortest
behaviour TLC finds.

1. **A task the breaker has parked is let go by the same tick** (`kanban_breaker`).
   `kanban_db.py:4544`: the limit of `recompute_ready` resolves as the breaker's does
   "so the two never disagree about when a task is permanently blocked". A trip over
   protocol violations forces the block with `consecutive_failures` at one
   (`:9120`); `recompute_ready` looks at that counter alone (`:4576`) and sets the task
   ready. It is blocked and let go again with every run.
2. **A one-shot whose run died is never taken up again** (`cron_wedged`).
   `jobs.py:4178`: a claiming tick that dies "leaves a stale claim that expires [...]
   so the job is re-dispatched rather than wedged forever". A run claim is stale after
   half an hour; a one-shot is late after two minutes, and a late one-shot with a
   claim of any age is skipped (`:4060`, `:4083`).
3. **The record of a live run is deleted** (`MCCronRetired.cfg`, `RetiredIsIdle`).
   `jobs.py:4098`: "A live run must never have its job record deleted underneath it".
   A one-shot run by hand has no run claim. When it falls due meanwhile, the tick of
   another process finds the budget spent, since the live run has been counted, looks
   for runs in its own process only, and deletes the record.
4. **A manual run that finds the pool full has no heartbeat** (`MCCronInline.cfg`,
   `OneRunner`). The docstring of `run_one_job` says that it keeps an acquired claim
   alive for the full execution. `cronjob_tools.py:1398` passes on the record it read
   before the claim: without an owner there is neither heartbeat nor fence, and after
   five minutes another process may run the job beside it.
5. **A one-shot outruns its budget when its record is removed** (`MCCronRemoved.cfg`,
   `AtMostTimes`). `jobs.py:3231-3233`: claiming before the side effect makes sure that
   "a job that self-destructs fires at most `repeat.times` times". A run is counted and
   its process dies; another process claims the stale fire; the record is removed before
   it is dispatched, and `claim_dispatch` lets a missing record pass.
6. **A stale worker sends a failure alert beside the delivery of its successor**
   (`MCCronNotice.cfg`, `NoticeIsCurrent`). `scheduler.py:7585-7588`: a worker whose claim
   was taken over "must not send a failure alert on top of the replacement run's own
   delivery". The claim is looked at once, before, and the notice is sent without the
   fence: the host sleeps in between, and the claim goes to another.
7. **A refused action may have been executed** (`MCRefusalExecutes.cfg`).
   `docs/current/ARCHITECTURE.md:93`: "Rejection and expiry can never execute the
   action." Approve; the effect is applied; the process dies before storing it; a
   later decision recovers the lease and the row is rejected or expires. Without a
   recovery the sentence is true: `FirstRefusalHolds`, proved.
8. **The budget of attempts is not spent** (`MCTaskQueueBudget.cfg`). `README.md:64-65`
   promises "retry budgets". `failTaskRun` puts the failed row back to pending with
   its attempt unchanged (`worker.ts:358-359`) *and* inserts a row for the next
   attempt (`:374`): the first row is claimed, run and failed again without end.
9. **A campaign may read sending for ever** (`MCCampaignStuck.cfg`).
   `outgoing.ts:227` says that recovery keeps campaigns from never reading sent.
   Only campaigns of rows the same poll disposed of are completed: if the worker
   dies after its last row, or the last row is given up by recovery, no later poll
   has a row of the campaign.
10. **The unsubscribe link of a newsletter is answered with 404**
   (`MCUnsubscribe.cfg`). `unsubscribe/route.ts:15`: both methods take effect at
   once. The token of a mail is in `email_send_tasks.unsubscribe_token`; the lookup
   is in `email_unsubscribes`, into which a row comes only after the lookup.
11. **An event may stay unprocessed** (`MCPaymentsReceipt.cfg`). `ARCHITECTURE.md:105`:
   "receipts remain retryable until processing completes". A receipt has no lease:
   when its handler dies after the insert, every delivery is answered with 503.

Behaviours that the models have and no run singles out, because the repository
says nothing precise against them:

* A replay of the two draft actions inserts a second draft; they have no key.
* A row's expiry is compared when it is checked; the claim is a later statement and may
  land after it.
* A row whose approval was sent to the execution plane, and whose sender died, may be
  rejected once its lease is over; the callback, when it arrives late, runs the tool.
* A final status may stay without its audit event: the audit is best effort.
* A resumed call that the gate blocks returns a string, and the row reads executed
  (`app.py:834`, `:886`).
* The grants file keeps 500 entries; a replay of a trimmed decision runs the tool
  again (`MaxGrants = 1` shows it).
* After an outlived lease two workers, both within their leases, may share a run:
  the late one puts back by id what another has claimed.
* The last failed attempt writes a null into a column that forbids it; nobody
  looks, and the run reads running until its lease ends (`worker.ts:361`).
* A campaign executed again after it is complete writes to everybody again, and a
  campaign may be completed while its rows are still being inserted.
* The completion of a checkout session reads as paid. The model's customers pay at once;
  a method that settles later would read paid before its money is there.
* A payment's status is the last writer's: a late `payment_failed`, checkout's own
  update or reconciliation may overwrite it. It never claims money that is not
  there (`PaidIsReal`), but it may for a while deny money that is.
* A refund executed again after a crash adds its amount to
  `refunded_amount_minor` a second time.

* *Kanban.* A dispatcher that dies between the spawn and `_set_worker_pid` leaves a
  worker without a pid, and the claim's end puts a second one beside it (`Torn`).
  `enforce_max_runtime` does not look whether the worker survived its signal, as
  `release_stale_claims` does (`Runtime` with `Unkillable`). A claim from a terminal
  between a crash and its accounting gets its task blocked while it runs
  (`Terminals`). Dragging or scheduling a task in review loses its phase.
* *Cron.* A delivery of more than half a minute keeps the run's own heartbeat from the
  fence: the delivered run is recorded as interrupted. A manual run that its process
  refuses after the claim leaves the claim behind for five minutes. A recurring job
  whose submission fails after it was advanced loses the slot. A shutdown during a
  delivery waits for the fence in vain, and the run then leaves its record to the
  shutdown: nobody writes it. A trigger during a one-shot's run is swallowed.

And in components that are not modelled yet: an overtaken tick releases the
scheduler's lock (`scheduler.ts:589`); a half-open breaker whose probe ends in a
client error lets nobody through again (`ai/router.ts:587`); an order that was
cancelled in compensation keeps its idempotency key
(`store/delivery-orders/route.ts:349`); `business-context.ts:85` counts payments with
a status that nothing writes.

## 8. What is not modelled

* **Inside the modelled components**: validation of request bodies, the wording of
  mails, rate limits, cron expressions (slots are counted), providers other than
  Stripe, the limit of a mail batch, several businesses (each row carries its
  tenant, and nothing modelled crosses it), list and delete operations of the task
  routes. `PROJECT.json` names them per component; those components that leave an
  operation out are marked partly modelled.
* **Reads and writes taken together**: the status of a campaign and its rows
  (`EmailQueue!Check`), the lookup of a payment and its update in the webhook
  (`Payments!Apply`; rows are never deleted), the probe of a claim and the fenced save
  (`Cron!RunEnds`), a manual run's claim and its registration in the process
  (`Cron!Claim`).
* **Of modelled operations**: the event `approval.created` (best effort, and nothing
  depends on it); the leaked run that `claim_task` closes before it fails on a lock that
  is set (`kanban_db.py:4673-4703`), which needs a terminal's claim, a crash and an
  operator's move; the provenance of a reviewer (`kanban_db.py:6714-6734`), without
  which more is allowed than in the code; `sweep_stale_inflight`, the ownerless
  `mark_job_run` of the cronjob tool's error path (`cronjob_tools.py:1297-1303`), and a
  ledger that cannot be written.
* **The database** is taken to do what SQL says: a conditional update is atomic, a
  unique key admits one row, `SKIP LOCKED` gives a row to one claim. Row-level
  security is not modelled.
* **HTTP**: signatures are taken to be checked; a forged callback is out of scope.
* **Time**: flags may rise at any moment, so that clock skew between processes is
  covered in the queues, but `Approvals` has one clock.
* **Components**: the table of section 2 and "components" in `PROJECT.json`.

## Running it

    tlc -workers 2 -config MCApprovals.cfg MCApprovals
    tlapm ApprovalsProofs.tla

Every configuration names its module's instance in its first line; the passing runs
take from ten seconds to four minutes. The eleven configurations of section 7 are
meant to end with a violated property.
