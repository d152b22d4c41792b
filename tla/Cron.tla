--------------------------------- MODULE Cron ---------------------------------
(***************************************************************************)
(* A scheduled job of the execution plane (roveagent/cron): its record in  *)
(* jobs.json, the rows its attempts have in the execution ledger, the      *)
(* processes that tick, fire and run it, and the operator who pauses,      *)
(* triggers, re-arms or removes it.  The functions treat each job on its   *)
(* own, so there is one.                                                   *)
(*                                                                         *)
(* Two locks make the steps.  What runs under _jobs_lock is one step.  The *)
(* job's fire fence (_fire_job_lock) is held across the delivery of a      *)
(* result, and whoever cannot have it in thirty seconds goes without.  The *)
(* tick lock lets one process tick at a time, but a tick does not wait for *)
(* the attempts it submits, and providers and manual runs take no tick     *)
(* lock at all.  A process that dies never comes back: a restart is        *)
(* another process.                                                        *)
(***************************************************************************)
EXTENDS Naturals, Sequences, FiniteSets

CONSTANTS
  Procs,       (* The processes: gateway, desktop, command line.           *)
  NoProc,      (* The owner of no claim.                                   *)
  Jobs,        (* The jobs as created: schedule kind and repeat.times.     *)
  MaxAttempts, (* Bound on the attempts.                                   *)
  MaxDue,      (* Bound on how often the schedule falls due.               *)
  MaxMoves,    (* Bound on an operator's moves, shutdowns and host sleeps. *)
  Vias,        (* What starts attempts: the tick, a provider, a person.    *)
  Inline       (* Whether the pool of background runs may be at capacity.  *)

ASSUME ProcsAssumption  == NoProc \notin Procs
ASSUME JobsAssumption   == Jobs \subseteq [kind : {"once", "recurring"}, times : Nat]
ASSUME BoundsAssumption == /\ {MaxAttempts, MaxDue, MaxMoves} \subseteq Nat
                           /\ Vias \subseteq {"tick", "fire", "manual"}
                           /\ Inline \in BOOLEAN

VARIABLES
  job,    (* The record in jobs.json.                                      *)
  att,    (* The attempts, in the order they were started.                 *)
  up,     (* The processes that are alive.                                 *)
  ticker, (* The process inside tick(), and where it is.                   *)
  fence,  (* The attempt that holds the fire fence, or 0.                  *)
  moves   (* The moves made so far.                                        *)

vars == <<job, att, up, ticker, fence, moves>>

AttId == 1..MaxAttempts

(***************************************************************************)
(* A claim is stale past its TTL: 300 seconds for a fire claim, at least   *)
(* half an hour for a run claim.  next is the instant next_run_at names:   *)
(* the schedule's own (whose phase is at) or that of a run-now request     *)
(* (manual).  An instant is late once it is past its grace, 120 seconds    *)
(* for a one-shot.  occ counts the occurrences: the times a one-shot was   *)
(* armed, the slots and requests of a recurring job.                       *)
(***************************************************************************)
Phase        == {"future", "due", "late"}
RunClaim(p)  == [by |-> p, stale |-> FALSE]
FireClaim(a) == [by |-> a, stale |-> FALSE]
NoRun        == RunClaim(NoProc)
NoFire       == FireClaim(0)

Job == [present : BOOLEAN, kind : {"once", "recurring"}, times : Nat,
        completed : Nat, status : {"scheduled", "paused", "completed"},
        next : {"none", "at", "manual"}, at : Phase, manual : {"due", "late"},
        ran : BOOLEAN, run : [by : Procs \cup {NoProc}, stale : BOOLEAN],
        fire : [by : 0..MaxAttempts, stale : BOOLEAN], occ : Nat]

(***************************************************************************)
(* An attempt is queued, has the claim and validates it, commits the       *)
(* dispatch, runs, delivers and is recorded; then it is over, or it died   *)
(* with its process.  An exception on the way is notified, maybe, and      *)
(* recorded (failed).  owner is the fire claim its snapshot of the job     *)
(* names, runBy the run claim.  lost, cut: the run was told that its claim *)
(* is gone, that the process shuts down.  In the ledger, "ended" stands    *)
(* for completed and failed.  The history: slept, that its claim went      *)
(* stale in its hands; began, occ: what it ran for; uncounted: a one-shot  *)
(* ran although its record had been removed.                               *)
(***************************************************************************)
InRun  == {"validate", "dispatch", "run", "deliver", "sending", "mark", "notice",
           "failed", "close"}
Pc     == InRun \cup {"queued", "over", "dead"}
Beats  == InRun \ {"validate", "close"}
Acting == {"run", "deliver", "sending", "notice"}
Open   == {"claimed", "running"}
Attempt == [proc : Procs, via : {"tick", "fire", "manual"}, pc : Pc,
            ledger : Open \cup {"none", "ended", "unknown"},
            owner : 0..MaxAttempts, runBy : Procs \cup {NoProc},
            lost : BOOLEAN, cut : BOOLEAN, slept : BOOLEAN,
            began : BOOLEAN, occ : Nat, uncounted : BOOLEAN]

Attempts == DOMAIN att
Live(a)  == att[a].pc \notin {"over", "dead"}
Idle     == [pc |-> "idle", proc |-> NoProc, occ |-> 0]

(* create_job: scheduled, for an instant to come. *)
Init ==
  /\ \E j \in Jobs :
       job = [present |-> TRUE, kind |-> j.kind, times |-> j.times, completed |-> 0,
              status |-> "scheduled", next |-> "at", at |-> "future", manual |-> "due",
              ran |-> FALSE, run |-> NoRun, fire |-> NoFire, occ |-> 1]
  /\ att = <<>>
  /\ up = Procs
  /\ ticker = Idle
  /\ fence = 0
  /\ moves = 0

-------------------------------------------------------------------------------
(* The record. *)

Scheduled == job.present /\ job.status = "scheduled"
Finished  == job.status = "completed"
NextPhase == CASE job.next = "none" -> "future" [] job.next = "at" -> job.at
               [] OTHER -> job.manual
RunHeld   == job.run.by # NoProc /\ ~job.run.stale
FireHeld  == job.fire.by # 0 /\ ~job.fire.stale
Spent     == job.times > 0 /\ job.completed >= job.times
Once      == job.kind = "once"
Owns(a)   == job.present /\ att[a].owner # 0 /\ job.fire.by = att[a].owner

(* compute_next_run of a recurring schedule: the next slot is to come. *)
Advanced(j) == IF j.kind = "once" THEN j
               ELSE [j EXCEPT !.next = "at", !.at = "future", !.manual = "due"]

(***************************************************************************)
(* mark_job_run: the claims are released; a run that claim_dispatch        *)
(* counted is not counted again; the last run completes the job, a         *)
(* one-shot whatever is left of its budget.                                *)
(***************************************************************************)
Counted(j) == IF j.times = 0 \/ (j.kind = "once" /\ j.completed > 0)
              THEN j.completed ELSE j.completed + 1
Marked(j) ==
  LET done == [j EXCEPT !.ran = TRUE, !.completed = Counted(j), !.run = NoRun,
                        !.fire = NoFire, !.manual = "due"]
  IN  IF j.kind = "once" \/ (j.times > 0 /\ Counted(j) >= j.times)
      THEN [done EXCEPT !.status = "completed", !.next = "none"]
      ELSE [Advanced(done) EXCEPT !.status = IF @ = "paused" THEN @ ELSE "scheduled"]

(* finish_execution writes a terminal state once. *)
Settled(row, state) == IF row \in Open THEN state ELSE row

(* _running_job_ids, and with the runs of run_one_job get_running_job_ids. *)
Registered(p) ==
  \E a \in Attempts : /\ att[a].proc = p /\ att[a].via # "fire"
                      /\ att[a].pc \in InRun \/ (att[a].via = "tick" /\ Live(a))
RunningIn(p) == \/ Registered(p)
                \/ \E a \in Attempts : att[a].proc = p /\ att[a].pc \in InRun

-------------------------------------------------------------------------------
(* tick(): get_due_jobs, advance_next_runs, _submit_with_guard. *)

Room == Len(att) + (IF ticker = Idle THEN 0 ELSE 1) < MaxAttempts
TickMay(p) == p \in up /\ ticker = Idle /\ "tick" \in Vias /\ Room
TickGoesOn(p) == ticker' = [pc |-> "advance", proc |-> p, occ |-> job.occ]
Gone(j) == [j EXCEPT !.present = FALSE, !.next = "none", !.at = "future", !.manual = "due",
                     !.run = NoRun, !.fire = NoFire]
Removed == job' = Gone(job)
Ripe == Scheduled /\ ~(Once /\ RunHeld) /\ job.next # "none"

(* A recurring job that is due; past its grace, its slots are collapsed. *)
ScanRecurring(p) ==
  /\ TickMay(p) /\ Ripe /\ ~Once /\ NextPhase # "future"
  /\ job' = IF job.next = "at" /\ job.at = "late" THEN Advanced(job) ELSE job
  /\ TickGoesOn(p)
  /\ UNCHANGED <<att, up, fence, moves>>

(* A one-shot that is due is claimed for its run before it is returned. *)
ScanOnce(p) ==
  /\ TickMay(p) /\ Ripe /\ Once /\ NextPhase = "due" /\ ~Spent
  /\ job' = [job EXCEPT !.run = RunClaim(p)]
  /\ TickGoesOn(p)
  /\ UNCHANGED <<att, up, fence, moves>>

(* A one-shot past its grace that was never dispatched is retired; one     *)
(* with a claim, fresh or stale, is left as it is.                         *)
RetireMissed(p) ==
  /\ TickMay(p) /\ Ripe /\ Once /\ NextPhase = "late"
  /\ job.run.by = NoProc /\ job.fire.by = 0
  /\ Removed
  /\ UNCHANGED <<att, up, ticker, fence, moves>>

(* A one-shot that looks due and has used its budget is retired, unless    *)
(* this very process is running it.                                        *)
RetireSpent(p) ==
  /\ TickMay(p) /\ Ripe /\ Once /\ NextPhase = "due" /\ Spent /\ ~RunningIn(p)
  /\ Removed
  /\ UNCHANGED <<att, up, ticker, fence, moves>>

(* _sweep_completed_oneshots: completed and past its retention. *)
Sweep(p) ==
  /\ TickMay(p) /\ job.present /\ Once /\ Finished /\ job.ran
  /\ Removed
  /\ UNCHANGED <<att, up, ticker, fence, moves>>

\* Slip: the due jobs are submitted with their next run where it was.
SubmitAtOnce ==
  /\ ticker.pc = "advance"
  /\ ticker' = [ticker EXCEPT !.pc = "submit"]
  /\ UNCHANGED <<job, att, up, fence, moves>>

(* A recurring job moves on to its next slot before it runs. *)
TickAdvance ==
  /\ ticker.pc = "advance"
  /\ job' = IF job.present /\ ~Finished THEN Advanced(job) ELSE job
  /\ ticker' = [ticker EXCEPT !.pc = "submit"]
  /\ UNCHANGED <<att, up, fence, moves>>

Fresh(p, via) ==
  [proc |-> p, via |-> via, pc |-> "queued",
   ledger |-> IF via = "manual" THEN "none" ELSE "claimed",
   owner |-> 0, runBy |-> NoProc, lost |-> FALSE, cut |-> FALSE, slept |-> FALSE,
   began |-> FALSE, occ |-> 0, uncounted |-> FALSE]

(* Skipped while this process runs the job; otherwise registered, entered  *)
(* in the ledger and queued.                                               *)
TickSubmit ==
  /\ ticker.pc = "submit"
  /\ att' = IF Registered(ticker.proc) THEN att
            ELSE Append(att, [Fresh(ticker.proc, "tick") EXCEPT !.occ = ticker.occ])
  /\ ticker' = Idle
  /\ UNCHANGED <<job, up, fence, moves>>

(* The executor or the ledger refuses: clear_run_claim. *)
SubmitFails ==
  /\ ticker.pc = "submit" /\ ~Registered(ticker.proc)
  /\ job' = IF Once THEN [job EXCEPT !.run = NoRun] ELSE job
  /\ ticker' = Idle
  /\ UNCHANGED <<att, up, fence, moves>>

(* A provider's callback (claim_fire) or a person's cron run starts an     *)
(* attempt of its own, whatever the schedule says.                         *)
Start(p, via) ==
  /\ p \in up /\ via \in Vias \ {"tick"} /\ Room
  /\ att' = Append(att, Fresh(p, via))
  /\ UNCHANGED <<job, up, ticker, fence, moves>>

-------------------------------------------------------------------------------
(* An attempt, from its claim to its end. *)

Set(a, r) == att' = [att EXCEPT ![a] = r]
At(a, pc) == a \in Attempts /\ att[a].pc = pc

(* What a thread knew goes with it. *)
Stopped(r, pc, state) ==
  [r EXCEPT !.pc = pc, !.ledger = Settled(@, state), !.owner = 0, !.runBy = NoProc,
            !.lost = FALSE, !.cut = FALSE, !.slept = FALSE]
Ends(r) == Stopped(r, "over", "ended")

\* Slip: a fresh claim of another attempt does not count.
ClaimableOver(force) == job.present /\ ~Finished /\ (force \/ job.status = "scheduled")

Claimable(force) ==
  /\ job.present /\ ~Finished
  /\ force \/ job.status = "scheduled"
  /\ ~FireHeld

(***************************************************************************)
(* claim_job_for_fire, under the fire fence: the attempt's token is the    *)
(* owner, a recurring job moves on, and a forced fire resumes a paused     *)
(* one.  The snapshot it returns is what is run; but a manual run that     *)
(* found the pool at capacity runs the record it had read before the       *)
(* claim.  A manual run is refused after all while its process runs the    *)
(* job (try_register_running_job), and then the claim is left behind.      *)
(***************************************************************************)
Claim(a) ==
  /\ At(a, "queued") /\ fence = 0
  /\ \E force \in {FALSE, att[a].via = "fire"} :
       /\ Claimable(force)
       /\ job' = Advanced([job EXCEPT !.fire = FireClaim(a), !.status = "scheduled"])
  /\ \E before \in {FALSE, att[a].via = "manual" /\ Inline} :
       Set(a, IF att[a].via = "manual" /\ Registered(att[a].proc) THEN Ends(att[a])
              ELSE [att[a] EXCEPT !.pc = "validate", !.runBy = job.run.by,
                                  !.owner = IF before THEN job.fire.by ELSE a])
  /\ UNCHANGED <<up, ticker, fence, moves>>

(* A manual run is also refused at once while its process runs the job. *)
ClaimRefused(a) ==
  /\ At(a, "queued")
  /\ \/ fence # 0
     \/ ~Claimable(FALSE)
     \/ att[a].via = "manual" /\ RunningIn(att[a].proc)
  /\ Set(a, Ends(att[a]))
  /\ UNCHANGED <<job, up, ticker, fence, moves>>

(* A heartbeat that cannot have the fence, or finds another owner, fails. *)
BeatHolds(a) == fence = 0 /\ Owns(a)
Beaten == [job EXCEPT !.fire.stale = FALSE]

(* run_one_job: an attempt without an owner is not validated.  A manual    *)
(* run has no row in the ledger before.                                    *)
Validate(a) ==
  /\ At(a, "validate")
  /\ LET good == att[a].owner = 0 \/ BeatHolds(a)
     IN  /\ job' = IF BeatHolds(a) THEN Beaten ELSE job
         /\ Set(a, IF good THEN [att[a] EXCEPT !.pc = "dispatch",
                                  !.ledger = IF @ = "none" THEN "claimed" ELSE @]
                   ELSE Ends(att[a]))
  /\ UNCHANGED <<up, ticker, fence, moves>>

\* Slip: the budget of a one-shot is counted when its run ends.
DispatchLater(a) ==
  /\ At(a, "dispatch")
  /\ Set(a, [att[a] EXCEPT !.pc = "run", !.ledger = "running", !.began = TRUE])
  /\ UNCHANGED <<job, up, ticker, fence, moves>>

(***************************************************************************)
(* claim_dispatch and mark_execution_running.  A one-shot's run is counted *)
(* before it happens.  One without budget is not run: it completes if it   *)
(* has run before and is removed if not.  A record that is gone counts     *)
(* nothing and stops nothing.  A row that was settled stays settled.       *)
(***************************************************************************)
Dispatch(a) ==
  /\ At(a, "dispatch")
  /\ LET finite == job.present /\ Once /\ job.times > 0
         spent  == finite /\ Spent
         row    == IF att[a].ledger \in Open THEN "running" ELSE att[a].ledger
     IN  /\ job' = CASE spent /\ job.ran -> [job EXCEPT !.status = "completed", !.next = "none"]
                     [] spent /\ ~job.ran -> Gone(job)
                     [] finite /\ ~spent -> [job EXCEPT !.completed = @ + 1]
                     [] OTHER -> job
         /\ Set(a, IF spent THEN Ends(att[a])
                   ELSE [att[a] EXCEPT !.pc = "run", !.ledger = row, !.began = TRUE,
                           !.occ = IF Once THEN job.occ ELSE @,
                           !.uncounted = Once /\ ~job.present])
  /\ UNCHANGED <<up, ticker, fence, moves>>

(* The run ends, well or not; the claim is probed, and the output saved    *)
(* under the fence.                                                        *)
RunEnds(a) ==
  /\ At(a, "run")
  /\ LET holds == ~att[a].lost /\ BeatHolds(a)
     IN  /\ job' = IF holds THEN Beaten ELSE job
         /\ Set(a, IF holds \/ att[a].owner = 0 THEN [att[a] EXCEPT !.pc = "deliver"]
                   ELSE [att[a] EXCEPT !.pc = "mark", !.lost = TRUE])
  /\ UNCHANGED <<up, ticker, fence, moves>>

(* Nothing to deliver, or no longer the attempt to deliver it. *)
SkipDelivery(a) ==
  /\ At(a, "deliver")
  /\ Set(a, [att[a] EXCEPT !.pc = "mark",
                           !.lost = @ \/ (att[a].owner # 0 /\ ~BeatHolds(a))])
  /\ UNCHANGED <<job, up, ticker, fence, moves>>

\* Slip: the fence is taken without a look at the claim's owner.
MayDeliverAnyway(a) == fence = 0

(* fire_claim_fence: the fence, and under it still the owner. *)
MayDeliver(a) == ~att[a].lost /\ BeatHolds(a)

EnterDelivery(a) ==
  /\ At(a, "deliver") /\ (att[a].owner = 0 \/ MayDeliver(a))
  /\ fence' = IF att[a].owner = 0 THEN fence ELSE a
  /\ Set(a, [att[a] EXCEPT !.pc = "sending"])
  /\ UNCHANGED <<job, up, ticker, moves>>

LeaveDelivery(a) ==
  /\ At(a, "sending")
  /\ fence' = IF fence = a THEN 0 ELSE fence
  /\ Set(a, [att[a] EXCEPT !.pc = "mark"])
  /\ UNCHANGED <<job, up, ticker, moves>>

(* An exception on the way leads to the record of a failed run. *)
Raise(a) ==
  /\ \E pc \in {"dispatch", "run", "deliver", "mark"} : At(a, pc)
  /\ Set(a, [att[a] EXCEPT !.pc = "failed"])
  /\ UNCHANGED <<job, up, ticker, fence, moves>>

(***************************************************************************)
(* While nothing has been delivered, a notice of the failure is sent       *)
(* first, without the fence: what is asked is whether the claim was lost,  *)
(* once, before, and if that question raises too the answer is no.         *)
(***************************************************************************)
Warn(a) ==
  /\ \E pc \in {"dispatch", "run", "deliver"} : At(a, pc)
  /\ ~att[a].lost
  /\ job' \in {job} \cup {j \in {Beaten} : BeatHolds(a)}
  /\ Set(a, [att[a] EXCEPT !.pc = "notice"])
  /\ UNCHANGED <<up, ticker, fence, moves>>

Warned(a) ==
  /\ At(a, "notice")
  /\ Set(a, [att[a] EXCEPT !.pc = "failed"])
  /\ UNCHANGED <<job, up, ticker, fence, moves>>

(***************************************************************************)
(* The end.  A stranger's record is left alone.  A run cut by the shutdown *)
(* has been recorded by it, but one that was told it lost its claim, and   *)
(* still has it, records an interruption all the same.                     *)
(***************************************************************************)
Mark(a) ==
  /\ \E pc \in {"mark", "failed"} : At(a, pc)
  /\ LET writes == /\ job.present /\ fence = 0 /\ (att[a].owner = 0 \/ Owns(a))
                   /\ att[a].cut => att[a].lost /\ At(a, "mark")
     IN  /\ job' = IF writes THEN Marked(job) ELSE job
         /\ Set(a, [att[a] EXCEPT !.pc = "close"])
  /\ UNCHANGED <<up, ticker, fence, moves>>

Close(a) ==
  /\ At(a, "close")
  /\ Set(a, Ends(att[a]))
  /\ UNCHANGED <<job, up, ticker, fence, moves>>

(* The heartbeat of the fire claim; it stops once it has failed, and it    *)
(* fails while the attempt's own delivery keeps it from the fence.         *)
Beat(a) ==
  /\ a \in Attempts /\ att[a].pc \in Beats
  /\ att[a].owner # 0 /\ ~att[a].lost
  /\ IF BeatHolds(a) THEN job' = Beaten /\ UNCHANGED att
                     ELSE Set(a, [att[a] EXCEPT !.lost = TRUE]) /\ UNCHANGED job
  /\ UNCHANGED <<up, ticker, fence, moves>>

(* The heartbeat of a one-shot's run claim, while the agent works. *)
BeatRun(a) ==
  /\ At(a, "run") /\ job.present /\ Once
  /\ att[a].runBy # NoProc /\ job.run.by = att[a].runBy
  /\ job' = [job EXCEPT !.run.stale = FALSE]
  /\ UNCHANGED <<att, up, ticker, fence, moves>>

-------------------------------------------------------------------------------
(* Shutdown, death and recovery. *)

(* mark_running_jobs_interrupted, for a run inside run_one_job. *)
Interrupt(a) ==
  /\ moves < MaxMoves /\ a \in Attempts
  /\ att[a].pc \in InRun \ {"close"} /\ ~att[a].cut
  /\ job' = IF BeatHolds(a) THEN Marked(job) ELSE job
  /\ Set(a, [att[a] EXCEPT !.cut = TRUE])
  /\ moves' = moves + 1
  /\ UNCHANGED <<up, ticker, fence>>

Crash(p) ==
  /\ p \in up /\ up # {p}
  /\ up' = up \ {p}
  /\ ticker' = IF ticker.proc = p THEN Idle ELSE ticker
  /\ fence' = IF fence # 0 /\ att[fence].proc = p THEN 0 ELSE fence
  /\ att' = [a \in Attempts |->
       IF att[a].proc = p /\ Live(a) THEN Stopped(att[a], "dead", att[a].ledger) ELSE att[a]]
  /\ UNCHANGED <<job, moves>>

(* recover_interrupted_executions: the rows of processes that are gone. *)
Recover(p) ==
  /\ p \in up
  /\ att' = [a \in Attempts |->
       IF att[a].pc = "dead" THEN [att[a] EXCEPT !.ledger = Settled(@, "unknown")]
       ELSE att[a]]
  /\ UNCHANGED <<job, up, ticker, fence, moves>>

-------------------------------------------------------------------------------
(* Time. *)

Waits == job.present /\ ~Finished

FallsDue ==
  /\ Waits /\ job.at = "future" /\ (Once \/ job.occ <= MaxDue)
  /\ job' = [job EXCEPT !.at = "due", !.occ = IF Once THEN @ ELSE @ + 1]
  /\ UNCHANGED <<att, up, ticker, fence, moves>>

Later(j) == [j EXCEPT !.at = IF @ = "due" THEN "late" ELSE @,
                      !.manual = IF j.next = "manual" THEN "late" ELSE @]
GetsLate ==
  /\ Waits /\ Later(job) # job
  /\ job' = Later(job)
  /\ UNCHANGED <<att, up, ticker, fence, moves>>

(* A one-shot that was due when it was claimed is late long before the     *)
(* claim is stale.                                                         *)
Aged(j) == IF j.kind = "once" THEN Later(j) ELSE j

(* A claim that is beaten only gets stale if the host sleeps through its TTL. *)
Sleeps == moves < MaxMoves /\ moves' = moves + 1
Ages(beaten) == IF beaten THEN Sleeps ELSE UNCHANGED moves

(* The agent beats a run claim while it works. *)
AgeRun ==
  /\ Waits /\ RunHeld
  /\ Ages(\E a \in Attempts : At(a, "run") /\ att[a].runBy = job.run.by)
  /\ job' = Aged([job EXCEPT !.run.stale = TRUE])
  /\ UNCHANGED <<att, up, ticker, fence>>

(* The same of a fire claim and its owner's heartbeat. *)
Tended(a) == att[a].pc \in Beats /\ att[a].owner = job.fire.by /\ ~att[a].lost
AgeFire ==
  /\ Waits /\ FireHeld
  /\ Ages(\E a \in Attempts : Tended(a))
  /\ job' = Aged([job EXCEPT !.fire.stale = TRUE])
  /\ att' = [a \in Attempts |->
               IF Tended(a) THEN [att[a] EXCEPT !.slept = TRUE] ELSE att[a]]
  /\ UNCHANGED <<up, ticker, fence>>

-------------------------------------------------------------------------------
(* The operator. *)

Moves == moves < MaxMoves /\ moves' = moves + 1 /\ UNCHANGED <<att, up, ticker, fence>>

(* pause_job, resume_job and trigger_job; a finished job is refused. *)
Pause == /\ Moves /\ job.present /\ ~Finished
         /\ job' = [job EXCEPT !.status = "paused"]

Resume == /\ Moves /\ job.present /\ ~Finished /\ (Once => job.at # "late")
          /\ job' = [Advanced(job) EXCEPT !.status = "scheduled", !.next = "at",
                                              !.manual = "due"]

Trigger == /\ Moves /\ job.present /\ ~Finished
           /\ job' = [job EXCEPT !.status = "scheduled", !.next = "manual", !.manual = "due",
                                 !.occ = IF Once THEN @ ELSE @ + 1]

(* rearm_oneshot: a new occurrence, refused over a claim that is held. *)
Rearm == /\ Moves /\ job.present /\ Once /\ ~RunHeld /\ ~FireHeld
         /\ \E at \in {"future", "due"} :
              job' = [job EXCEPT !.completed = 0, !.run = NoRun, !.fire = NoFire,
                                 !.status = "scheduled", !.next = "at", !.at = at,
                                 !.occ = @ + 1]

Remove == Moves /\ job.present /\ Removed

-------------------------------------------------------------------------------
Tick(p)     == \/ ScanRecurring(p) \/ ScanOnce(p) \/ RetireMissed(p) \/ RetireSpent(p)
               \/ Sweep(p)
TickRest    == TickAdvance \/ TickSubmit
Progress(a) == \/ Claim(a) \/ ClaimRefused(a) \/ Validate(a) \/ Dispatch(a) \/ RunEnds(a)
               \/ SkipDelivery(a) \/ EnterDelivery(a) \/ LeaveDelivery(a) \/ Raise(a)
               \/ Warn(a) \/ Warned(a) \/ Mark(a) \/ Close(a)
Time        == FallsDue \/ GetsLate \/ AgeRun \/ AgeFire
Operator    == Pause \/ Resume \/ Trigger \/ Rearm \/ Remove

Next ==
  \/ \E p \in Procs : \/ Tick(p) \/ Crash(p) \/ Recover(p)
                      \/ \E via \in Vias : Start(p, via)
  \/ TickRest \/ SubmitFails
  \/ \E a \in AttId : Progress(a) \/ Beat(a) \/ BeatRun(a) \/ Interrupt(a)
  \/ Time
  \/ Operator

Spec == Init /\ [][Next]_vars

(***************************************************************************)
(* The scheduler loop of a process that is alive ticks every minute and    *)
(* recovers the ledger; its threads go on, a run ends (the inactivity      *)
(* watchdog ends one that hangs) and a delivery returns; time passes.      *)
(***************************************************************************)
FairSpec ==
  /\ Spec
  /\ \A p \in Procs : WF_vars(Tick(p)) /\ WF_vars(Recover(p))
  /\ WF_vars(TickRest)
  /\ \A a \in AttId : WF_vars(Progress(a))
  /\ WF_vars(FallsDue) /\ WF_vars(GetsLate) /\ WF_vars(AgeRun) /\ WF_vars(AgeFire)

-------------------------------------------------------------------------------
(* What the steps keep. *)

TypeOK ==
  /\ job \in Job
  /\ att \in Seq(Attempt)
  /\ Len(att) + (IF ticker = Idle THEN 0 ELSE 1) <= MaxAttempts
  /\ up \subseteq Procs
  /\ ticker \in [pc : {"idle", "advance", "submit"}, proc : Procs \cup {NoProc}, occ : Nat]
  /\ fence \in 0..MaxAttempts
  /\ moves \in 0..MaxMoves

(* The fence is held by an attempt that delivers, and while it is held no  *)
(* other attempt can come by the claim.                                    *)
FenceHolds ==
  fence # 0 => /\ At(fence, "sending")
               /\ job.present => job.fire.by \in {0, fence}

(* Of the attempts that have an owner's token, one delivers at a time.     *)
DeliversAlone ==
  \A a \in Attempts : At(a, "sending") /\ att[a].owner # 0 => fence = a

(* A ledger row is closed once its attempt is over, by it or by the        *)
(* recovery, and no attempt of a living process loses its row before.      *)
LedgerAgrees ==
  \A a \in Attempts :
    /\ att[a].pc = "over" => att[a].ledger \notin Open
    /\ Live(a) => att[a].ledger \in Open \cup {"none"}

(* A tick is under way in a process that is alive. *)
TickerLives == IF ticker.pc = "idle" THEN ticker = Idle ELSE ticker.proc \in up

(* A token names an attempt that has claimed; a token that is not the      *)
(* attempt's own (a record read before the claim) never regains the claim. *)
HasClaimed(x) == x \in Attempts /\ att[x].pc # "queued"
TokensAgree ==
  /\ job.fire.by # 0 => HasClaimed(job.fire.by)
  /\ \A a \in Attempts : LET x == att[a].owner IN
       /\ x # 0 => HasClaimed(x)
       /\ x \notin {0, a} => job.fire.by # x

(* Who is to run or runs, awake and untold, holds the claim while there is *)
(* a record, or delivers under the fence; there is one such attempt.       *)
Guarded(a) == att[a].pc \in {"dispatch"} \cup Acting /\ ~att[a].cut /\ ~att[a].slept
GuardHolds ==
  /\ \A a \in Attempts :
       /\ att[a].pc \in InRun => att[a].owner = a
       /\ att[a].pc \in {"queued", "validate"} => ~att[a].lost
       /\ job.present /\ Guarded(a)
            => fence = a \/ (job.fire = FireClaim(a) /\ ~att[a].lost)
  /\ \A a, b \in Attempts : Guarded(a) /\ Guarded(b) => a = b

(* An occurrence that is to come has not been run.                         *)
OccBounded ==
  /\ job.occ >= 1 /\ ticker.occ <= job.occ
  /\ ticker # Idle => ticker.occ >= 1
  /\ \A a \in Attempts : att[a].occ <= job.occ

(* The slots of a recurring job: each is in the hands of one attempt, of   *)
(* the tick, or of none as long as the record is due for it; and a job     *)
(* that is finished has used its budget.                                   *)
SlotsAgree ==
  ~Once =>
    /\ \A a, b \in Attempts : att[a].occ # 0 /\ att[a].occ = att[b].occ => a = b
    /\ ticker # Idle => \A a \in Attempts : att[a].occ # ticker.occ
    /\ job.present /\ ~Finished /\ NextPhase # "future"
         => /\ \A a \in Attempts : att[a].occ # job.occ
            /\ ticker.pc = "submit" => ticker.occ # job.occ
    /\ Finished => Spent

(* The runs of a one-shot are within the budget, and those of the present  *)
(* occurrence within what has been counted; those its removed record could *)
(* not count come on top.                                                  *)
RunsOf(o) == {a \in Attempts : att[a].began /\ att[a].occ = o /\ ~att[a].uncounted}
BudgetHolds ==
  /\ \A a \in Attempts : att[a].began => att[a].pc \notin {"queued", "validate", "dispatch"}
  /\ \A a \in Attempts : att[a].uncounted => Once /\ ~job.present
  /\ Once /\ job.times > 0 =>
       /\ job.completed <= job.times
       /\ Cardinality(RunsOf(job.occ)) <= job.completed
       /\ \A o \in 1..job.occ : Cardinality(RunsOf(o)) <= job.times

(***************************************************************************)
(* The types, and: a run's result or failure summary is delivered under    *)
(* the fence and by the claim's owner alone (fire_claim_fence,             *)
(* claim_job_for_fire), unlike the notice of an exception (Warn), which    *)
(* is sent outside of it; the ledger agrees with the attempts              *)
(* (executions.py); and what OneRunner and OccurrenceOnce rest on.         *)
(***************************************************************************)
IInv == /\ TypeOK /\ FenceHolds /\ DeliversAlone /\ LedgerAgrees /\ TickerLives
        /\ TokensAgree /\ (Inline \/ GuardHolds)
        /\ OccBounded /\ SlotsAgree /\ BudgetHolds

(***************************************************************************)
(* A job is not run twice at once, whoever starts it, nor does anyone send *)
(* the notice of a failure while another runs or delivers, as long as the  *)
(* processes are awake to beat their claims and are not told to stop (the  *)
(* fire claim, its heartbeat and its compare-and-set).                     *)
(***************************************************************************)
OneRunner ==
  \A a, b \in Attempts :
    /\ \A x \in {a, b} : /\ att[x].pc \in Acting
                        /\ ~att[x].cut /\ ~att[x].slept
    => a = b

(***************************************************************************)
(* No occurrence is run more often than it may, across ticks, processes,   *)
(* crashes and manual runs: a one-shot with a budget within it for each    *)
(* time it is armed (claim_dispatch), a slot of a recurring job once by    *)
(* the ticks (advance_next_runs).  Not counted are the runs of a one-shot  *)
(* whose record was removed between their claim and their dispatch: the    *)
(* budget is gone with it, and claim_dispatch lets them pass.              *)
(***************************************************************************)
OccurrenceOnce ==
  \A o \in {att[a].occ : a \in Attempts} \ {0} :
    (Once => job.times > 0)
      => Cardinality({a \in Attempts : att[a].began /\ att[a].occ = o
                                        /\ ~att[a].uncounted})
           <= IF Once THEN job.times ELSE 1

(***************************************************************************)
(* "A job that self-destructs fires at most repeat.times times"            *)
(* (claim_dispatch): the same with the runs a removed record did not count.*)
(***************************************************************************)
AtMostTimes ==
  Once /\ job.times > 0 =>
    \A o \in 1..job.occ :
      Cardinality({a \in Attempts : att[a].began /\ att[a].occ = o}) <= job.times

(***************************************************************************)
(* "A stale worker whose fire claim was taken over [...] must not send a   *)
(* failure alert on top of the replacement run's own delivery"             *)
(* (_run_one_job_body, the exception's handler).                           *)
(***************************************************************************)
NoticeIsCurrent ==
  \A a, b \in Attempts : At(a, "notice") /\ At(b, "sending") => att[a].owner = 0

(***************************************************************************)
(* "A live run must never have its job record deleted underneath it"       *)
(* (_get_due_jobs_locked): what a scan removes is not being run.           *)
(***************************************************************************)
RetiredIsIdle ==
  [][\A p \in Procs : RetireMissed(p) \/ RetireSpent(p)
       => ~\E a \in Attempts : att[a].pc \in Acting]_vars

(***************************************************************************)
(* A claiming tick that dies "leaves a stale claim that expires [...] so   *)
(* the job is re-dispatched rather than wedged forever"                    *)
(* (_get_due_jobs_locked): a due one-shot whose attempts are all dead is   *)
(* run, completed or retired, or an operator takes it up.                  *)
(***************************************************************************)
Orphaned == /\ Scheduled /\ Once /\ NextPhase # "future"
            /\ \A a \in Attempts : ~Live(a)
NotWedged == Orphaned ~> ~Orphaned

===============================================================================
