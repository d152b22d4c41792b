------------------------------ MODULE CronProofs ------------------------------
(* Proofs about Cron: for any processes, job, attempts, slots and moves.   *)
EXTENDS Cron, FiniteSetTheorems, TLAPS

USE ProcsAssumption, JobsAssumption, BoundsAssumption

-------------------------------------------------------------------------------
(* The operators on the record.                                            *)

LEMMA Claims ==
  /\ NoRun \in [by : Procs \cup {NoProc}, stale : BOOLEAN]
  /\ NoFire \in [by : 0..MaxAttempts, stale : BOOLEAN] /\ NoFire.by = 0
  /\ \A p \in Procs : RunClaim(p) \in [by : Procs \cup {NoProc}, stale : BOOLEAN]
  /\ \A a \in AttId : /\ FireClaim(a) \in [by : 0..MaxAttempts, stale : BOOLEAN]
                      /\ FireClaim(a).by = a /\ ~FireClaim(a).stale
BY DEF NoRun, NoFire, RunClaim, FireClaim, AttId

(* A record of the same job, whose present occurrence is the same.         *)
SameJob(k, j) == k.kind = j.kind /\ k.times = j.times /\ k.occ = j.occ

LEMMA AdvancedFacts ==
  ASSUME NEW j \in Job
  PROVE  /\ Advanced(j) \in Job
         /\ SameJob(Advanced(j), j) /\ Advanced(j).present = j.present
         /\ Advanced(j).completed = j.completed /\ Advanced(j).status = j.status
         /\ Advanced(j).fire = j.fire
         /\ j.kind = "once" => Advanced(j) = j
         /\ j.kind # "once" => Advanced(j).next = "at" /\ Advanced(j).at = "future"
<1>1. CASE j.kind = "once"
  BY <1>1 DEF Advanced, SameJob
<1>2. CASE j.kind # "once"
  BY <1>2 DEF Advanced, SameJob, Job, Phase
<1> QED
  BY <1>1, <1>2

LEMMA GoneFacts ==
  ASSUME NEW j \in Job
  PROVE  /\ Gone(j) \in Job /\ ~Gone(j).present
         /\ SameJob(Gone(j), j) /\ Gone(j).completed = j.completed
         /\ Gone(j).status = j.status /\ Gone(j).fire = NoFire
BY Claims DEF Gone, SameJob, Job, Phase

LEMMA LaterFacts ==
  ASSUME NEW j \in Job
  PROVE  /\ Later(j) \in Job
         /\ SameJob(Later(j), j) /\ Later(j).present = j.present
         /\ Later(j).completed = j.completed /\ Later(j).status = j.status
         /\ Later(j).fire = j.fire /\ Later(j).next = j.next
         /\ Later(j).at = "future" <=> j.at = "future"
BY DEF Later, SameJob, Job, Phase

LEMMA MarkedFacts ==
  ASSUME NEW j \in Job
  PROVE  /\ Marked(j) \in Job
         /\ SameJob(Marked(j), j) /\ Marked(j).present = j.present
         /\ Marked(j).fire = NoFire
         /\ Marked(j).completed \in {j.completed, j.completed + 1}
         /\ j.kind = "once" /\ j.completed > 0 => Marked(j).completed = j.completed
         /\ j.times = 0 => Marked(j).completed = j.completed
         /\ j.kind # "once" =>
              IF Marked(j).status = "completed"
              THEN j.times > 0 /\ Marked(j).completed >= j.times
              ELSE Marked(j).next = "at" /\ Marked(j).at = "future"
<1> DEFINE done == [j EXCEPT !.ran = TRUE, !.completed = Counted(j), !.run = NoRun,
                             !.fire = NoFire, !.manual = "due"]
           last == j.kind = "once" \/ (j.times > 0 /\ Counted(j) >= j.times)
<1>1. /\ Counted(j) \in {j.completed, j.completed + 1} /\ Counted(j) \in Nat
      /\ j.times = 0 \/ (j.kind = "once" /\ j.completed > 0) => Counted(j) = j.completed
  BY DEF Counted, Job
<1>2. /\ done \in Job /\ SameJob(done, j) /\ done.present = j.present
      /\ done.completed = Counted(j) /\ done.fire = NoFire
  BY <1>1, Claims DEF SameJob, Job
<1> HIDE DEF done
<1>3. Marked(j) = IF last THEN [done EXCEPT !.status = "completed", !.next = "none"]
                  ELSE [Advanced(done) EXCEPT !.status = IF @ = "paused" THEN @ ELSE "scheduled"]
  BY DEF Marked, done
<1>4. CASE last
  <2>1. Marked(j) = [done EXCEPT !.status = "completed", !.next = "none"]
    BY <1>3, <1>4
  <2> HIDE DEF last
  <2>2. /\ Marked(j) \in Job /\ SameJob(Marked(j), done) /\ Marked(j).present = done.present
        /\ Marked(j).completed = done.completed /\ Marked(j).fire = done.fire
        /\ Marked(j).status = "completed"
    BY <1>2, <2>1 DEF SameJob, Job
  <2> QED
    BY <2>2, <1>1, <1>2, <1>4 DEF SameJob, last
<1>5. CASE ~last
  <2> DEFINE next == Advanced(done)
  <2>1. /\ next \in Job /\ SameJob(next, done) /\ next.present = done.present
        /\ next.completed = done.completed /\ next.fire = done.fire
        /\ next.next = "at" /\ next.at = "future"
    BY <1>2, <1>5, AdvancedFacts DEF SameJob
  <2> HIDE DEF next
  <2>2. Marked(j) = [next EXCEPT !.status = IF @ = "paused" THEN @ ELSE "scheduled"]
    BY <1>3, <1>5 DEF next
  <2>3. /\ Marked(j) \in Job /\ SameJob(Marked(j), next) /\ Marked(j).present = next.present
        /\ Marked(j).completed = next.completed /\ Marked(j).fire = next.fire
        /\ Marked(j).status # "completed" /\ Marked(j).next = "at" /\ Marked(j).at = "future"
    BY <2>1, <2>2 DEF SameJob, Job
  <2> QED
    BY <2>1, <2>3, <1>1, <1>2, <1>5 DEF SameJob
<1> QED
  BY <1>4, <1>5

-------------------------------------------------------------------------------
(* The attempts before and after a step.                                   *)

LEMMA AttTypes ==
  ASSUME TypeOK
  PROVE  /\ Len(att) \in 0..MaxAttempts /\ Attempts = 1..Len(att)
         /\ \A a \in Attempts : att[a] \in Attempt /\ a \in AttId
BY DEF TypeOK, Attempts, AttId

LEMMA Sets ==
  ASSUME TypeOK, NEW a \in Attempts, NEW r \in Attempt, Set(a, r)
  PROVE  /\ att' \in Seq(Attempt) /\ Len(att') = Len(att) /\ Attempts' = Attempts
         /\ att'[a] = r /\ \A b \in Attempts \ {a} : att'[b] = att[b]
BY DEF TypeOK, Attempts, Set

LEMMA Maps ==
  ASSUME TypeOK, att' \in [Attempts -> Attempt]
  PROVE  att' \in Seq(Attempt) /\ Len(att') = Len(att) /\ Attempts' = Attempts
BY AttTypes DEF TypeOK, Attempts

LEMMA Appends ==
  ASSUME TypeOK, NEW r \in Attempt, att' = Append(att, r)
  PROVE  /\ att' \in Seq(Attempt) /\ Len(att') = Len(att) + 1
         /\ Attempts' = Attempts \cup {Len(att) + 1} /\ Len(att) + 1 \notin Attempts
         /\ att'[Len(att) + 1] = r /\ \A b \in Attempts : att'[b] = att[b]
BY AttTypes DEF TypeOK, Attempts

(***************************************************************************)
(* What a step may do to the attempts without a part of the invariant      *)
(* being at stake on their side.                                           *)
(***************************************************************************)
Early == {"queued", "validate", "dispatch"}

CountStays ==
  /\ Attempts' = Attempts
  /\ \A a \in Attempts : /\ att'[a].occ = att[a].occ /\ att'[a].began = att[a].began
                         /\ att'[a].uncounted = att[a].uncounted
                         /\ att'[a].pc \in Early => att[a].pc \in Early

TokensStay ==
  /\ Attempts' = Attempts
  /\ \A a \in Attempts : /\ att'[a].owner \in {0, att[a].owner}
                         /\ att'[a].pc = "queued" => att[a].pc = "queued"

DeliveriesStay ==
  /\ fence' = fence /\ Attempts' = Attempts
  /\ \A a \in Attempts : /\ att'[a].pc = "sending" <=> att[a].pc = "sending"
                         /\ att'[a].pc = "sending" => att'[a].owner = att[a].owner

GuardsStay ==
  /\ fence' = fence /\ Attempts' = Attempts
  /\ \A a \in Attempts :
       /\ att'[a].pc \in InRun => att[a].pc \in InRun /\ att'[a].owner = att[a].owner
       /\ att'[a].pc \in {"queued", "validate"}
            => att[a].pc \in {"queued", "validate"} /\ att'[a].lost = att[a].lost
       /\ Guarded(a)' => Guarded(a) /\ att'[a].lost = att[a].lost

LedgerStays ==
  /\ Attempts' = Attempts
  /\ \A a \in Attempts :
       \/ att'[a].pc = att[a].pc /\ att'[a].ledger = att[a].ledger
       \/ att'[a].pc = "over" /\ att'[a].ledger \notin Open
       \/ att'[a].pc = "dead"
       \/ Live(a)' /\ att'[a].ledger \in Open \cup {"none"}

AttStays == CountStays /\ TokensStay /\ DeliveriesStay /\ GuardsStay /\ LedgerStays

LEMMA NothingStays ==
  ASSUME UNCHANGED <<att, fence>>
  PROVE  AttStays
BY DEF AttStays, CountStays, TokensStay, DeliveriesStay, GuardsStay, LedgerStays, Attempts, Guarded

-------------------------------------------------------------------------------
(* Each part of the invariant, kept by a step whose attempts stay as they  *)
(* are, as far as it goes, and whose record changes in ways it allows.     *)

LEMMA FenceKept ==
  ASSUME FenceHolds, DeliversAlone, DeliveriesStay, fence = 0 \/ fence \in Attempts,
         fence # 0 => /\ job'.present => job.present
                      /\ job'.fire.by \in {0, job.fire.by}
  PROVE  FenceHolds' /\ DeliversAlone'
BY DEF FenceHolds, DeliversAlone, DeliveriesStay, At

LEMMA LedgerKept ==
  ASSUME LedgerAgrees, LedgerStays
  PROVE  LedgerAgrees'
BY DEF LedgerAgrees, LedgerStays, Live, Open

LEMMA TokensKept ==
  ASSUME TokensAgree, TokensStay, job'.fire.by \in {0, job.fire.by}
  PROVE  TokensAgree'
BY DEF TokensAgree, TokensStay, HasClaimed

LEMMA GuardKept ==
  ASSUME GuardHolds, GuardsStay, job'.present => job.present,
         \A a \in Attempts :
           Guarded(a)' /\ job'.present /\ fence # a /\ job.fire = FireClaim(a)
             => job'.fire = job.fire
  PROVE  GuardHolds'
BY DEF GuardHolds, GuardsStay, FireClaim

LEMMA OccKept ==
  ASSUME TypeOK, OccBounded, CountStays, job' \in Job, job'.occ >= job.occ,
         ticker' \in {ticker, Idle}
  PROVE  OccBounded'
<1>1. /\ job.occ \in Nat /\ job'.occ \in Nat /\ ticker.occ \in Nat
      /\ \A a \in Attempts : att[a].occ \in Nat
  BY AttTypes DEF TypeOK, Job, Attempt
<1>2. job'.occ >= 1 /\ \A a \in Attempts : att[a].occ <= job'.occ
  BY <1>1 DEF OccBounded
<1> QED
  BY <1>1, <1>2 DEF OccBounded, CountStays, Idle

LEMMA SlotsKept ==
  ASSUME TypeOK, OccBounded, SlotsAgree, CountStays, job' \in Job, job'.kind = job.kind,
         ticker' \in {ticker, Idle},
         ~Once /\ job'.present /\ ~Finished' /\ NextPhase' # "future"
           => \/ job'.occ > job.occ
              \/ job'.occ = job.occ /\ job.present /\ ~Finished /\ NextPhase # "future",
         ~Once /\ Finished' => Spent'
  PROVE  SlotsAgree'
<1> SUFFICES ASSUME ~Once
             PROVE  /\ \A a, b \in Attempts' :
                         att'[a].occ # 0 /\ att'[a].occ = att'[b].occ => a = b
                    /\ ticker' # Idle => \A a \in Attempts' : att'[a].occ # ticker'.occ
                    /\ job'.present /\ ~Finished' /\ NextPhase' # "future"
                         => /\ \A a \in Attempts' : att'[a].occ # job'.occ
                            /\ ticker'.pc = "submit" => ticker'.occ # job'.occ
                    /\ Finished' => Spent'
  BY DEF SlotsAgree, Once, Idle
<1>1. /\ job.occ \in Nat /\ job'.occ \in Nat /\ ticker.occ \in Nat
      /\ \A a \in Attempts : att[a].occ \in Nat /\ att[a].occ <= job.occ
      /\ ticker.occ <= job.occ
  BY AttTypes DEF TypeOK, Job, Attempt, OccBounded
<1>2. ticker' = Idle => ticker'.pc = "idle"
  BY DEF Idle
<1>3. ASSUME job'.present, ~Finished', NextPhase' # "future"
      PROVE  /\ \A a \in Attempts : att[a].occ # job'.occ
             /\ ticker.pc = "submit" => ticker.occ # job'.occ
  BY <1>1, <1>3 DEF SlotsAgree
<1> QED
  BY <1>1, <1>2, <1>3 DEF SlotsAgree, CountStays

LEMMA RunsAreFinite ==
  ASSUME TypeOK, NEW o
  PROVE  IsFiniteSet(RunsOf(o)) /\ Cardinality(RunsOf(o)) \in Nat
<1>1. IsFiniteSet(Attempts)
  BY AttTypes, FS_Interval
<1>2. RunsOf(o) \in SUBSET Attempts
  BY DEF RunsOf
<1>3. IsFiniteSet(RunsOf(o))
  BY <1>1, <1>2, FS_Subset
<1> QED
  BY <1>3, FS_CardinalityType

LEMMA BudgetKept ==
  ASSUME TypeOK, OccBounded, BudgetHolds, CountStays, job' \in Job,
         job'.kind = job.kind, job'.times = job.times, job'.present => job.present,
         Once /\ job.times > 0 =>
           /\ job'.occ \in {job.occ, job.occ + 1}
           /\ job'.occ = job.occ => job'.completed >= job.completed
           /\ job'.completed <= job.times
  PROVE  BudgetHolds'
<1>1. /\ job.occ \in Nat /\ job'.occ \in Nat /\ job.completed \in Nat /\ job'.completed \in Nat
      /\ job.times \in Nat
  BY DEF TypeOK, Job
<1>2. \A o : RunsOf(o)' = RunsOf(o)
  BY DEF RunsOf, CountStays
<1>3. /\ \A a \in Attempts' : att'[a].began => att'[a].pc \notin Early
      /\ \A a \in Attempts' : att'[a].uncounted => Once' /\ ~job'.present
  BY DEF BudgetHolds, CountStays, Early, Once
<1>4. CASE Once /\ job.times > 0
  <2>1. \A o : Cardinality(RunsOf(o)) \in Nat
    BY RunsAreFinite
  <2>2. CASE job'.occ = job.occ
    BY <1>1, <1>2, <1>3, <1>4, <2>1, <2>2 DEF BudgetHolds, Once, Early
  <2>3. CASE job'.occ = job.occ + 1
    <3>1. RunsOf(job'.occ) = {}
      <4>1. \A a \in Attempts : att[a].occ \in Nat /\ att[a].occ <= job.occ
        BY AttTypes DEF Attempt, OccBounded
      <4> QED
        BY <1>1, <2>3, <4>1 DEF RunsOf
    <3>2. Cardinality(RunsOf(job'.occ)) = 0
      BY <3>1, FS_EmptySet
    <3>3. \A o \in 1..job'.occ : Cardinality(RunsOf(o)) <= job.times
      BY <1>1, <1>4, <2>1, <2>3, <3>2 DEF BudgetHolds
    <3> QED
      BY <1>1, <1>2, <1>3, <1>4, <3>2, <3>3 DEF BudgetHolds, Once, Early
  <2> QED
    BY <1>4, <2>2, <2>3
<1>5. CASE ~(Once /\ job.times > 0)
  BY <1>3, <1>5 DEF BudgetHolds, Once, Early
<1> QED
  BY <1>4, <1>5

-------------------------------------------------------------------------------
(* A step that the record allows: it stays the record of the same job, is  *)
(* not created again, nobody else gets the claim, no claim is taken from a *)
(* run that goes on, and it is not due anew without a new occurrence.      *)
RecordStays ==
  /\ job' \in Job /\ job'.kind = job.kind /\ job'.times = job.times
  /\ job'.present => job.present
  /\ job'.fire.by \in {0, job.fire.by}
  /\ Inline \/ \A a \in Attempts :
       Guarded(a)' /\ job'.present /\ fence # a /\ job.fire = FireClaim(a)
         => job'.fire = job.fire
  /\ job'.occ \in {job.occ, job.occ + 1}
  /\ ~Once /\ job'.present /\ ~Finished' /\ NextPhase' # "future"
       => \/ job'.occ > job.occ
          \/ job'.occ = job.occ /\ job.present /\ ~Finished /\ NextPhase # "future"
  /\ ~Once /\ Finished' => Spent'
  /\ Once /\ job.times > 0
       => /\ job'.occ = job.occ => job'.completed >= job.completed
          /\ job'.completed <= job.times

LEMMA FenceType ==
  ASSUME TypeOK, FenceHolds
  PROVE  fence = 0 \/ fence \in Attempts
BY DEF TypeOK, FenceHolds, At

Rest == FenceHolds /\ DeliversAlone /\ LedgerAgrees /\ TokensAgree /\ BudgetHolds

LEMMA RestKept ==
  ASSUME IInv, CountStays, TokensStay, DeliveriesStay, LedgerStays, RecordStays
  PROVE  Rest'
<1>1. FenceHolds' /\ DeliversAlone'
  BY FenceType, FenceKept DEF IInv, RecordStays
<1>2. LedgerAgrees' /\ TokensAgree'
  BY LedgerKept, TokensKept DEF IInv, RecordStays
<1>3. BudgetHolds'
  BY BudgetKept DEF IInv, RecordStays
<1> QED
  BY <1>1, <1>2, <1>3 DEF Rest

LEMMA GuardStep ==
  ASSUME IInv, GuardsStay, RecordStays
  PROVE  Inline \/ GuardHolds'
BY GuardKept DEF IInv, RecordStays

LEMMA OccStep ==
  ASSUME IInv, CountStays, RecordStays, ticker' \in {ticker, Idle}
  PROVE  OccBounded' /\ SlotsAgree'
<1>1. job.occ \in Nat
  BY DEF IInv, TypeOK, Job
<1>2. job'.occ >= job.occ
  BY <1>1 DEF RecordStays
<1> QED
  BY <1>2, OccKept, SlotsKept DEF IInv, RecordStays

LEMMA StepKeeps ==
  ASSUME IInv, CountStays, TokensStay, DeliveriesStay, LedgerStays, RecordStays,
         Inline \/ GuardHolds', TypeOK', TickerLives', ticker' \in {ticker, Idle}
  PROVE  IInv'
BY RestKept, OccStep DEF IInv, Rest

(* The record as it was, but for its claims and for a next run that is put *)
(* off.                                                                    *)
LEMMA SameRecord ==
  ASSUME IInv, job' \in Job, SameJob(job', job), job'.present => job.present,
         job'.completed = job.completed, job'.status = job.status,
         ~Once /\ job'.present => NextPhase' \in {NextPhase, "future"},
         job'.fire.by \in {0, job.fire.by},
         Inline \/ \A a \in Attempts :
           Guarded(a)' /\ job'.present /\ fence # a /\ job.fire = FireClaim(a)
             => job'.fire = job.fire
  PROVE  RecordStays
<1>1. job.completed \in Nat /\ job.times \in Nat /\ job.occ \in Nat
  BY DEF IInv, TypeOK, Job
<1>2. ~Once /\ Finished' => Spent'
  BY DEF IInv, SlotsAgree, SameJob, Finished, Spent
<1>3. Once /\ job.times > 0 => job'.completed <= job.times
  BY <1>1 DEF IInv, BudgetHolds
<1> QED
  BY <1>1, <1>2, <1>3 DEF RecordStays, SameJob, Finished

LEMMA RecordUnchanged ==
  ASSUME IInv, job' = job
  PROVE  RecordStays
<1>1. job' \in Job /\ SameJob(job', job) /\ NextPhase' = NextPhase
  BY DEF IInv, TypeOK, SameJob, NextPhase
<1> QED
  BY <1>1, SameRecord

LEMMA BeatenFacts ==
  ASSUME TypeOK, job' = Beaten
  PROVE  /\ job' \in Job /\ SameJob(job', job) /\ job'.present = job.present
         /\ job'.completed = job.completed /\ job'.status = job.status
         /\ job'.next = job.next /\ job'.at = job.at /\ job'.manual = job.manual
         /\ job'.fire = FireClaim(job.fire.by)
         /\ NextPhase' = NextPhase
BY DEF TypeOK, Beaten, Job, SameJob, FireClaim, NextPhase

LEMMA RecordBeaten ==
  ASSUME IInv, job' = Beaten
  PROVE  RecordStays
<1>1. job'.fire.by = job.fire.by /\ NextPhase' \in {NextPhase, "future"}
  BY BeatenFacts DEF IInv, FireClaim
<1>2. ASSUME NEW a \in Attempts, job.fire = FireClaim(a)
      PROVE  job'.fire = job.fire
  BY <1>2, BeatenFacts DEF IInv, FireClaim
<1>3. job.fire.by \in {0, job.fire.by}
  OBVIOUS
<1> QED
  BY <1>1, <1>2, <1>3, BeatenFacts, SameRecord DEF IInv

(* mark_job_run, of a job whose claim no run that goes on holds.           *)
LEMMA RecordMarked ==
  ASSUME IInv, job' = Marked(job),
         Inline \/ \A a \in Attempts :
           ~(Guarded(a)' /\ job.present /\ fence # a /\ job.fire = FireClaim(a))
  PROVE  RecordStays
<1>1. job \in Job /\ job.completed \in Nat /\ job.times \in Nat /\ job.occ \in Nat
  BY DEF IInv, TypeOK, Job
<1>2. ~Once => IF Finished' THEN Spent' ELSE NextPhase' = "future"
  BY <1>1, MarkedFacts DEF Once, Finished, Spent, NextPhase, SameJob
<1>3. Once /\ job.times > 0 => job'.completed >= job.completed /\ job'.completed <= job.times
  BY <1>1, MarkedFacts DEF Once, IInv, BudgetHolds
<1> QED
  BY <1>1, <1>2, <1>3, MarkedFacts, Claims DEF RecordStays, SameJob

-------------------------------------------------------------------------------
(* The steps of one attempt.                                               *)

(* What an attempt may go on as, if nothing else has to be shown.          *)
GoesOn(q, r) ==
  /\ r.occ = q.occ /\ r.began = q.began /\ r.uncounted = q.uncounted
  /\ r.pc \in Early => q.pc \in Early
  /\ r.pc = "queued" => q.pc = "queued"
  /\ r.pc = "sending" <=> q.pc = "sending"
  /\ r.owner \in {0, q.owner}
  /\ r.pc \in InRun => q.pc \in InRun /\ r.owner = q.owner
  /\ r.pc \in {"queued", "validate"} => q.pc \in {"queued", "validate"} /\ r.lost = q.lost
  /\ r.pc \in {"dispatch"} \cup Acting /\ ~r.cut /\ ~r.slept
       => /\ q.pc \in {"dispatch"} \cup Acting /\ ~q.cut /\ ~q.slept
          /\ r.lost = q.lost
  /\ IF r.pc = "over" THEN r.ledger \notin Open
     ELSE r.pc # "dead" => r.ledger \in Open \cup {"none"}

LEMMA OneGoesOn ==
  ASSUME IInv, NEW a \in Attempts, NEW r \in Attempt, Set(a, r),
         GoesOn(att[a], r), fence' = fence
  PROVE  AttStays
<1>1. Attempts' = Attempts /\ att'[a] = r /\ \A b \in Attempts \ {a} : att'[b] = att[b]
  BY Sets DEF IInv
<1>2. CountStays /\ TokensStay /\ DeliveriesStay
  BY <1>1 DEF CountStays, TokensStay, DeliveriesStay, GoesOn, InRun
<1>3. GuardsStay
  BY <1>1 DEF GuardsStay, GoesOn, Guarded
<1>4. LedgerStays
  BY <1>1 DEF LedgerStays, GoesOn, Live
<1> QED
  BY <1>2, <1>3, <1>4 DEF AttStays

(* The types after a step of one attempt.                                  *)
LEMMA OneTypes ==
  ASSUME TypeOK, NEW a \in Attempts, NEW r \in Attempt, Set(a, r), job' \in Job,
         fence' \in {fence, 0, a}, UNCHANGED <<up, ticker>>, moves' \in 0..MaxMoves
  PROVE  TypeOK'
<1>1. att' \in Seq(Attempt) /\ Len(att') = Len(att) /\ a \in AttId
  BY Sets, AttTypes
<1> QED
  BY <1>1 DEF TypeOK, AttId

LEMMA EndsFacts ==
  ASSUME NEW q \in Attempt
  PROVE  /\ Ends(q) \in Attempt /\ Ends(q).pc = "over" /\ Ends(q).ledger \notin Open
         /\ Ends(q).occ = q.occ /\ Ends(q).began = q.began /\ Ends(q).owner = 0
         /\ Ends(q).uncounted = q.uncounted
<1> DEFINE ledger == Settled(q.ledger, "ended")
<1>1. ledger \in {"none", "ended", "unknown"}
  BY DEF Settled, Attempt, Open
<1>2. Ends(q) = [q EXCEPT !.pc = "over", !.ledger = ledger, !.owner = 0, !.runBy = NoProc,
                           !.lost = FALSE, !.cut = FALSE, !.slept = FALSE]
  BY DEF Ends, Stopped, Attempt
<1> HIDE DEF ledger
<1>3. 0 \in 0..MaxAttempts /\ NoProc \in Procs \cup {NoProc} /\ "over" \in Pc
  BY DEF Pc
<1>4. Ends(q) \in Attempt
  BY <1>1, <1>2, <1>3 DEF Attempt, Open
<1>5. /\ Ends(q).pc = "over" /\ Ends(q).ledger = ledger /\ Ends(q).occ = q.occ
      /\ Ends(q).began = q.began /\ Ends(q).owner = 0 /\ Ends(q).uncounted = q.uncounted
  BY <1>2 DEF Attempt
<1> QED
  BY <1>1, <1>4, <1>5 DEF Open

LEMMA EndsGoesOn ==
  ASSUME NEW q \in Attempt, q.pc # "sending"
  PROVE  GoesOn(q, Ends(q))
BY EndsFacts DEF GoesOn, Early, InRun, Acting

(* A step of one attempt that leaves the processes alone, and the record   *)
(* as the record allows.                                                   *)
LEMMA OneKeeps ==
  ASSUME IInv, NEW a \in Attempts, NEW r \in Attempt, Set(a, r), GoesOn(att[a], r),
         RecordStays, UNCHANGED <<up, ticker, fence>>, moves' \in 0..MaxMoves
  PROVE  IInv'
<1>1. AttStays
  BY OneGoesOn
<1>2. TypeOK' /\ TickerLives'
  BY OneTypes DEF IInv, TickerLives, RecordStays, Idle
<1> QED
  BY <1>1, <1>2, GuardStep, StepKeeps DEF AttStays

LEMMA ClaimRefusedKeeps ==
  ASSUME IInv, NEW a, ClaimRefused(a)
  PROVE  IInv'
<1>1. /\ a \in Attempts /\ att[a] \in Attempt /\ att[a].pc = "queued" /\ Set(a, Ends(att[a]))
      /\ UNCHANGED <<job, up, ticker, fence, moves>>
  BY AttTypes DEF IInv, ClaimRefused, At
<1>2. moves' \in 0..MaxMoves
  BY <1>1 DEF IInv, TypeOK
<1> QED
  BY <1>1, <1>2, EndsFacts, EndsGoesOn, RecordUnchanged, OneKeeps

LEMMA CloseKeeps ==
  ASSUME IInv, NEW a, Close(a)
  PROVE  IInv'
<1>1. /\ a \in Attempts /\ att[a] \in Attempt /\ att[a].pc = "close" /\ Set(a, Ends(att[a]))
      /\ UNCHANGED <<job, up, ticker, fence, moves>>
  BY AttTypes DEF IInv, Close, At
<1>2. moves' \in 0..MaxMoves
  BY <1>1 DEF IInv, TypeOK
<1> QED
  BY <1>1, <1>2, EndsFacts, EndsGoesOn, RecordUnchanged, OneKeeps

(* An attempt on the way that is not delivering goes to its end, told or   *)
(* not, or sends the notice of its failure.                                *)
LEMMA ToEnd ==
  ASSUME IInv, NEW a \in Attempts, att[a].pc \in {"dispatch", "run", "deliver", "mark", "notice"},
         NEW l \in BOOLEAN, NEW pc \in {"mark", "failed"}
  PROVE  LET r == [att[a] EXCEPT !.pc = pc, !.lost = l]
         IN  r \in Attempt /\ GoesOn(att[a], r)
<1>1. att[a] \in Attempt
  BY AttTypes DEF IInv
<1>2. att[a].ledger \in Open \cup {"none"}
  BY DEF IInv, LedgerAgrees, Live
<1> QED
  BY <1>1, <1>2 DEF GoesOn, Attempt, Pc, InRun, Early, Acting

LEMMA SkipDeliveryKeeps ==
  ASSUME IInv, NEW a, SkipDelivery(a)
  PROVE  IInv'
<1> DEFINE l == att[a].lost \/ (att[a].owner # 0 /\ ~BeatHolds(a))
           r == [att[a] EXCEPT !.pc = "mark", !.lost = l]
<1>1. /\ a \in Attempts /\ att[a].pc = "deliver" /\ Set(a, r)
      /\ UNCHANGED <<job, up, ticker, fence, moves>>
  BY DEF SkipDelivery, At
<1>2. moves' \in 0..MaxMoves /\ l \in BOOLEAN
  BY <1>1, AttTypes DEF IInv, TypeOK, Attempt
<1>3. r \in Attempt /\ GoesOn(att[a], r)
  BY <1>1, <1>2, ToEnd
<1> QED
  BY <1>1, <1>2, <1>3, RecordUnchanged, OneKeeps

LEMMA RaiseKeeps ==
  ASSUME IInv, NEW a, Raise(a) \/ Warned(a)
  PROVE  IInv'
<1> DEFINE r == [att[a] EXCEPT !.pc = "failed", !.lost = att[a].lost]
<1>1. /\ a \in Attempts /\ att[a].pc \in {"dispatch", "run", "deliver", "mark", "notice"}
      /\ Set(a, [att[a] EXCEPT !.pc = "failed"])
      /\ UNCHANGED <<job, up, ticker, fence, moves>>
  BY DEF Raise, Warned, At
<1>2. moves' \in 0..MaxMoves /\ att[a] \in Attempt
  BY <1>1, AttTypes DEF IInv, TypeOK
<1>3. Set(a, r) /\ att[a].lost \in BOOLEAN
  BY <1>1, <1>2 DEF Attempt
<1>4. r \in Attempt /\ GoesOn(att[a], r)
  BY <1>1, <1>3, ToEnd
<1> QED
  BY <1>1, <1>2, <1>3, <1>4, RecordUnchanged, OneKeeps

(* Who sends the notice still has the claim: the step is the question.     *)
LEMMA WarnKeeps ==
  ASSUME IInv, NEW a, Warn(a)
  PROVE  IInv'
<1> DEFINE r == [att[a] EXCEPT !.pc = "notice"]
<1>1. /\ a \in Attempts /\ att[a].pc \in {"dispatch", "run", "deliver"} /\ Set(a, r)
      /\ job' = job \/ job' = Beaten
      /\ UNCHANGED <<up, ticker, fence, moves>>
  BY DEF Warn, At
<1>2. moves' \in 0..MaxMoves /\ att[a] \in Attempt /\ att[a].ledger \in Open \cup {"none"}
  BY <1>1, AttTypes DEF IInv, TypeOK, LedgerAgrees, Live
<1>3. RecordStays
  BY <1>1, RecordBeaten, RecordUnchanged
<1>4. r \in Attempt /\ GoesOn(att[a], r)
  BY <1>1, <1>2 DEF GoesOn, Attempt, Pc, InRun, Early, Acting
<1> QED
  BY <1>1, <1>2, <1>3, <1>4, OneKeeps

LEMMA RunEndsKeeps ==
  ASSUME IInv, NEW a, RunEnds(a)
  PROVE  IInv'
<1> DEFINE holds == ~att[a].lost /\ BeatHolds(a)
           d == [att[a] EXCEPT !.pc = "deliver"]
           r == [att[a] EXCEPT !.pc = "mark", !.lost = TRUE]
<1>1. /\ a \in Attempts /\ att[a].pc = "run"
      /\ job' = (IF holds THEN Beaten ELSE job)
      /\ Set(a, IF holds \/ att[a].owner = 0 THEN d ELSE r)
      /\ UNCHANGED <<up, ticker, fence, moves>>
  BY DEF RunEnds, At
<1>2. moves' \in 0..MaxMoves /\ att[a] \in Attempt /\ att[a].ledger \in Open \cup {"none"}
  BY <1>1, AttTypes DEF IInv, TypeOK, LedgerAgrees, Live
<1>3. RecordStays
  BY <1>1, RecordBeaten, RecordUnchanged
<1>4. r \in Attempt /\ GoesOn(att[a], r)
  BY <1>1, ToEnd
<1>5. d \in Attempt /\ GoesOn(att[a], d)
  BY <1>1, <1>2 DEF GoesOn, Attempt, Pc, InRun, Early, Acting
<1> QED
  BY <1>1, <1>2, <1>3, <1>4, <1>5, OneKeeps

(* The heartbeat fails: while the claim is the attempt's, it delivers.     *)
LEMMA BeatKeeps ==
  ASSUME IInv, NEW a, Beat(a)
  PROVE  IInv'
<1> DEFINE r == [att[a] EXCEPT !.lost = TRUE]
<1>1. /\ a \in Attempts /\ att[a].pc \in Beats /\ att[a] \in Attempt
      /\ UNCHANGED <<up, ticker, fence, moves>> /\ moves' \in 0..MaxMoves
  BY AttTypes DEF Beat, IInv, TypeOK
<1>2. CASE BeatHolds(a)
  <2>1. job' = Beaten /\ att' = att
    BY <1>2 DEF Beat
  <2>2. RecordStays /\ AttStays
    BY <2>1, <1>1, RecordBeaten, NothingStays
  <2>3. TypeOK' /\ TickerLives'
    BY <2>1, <2>2, <1>1 DEF IInv, TypeOK, TickerLives, RecordStays, Idle
  <2> QED
    BY <2>2, <2>3, <1>1, GuardStep, StepKeeps DEF AttStays
<1>3. CASE ~BeatHolds(a)
  <2>1. Set(a, r) /\ job' = job
    BY <1>3 DEF Beat
  <2>2. r \in Attempt /\ att[a].ledger \in Open \cup {"none"}
    BY <1>1 DEF Attempt, IInv, LedgerAgrees, Live, Beats, InRun
  <2>3. Attempts' = Attempts /\ att'[a] = r /\ \A b \in Attempts \ {a} : att'[b] = att[b]
    BY <1>1, <2>1, <2>2, Sets DEF IInv
  <2>4. /\ r.occ = att[a].occ /\ r.began = att[a].began /\ r.pc = att[a].pc
        /\ r.owner = att[a].owner /\ r.cut = att[a].cut /\ r.slept = att[a].slept
        /\ r.ledger = att[a].ledger /\ r.uncounted = att[a].uncounted /\ r.lost
    BY <1>1 DEF Attempt
  <2> HIDE DEF r
  <2>5. CountStays /\ TokensStay /\ DeliveriesStay /\ LedgerStays
    BY <1>1, <2>3, <2>4 DEF CountStays, TokensStay, DeliveriesStay, LedgerStays
  <2>6. TypeOK'
    BY <1>1, <2>1, <2>2, OneTypes DEF IInv, TypeOK
  <2>7. TickerLives'
    BY <1>1 DEF IInv, TickerLives, Idle
  <2>8. RecordStays
    BY <2>1, RecordUnchanged
  <2>9. Inline \/ GuardHolds'
    <3> SUFFICES ASSUME ~Inline
                 PROVE  GuardHolds'
      OBVIOUS
    <3>1. /\ GuardHolds /\ FenceHolds /\ TokensAgree
      BY DEF IInv
    <3>2. att[a].owner = a
      BY <1>1, <3>1 DEF GuardHolds, Beats
    <3>3. \A b \in Attempts : Guarded(b)' <=> Guarded(b)
      BY <2>3, <2>4 DEF Guarded
    <3>4. job.present /\ Guarded(a) => fence = a
      <4> SUFFICES ASSUME job.present, Guarded(a), job.fire = FireClaim(a)
                   PROVE  fence = a
        BY <1>1, <3>1 DEF GuardHolds
      <4>1. Owns(a) /\ a # 0
        BY <1>1, <3>2, AttTypes DEF Owns, FireClaim, IInv, AttId
      <4>2. fence # 0
        BY <1>3, <4>1 DEF BeatHolds
      <4> QED
        BY <4>1, <4>2, <3>1 DEF FenceHolds, FireClaim
    <3>5. att[a].pc \notin {"queued", "validate"}
      BY <1>1 DEF Beats, InRun
    <3> QED
      BY <1>1, <2>1, <2>3, <2>4, <3>1, <3>3, <3>4, <3>5 DEF GuardHolds
  <2> QED
    BY <1>1, <2>5, <2>6, <2>7, <2>8, <2>9, StepKeeps
<1> QED
  BY <1>2, <1>3

LEMMA MarkKeeps ==
  ASSUME IInv, NEW a, Mark(a)
  PROVE  IInv'
<1> DEFINE r == [att[a] EXCEPT !.pc = "close"]
<1>1. /\ a \in Attempts /\ att[a].pc \in {"mark", "failed"} /\ att[a] \in Attempt /\ Set(a, r)
      /\ UNCHANGED <<up, ticker, fence, moves>> /\ moves' \in 0..MaxMoves
  BY AttTypes DEF Mark, At, IInv, TypeOK
<1>2. r \in Attempt /\ GoesOn(att[a], r)
  <2>1. att[a].ledger \in Open \cup {"none"}
    BY <1>1 DEF IInv, LedgerAgrees, Live
  <2> QED
    BY <1>1, <2>1 DEF GoesOn, Attempt, Pc, InRun, Early, Acting
<1>3. CASE job' = job
  BY <1>1, <1>2, <1>3, RecordUnchanged, OneKeeps
<1>4. CASE job' # job
  <2>1. /\ job' = Marked(job) /\ fence = 0 /\ job.present
        /\ att[a].owner = 0 \/ Owns(a)
    BY <1>4 DEF Mark
  <2>2. ASSUME ~Inline, NEW b \in Attempts, job.fire = FireClaim(b)
        PROVE  att'[b].pc = "close"
    <3>1. GuardHolds
      BY <2>2 DEF IInv
    <3>2. att[a].owner = a
      BY <1>1, <3>1 DEF GuardHolds, InRun
    <3>3. a # 0 /\ job.fire.by = a
      BY <1>1, <2>1, <3>2, AttTypes DEF Owns, IInv, AttId
    <3>4. b = a
      BY <2>2, <3>3 DEF FireClaim
    <3> QED
      BY <1>1, <1>2, <3>4, Sets DEF IInv, Attempt
  <2>3. RecordStays
    BY <2>1, <2>2, RecordMarked DEF Guarded, Acting
  <2> QED
    BY <1>1, <1>2, <2>3, OneKeeps
<1> QED
  BY <1>3, <1>4

LEMMA InterruptKeeps ==
  ASSUME IInv, NEW a, Interrupt(a)
  PROVE  IInv'
<1> DEFINE r == [att[a] EXCEPT !.cut = TRUE]
<1>1. /\ a \in Attempts /\ att[a].pc \in InRun \ {"close"} /\ att[a] \in Attempt /\ Set(a, r)
      /\ UNCHANGED <<up, ticker, fence>> /\ moves' \in 0..MaxMoves
      /\ job' = (IF BeatHolds(a) THEN Marked(job) ELSE job)
  BY AttTypes DEF Interrupt, IInv, TypeOK
<1>2. r \in Attempt /\ GoesOn(att[a], r)
  <2>1. att[a].ledger \in Open \cup {"none"}
    BY <1>1 DEF IInv, LedgerAgrees, Live, InRun
  <2> QED
    BY <1>1, <2>1 DEF GoesOn, Attempt, InRun
<1>3. CASE ~BeatHolds(a)
  BY <1>1, <1>2, <1>3, RecordUnchanged, OneKeeps
<1>4. CASE BeatHolds(a)
  <2>1. ASSUME ~Inline, NEW b \in Attempts, job.fire = FireClaim(b)
        PROVE  att'[b].cut
    <3>1. GuardHolds
      BY <2>1 DEF IInv
    <3>2. att[a].owner = a
      BY <1>1, <3>1 DEF GuardHolds, InRun
    <3>3. b = a
      BY <1>4, <2>1, <3>2 DEF BeatHolds, Owns, FireClaim
    <3> QED
      BY <1>1, <1>2, <3>3, Sets DEF IInv, Attempt
  <2>2. RecordStays
    BY <1>1, <1>4, <2>1, RecordMarked DEF Guarded
  <2> QED
    BY <1>1, <1>2, <2>2, OneKeeps
<1> QED
  BY <1>3, <1>4

LEMMA ValidateKeeps ==
  ASSUME IInv, NEW a, Validate(a)
  PROVE  IInv'
<1> DEFINE good == att[a].owner = 0 \/ BeatHolds(a)
           row == IF att[a].ledger = "none" THEN "claimed" ELSE att[a].ledger
           r == [att[a] EXCEPT !.pc = "dispatch", !.ledger = row]
<1>1. /\ a \in Attempts /\ att[a].pc = "validate" /\ att[a] \in Attempt
      /\ job' = (IF BeatHolds(a) THEN Beaten ELSE job)
      /\ Set(a, IF good THEN r ELSE Ends(att[a]))
      /\ UNCHANGED <<up, ticker, fence, moves>> /\ moves' \in 0..MaxMoves
  BY AttTypes DEF Validate, At, IInv, TypeOK
<1>2. RecordStays
  BY <1>1, RecordBeaten, RecordUnchanged
<1>3. CASE ~good
  BY <1>1, <1>2, <1>3, EndsFacts, EndsGoesOn, OneKeeps
<1>4. CASE good
  <2>1. r \in Attempt /\ row \in Open
    BY <1>1 DEF Attempt, Pc, InRun, IInv, LedgerAgrees, Live, Open
  <2>2. Attempts' = Attempts /\ att'[a] = r /\ \A b \in Attempts \ {a} : att'[b] = att[b]
    BY <1>1, <1>4, <2>1, Sets DEF IInv
  <2>3. /\ r.occ = att[a].occ /\ r.began = att[a].began /\ r.pc = "dispatch"
        /\ r.owner = att[a].owner /\ r.cut = att[a].cut /\ r.slept = att[a].slept
        /\ r.ledger = row /\ r.lost = att[a].lost /\ r.uncounted = att[a].uncounted
    BY <1>1 DEF Attempt
  <2> HIDE DEF r, row
  <2>4. CountStays /\ TokensStay /\ DeliveriesStay /\ LedgerStays
    BY <1>1, <2>1, <2>2, <2>3
    DEF CountStays, TokensStay, DeliveriesStay, LedgerStays, Early, Live
  <2>5. TypeOK' /\ TickerLives'
    BY <1>1, <1>2, <1>4, <2>1, OneTypes DEF IInv, TypeOK, TickerLives, RecordStays, Idle
  <2>6. Inline \/ GuardHolds'
    <3> SUFFICES ASSUME ~Inline
                 PROVE  GuardHolds'
      OBVIOUS
    <3>1. GuardHolds /\ FenceHolds
      BY DEF IInv
    <3>2. att[a].owner = a /\ a # 0
      BY <1>1, <3>1, AttTypes DEF GuardHolds, InRun, IInv, AttId
    <3>3. BeatHolds(a) /\ job.present /\ job.fire.by = a /\ fence = 0
      BY <1>4, <3>2 DEF BeatHolds, Owns
    <3>4. job' = Beaten /\ job'.fire = FireClaim(a)
      BY <1>1, <3>3, BeatenFacts DEF IInv
    <3>5. \A b \in Attempts : ~Guarded(b)
      <4> SUFFICES ASSUME NEW b \in Attempts, Guarded(b)
                   PROVE  FALSE
        OBVIOUS
      <4>1. b # 0
        BY AttTypes DEF IInv, AttId
      <4>2. job.fire = FireClaim(b)
        BY <3>1, <3>3, <4>1 DEF GuardHolds
      <4>3. b = a
        BY <3>3, <4>2 DEF FireClaim
      <4> QED
        BY <1>1, <4>3 DEF Guarded, Acting
    <3>6. \A b \in Attempts : Guarded(b)' => b = a
      BY <2>2, <3>5 DEF Guarded
    <3> QED
      BY <1>1, <2>2, <2>3, <3>1, <3>4, <3>6 DEF GuardHolds, InRun
  <2> QED
    BY <1>1, <1>2, <2>4, <2>5, <2>6, StepKeeps
<1> QED
  BY <1>3, <1>4

LEMMA EnterDeliveryKeeps ==
  ASSUME IInv, NEW a, EnterDelivery(a)
  PROVE  IInv'
<1> DEFINE r == [att[a] EXCEPT !.pc = "sending"]
<1>1. /\ a \in Attempts /\ a # 0 /\ att[a].pc = "deliver" /\ att[a] \in Attempt /\ Set(a, r)
      /\ fence' = (IF att[a].owner = 0 THEN fence ELSE a)
      /\ UNCHANGED <<job, up, ticker, moves>>
  BY AttTypes DEF EnterDelivery, At, IInv, AttId
<1>2. att[a].owner # 0 => fence = 0 /\ job.present /\ job.fire.by = att[a].owner
  BY <1>1 DEF EnterDelivery, MayDeliver, BeatHolds, Owns
<1>3. r \in Attempt /\ att[a].ledger \in Open \cup {"none"}
  BY <1>1 DEF Attempt, Pc, InRun, IInv, LedgerAgrees, Live
<1>4. Attempts' = Attempts /\ att'[a] = r /\ \A b \in Attempts \ {a} : att'[b] = att[b]
  BY <1>1, <1>3, Sets DEF IInv
<1>5. /\ r.occ = att[a].occ /\ r.began = att[a].began /\ r.pc = "sending"
      /\ r.owner = att[a].owner /\ r.cut = att[a].cut /\ r.slept = att[a].slept
      /\ r.ledger = att[a].ledger /\ r.lost = att[a].lost /\ r.uncounted = att[a].uncounted
  BY <1>1 DEF Attempt
<1>6. TypeOK' /\ TickerLives'
  BY <1>1, <1>3, OneTypes DEF IInv, TypeOK, TickerLives, Idle
<1> HIDE DEF r
<1>7. CountStays /\ TokensStay /\ LedgerStays
  BY <1>1, <1>3, <1>4, <1>5 DEF CountStays, TokensStay, LedgerStays, Early, Live
<1>8. FenceHolds' /\ DeliversAlone'
  <2>1. FenceHolds /\ DeliversAlone /\ (fence = 0 \/ fence \in Attempts)
    BY FenceType DEF IInv
  <2>2. CASE att[a].owner = 0
    <3>1. fence' = fence /\ fence # a
      BY <1>1, <2>1, <2>2 DEF FenceHolds, At
    <3> QED
      BY <1>1, <1>4, <1>5, <2>1, <2>2, <3>1 DEF FenceHolds, DeliversAlone, At
  <2>3. CASE att[a].owner # 0
    <3>1. fence' = a /\ fence = 0 /\ job.fire.by = att[a].owner /\ att[a].owner = a
      BY <1>1, <1>2, <2>3 DEF IInv, TokensAgree
    <3>2. \A b \in Attempts \ {a} : att'[b].pc = "sending" => att'[b].owner = 0
      BY <1>4, <2>1, <3>1, AttTypes DEF DeliversAlone, At, IInv, AttId
    <3> QED
      BY <1>1, <1>4, <1>5, <3>1, <3>2 DEF FenceHolds, DeliversAlone, At
  <2> QED
    BY <2>2, <2>3
<1>9. Inline \/ GuardHolds'
  <2> SUFFICES ASSUME ~Inline
               PROVE  GuardHolds'
    OBVIOUS
  <2>1. GuardHolds
    BY DEF IInv
  <2>2. att[a].owner = a
    BY <1>1, <2>1 DEF GuardHolds, InRun
  <2>3. fence' = a /\ fence = 0 /\ job.present /\ job.fire.by = a
    BY <1>1, <1>2, <2>2
  <2>4. \A b \in Attempts : Guarded(b)' <=> Guarded(b)
    BY <1>1, <1>4, <1>5 DEF Guarded, Acting
  <2>5. \A b \in Attempts : Guarded(b) => b = a
    <3> SUFFICES ASSUME NEW b \in Attempts, Guarded(b)
                 PROVE  b = a
      OBVIOUS
    <3>1. b # 0
      BY AttTypes DEF IInv, AttId
    <3>2. job.fire = FireClaim(b)
      BY <2>1, <2>3, <3>1 DEF GuardHolds
    <3> QED
      BY <2>3, <3>2 DEF FireClaim
  <2> QED
    BY <1>1, <1>4, <1>5, <2>1, <2>2, <2>3, <2>4, <2>5 DEF GuardHolds, InRun
<1>10. RecordStays
  BY <1>1, RecordUnchanged
<1>11. OccBounded' /\ SlotsAgree'
  BY <1>1, <1>7, <1>10, OccStep
<1>12. LedgerAgrees' /\ TokensAgree' /\ BudgetHolds'
  BY <1>1, <1>7, <1>10, LedgerKept, TokensKept, BudgetKept DEF IInv, RecordStays
<1> QED
  BY <1>6, <1>8, <1>9, <1>11, <1>12 DEF IInv

LEMMA LeaveDeliveryKeeps ==
  ASSUME IInv, NEW a, LeaveDelivery(a)
  PROVE  IInv'
<1> DEFINE r == [att[a] EXCEPT !.pc = "mark"]
<1>1. /\ a \in Attempts /\ a # 0 /\ att[a].pc = "sending" /\ att[a] \in Attempt /\ Set(a, r)
      /\ fence' = (IF fence = a THEN 0 ELSE fence)
      /\ UNCHANGED <<job, up, ticker, moves>>
  BY AttTypes DEF LeaveDelivery, At, IInv, AttId
<1>2. r \in Attempt /\ att[a].ledger \in Open \cup {"none"}
  BY <1>1 DEF Attempt, Pc, InRun, IInv, LedgerAgrees, Live
<1>3. Attempts' = Attempts /\ att'[a] = r /\ \A b \in Attempts \ {a} : att'[b] = att[b]
  BY <1>1, <1>2, Sets DEF IInv
<1>4. /\ r.occ = att[a].occ /\ r.began = att[a].began /\ r.pc = "mark"
      /\ r.owner = att[a].owner /\ r.ledger = att[a].ledger /\ r.uncounted = att[a].uncounted
  BY <1>1 DEF Attempt
<1>5. TypeOK' /\ TickerLives'
  BY <1>1, <1>2, OneTypes DEF IInv, TypeOK, TickerLives, Idle
<1> HIDE DEF r
<1>6. CountStays /\ TokensStay /\ LedgerStays
  BY <1>1, <1>2, <1>3, <1>4 DEF CountStays, TokensStay, LedgerStays, Early, Live
<1>7. FenceHolds' /\ DeliversAlone'
  BY <1>1, <1>3, <1>4, FenceType DEF IInv, FenceHolds, DeliversAlone, At
<1>8. Inline \/ GuardHolds'
  <2> SUFFICES ASSUME ~Inline
               PROVE  GuardHolds'
    OBVIOUS
  <2>1. GuardHolds
    BY DEF IInv
  <2>2. ~Guarded(a)'
    BY <1>3, <1>4 DEF Guarded, Acting
  <2>3. \A b \in Attempts \ {a} : Guarded(b)' <=> Guarded(b)
    BY <1>3 DEF Guarded
  <2> QED
    BY <1>1, <1>3, <1>4, <2>1, <2>2, <2>3 DEF GuardHolds, InRun
<1>9. RecordStays
  BY <1>1, RecordUnchanged
<1>10. OccBounded' /\ SlotsAgree'
  BY <1>1, <1>6, <1>9, OccStep
<1>11. LedgerAgrees' /\ TokensAgree' /\ BudgetHolds'
  BY <1>1, <1>6, <1>9, LedgerKept, TokensKept, BudgetKept DEF IInv, RecordStays
<1> QED
  BY <1>5, <1>7, <1>8, <1>10, <1>11 DEF IInv

LEMMA ClaimedRecord ==
  ASSUME TypeOK, NEW a \in AttId,
         job' = Advanced([job EXCEPT !.fire = FireClaim(a), !.status = "scheduled"])
  PROVE  /\ job' \in Job /\ SameJob(job', job) /\ job'.present = job.present
         /\ job'.completed = job.completed /\ job'.status = "scheduled"
         /\ job'.fire = FireClaim(a)
         /\ ~Once => NextPhase' = "future"
<1> DEFINE j == [job EXCEPT !.fire = FireClaim(a), !.status = "scheduled"]
<1>1. job \in Job /\ FireClaim(a) \in [by : 0..MaxAttempts, stale : BOOLEAN]
  BY Claims DEF TypeOK
<1>2. /\ j \in Job /\ SameJob(j, job) /\ j.present = job.present
      /\ j.completed = job.completed /\ j.status = "scheduled" /\ j.fire = FireClaim(a)
  BY <1>1 DEF Job, SameJob
<1> HIDE DEF j
<1>3. job' = Advanced(j)
  BY DEF j
<1> QED
  BY <1>2, <1>3, AdvancedFacts DEF SameJob, Once, NextPhase

(* The attempt that claims, as it goes on; with a record that was read     *)
(* before its claim, the token it has is another's.                        *)
LEMMA ClaimKeeps ==
  ASSUME IInv, NEW a, Claim(a)
  PROVE  IInv'
<1>1. /\ a \in Attempts /\ a \in AttId /\ a # 0 /\ att[a].pc = "queued" /\ att[a] \in Attempt
      /\ fence = 0 /\ job.present /\ ~Finished /\ ~FireHeld
      /\ job' = Advanced([job EXCEPT !.fire = FireClaim(a), !.status = "scheduled"])
      /\ UNCHANGED <<up, ticker, fence, moves>>
  BY AttTypes DEF Claim, Claimable, At, IInv, AttId
<1>2. PICK before \in {FALSE, att[a].via = "manual" /\ Inline} :
        Set(a, IF att[a].via = "manual" /\ Registered(att[a].proc) THEN Ends(att[a])
               ELSE [att[a] EXCEPT !.pc = "validate", !.runBy = job.run.by,
                                   !.owner = IF before THEN job.fire.by ELSE a])
  BY DEF Claim
<1> DEFINE refused == att[a].via = "manual" /\ Registered(att[a].proc)
           token == IF before THEN job.fire.by ELSE a
           v == [att[a] EXCEPT !.pc = "validate", !.runBy = job.run.by, !.owner = token]
           r == IF refused THEN Ends(att[a]) ELSE v
<1>3. token \in 0..MaxAttempts /\ job.run.by \in Procs \cup {NoProc}
  BY <1>1 DEF IInv, TypeOK, Job, AttId
<1>4. att[a].ledger \in Open \cup {"none"} /\ ~att[a].began
  BY <1>1 DEF IInv, LedgerAgrees, Live, BudgetHolds
<1>5. /\ v \in Attempt /\ v.pc = "validate" /\ v.owner = token /\ v.occ = att[a].occ
      /\ v.began = att[a].began /\ v.ledger = att[a].ledger /\ v.lost = att[a].lost
      /\ v.uncounted = att[a].uncounted
  BY <1>1, <1>3 DEF Attempt, Pc, InRun
<1> HIDE DEF v, token
<1>6. /\ r \in Attempt /\ r.occ = att[a].occ /\ r.began = att[a].began
      /\ r.uncounted = att[a].uncounted
      /\ \/ r.pc = "over" /\ r.owner = 0 /\ r.ledger \notin Open
         \/ /\ r.pc = "validate" /\ r.owner = token /\ r.lost = att[a].lost
            /\ r.ledger \in Open \cup {"none"}
  BY <1>1, <1>4, <1>5, EndsFacts
<1>7. Set(a, r)
  BY <1>2 DEF v, token
<1> HIDE DEF r
<1>8. Attempts' = Attempts /\ att'[a] = r /\ \A b \in Attempts \ {a} : att'[b] = att[b]
  BY <1>1, <1>6, <1>7, Sets DEF IInv
<1>9. /\ job' \in Job /\ SameJob(job', job) /\ job'.completed = job.completed
      /\ job'.status = "scheduled" /\ job'.fire = FireClaim(a) /\ job'.fire.by = a
      /\ job'.present = job.present
      /\ ~Once => NextPhase' = "future"
  <2>1. TypeOK
    BY DEF IInv
  <2>2. FireClaim(a).by = a
    BY DEF FireClaim
  <2> QED
    BY <1>1, <2>1, <2>2, ClaimedRecord
<1>10. TypeOK' /\ TickerLives'
  BY <1>1, <1>6, <1>7, <1>9, OneTypes DEF IInv, TypeOK, TickerLives, Idle
<1>11. CountStays /\ DeliveriesStay /\ LedgerStays
  BY <1>1, <1>6, <1>8 DEF CountStays, DeliveriesStay, LedgerStays, Early, Live
<1>12. FenceHolds' /\ DeliversAlone' /\ LedgerAgrees'
  BY <1>1, <1>11, FenceKept, LedgerKept DEF IInv
<1>13. TokensAgree'
  <2> DEFINE Has(x)  == x \in Attempts /\ att[x].pc # "queued"
             Has1(x) == x \in Attempts /\ att'[x].pc # "queued"
  <2>1. /\ job.fire.by # 0 => Has(job.fire.by)
        /\ \A b \in Attempts : att[b].owner # 0 => Has(att[b].owner)
    BY DEF IInv, TokensAgree, HasClaimed
  <2>2. \A x : Has(x) => Has1(x) /\ x # a
    BY <1>1, <1>8
  <2>3. Has1(a)
    BY <1>1, <1>6, <1>8
  <2>4. token = a \/ token = job.fire.by
    BY DEF token
  <2> HIDE DEF Has, Has1
  <2>5. job'.fire.by = a
    BY <1>9
  <2>6. ASSUME NEW b \in Attempts
        PROVE  /\ att'[b].owner # 0 => Has1(att'[b].owner)
               /\ att'[b].owner \notin {0, b} => att'[b].owner # a
    <3>1. CASE b = a
      <4>1. att'[b].owner \in {0, token}
        BY <1>6, <1>8, <3>1
      <4> QED
        BY <2>1, <2>2, <2>3, <2>4, <3>1, <4>1
    <3>2. CASE b # a
      <4>1. att'[b].owner = att[b].owner
        BY <1>8, <3>2
      <4> QED
        BY <2>1, <2>2, <4>1
    <3> QED
      BY <3>1, <3>2
  <2> QED
    BY <1>8, <2>3, <2>5, <2>6 DEF TokensAgree, HasClaimed, Has1
<1>14. Inline \/ GuardHolds'
  <2> SUFFICES ASSUME ~Inline
               PROVE  GuardHolds'
    OBVIOUS
  <2>1. GuardHolds /\ FenceHolds
    BY DEF IInv
  <2>2. token = a
    BY DEF token
  <2>3. \A b \in Attempts : ~Guarded(b)
    <3> SUFFICES ASSUME NEW b \in Attempts, Guarded(b)
                 PROVE  FALSE
      OBVIOUS
    <3>1. b # 0
      BY AttTypes DEF IInv, AttId
    <3>2. job.fire = FireClaim(b)
      BY <1>1, <2>1, <3>1 DEF GuardHolds
    <3> QED
      BY <1>1, <3>1, <3>2 DEF FireClaim, FireHeld
  <2>4. \A b \in Attempts : ~Guarded(b)'
    BY <1>6, <1>8, <2>3 DEF Guarded, Acting
  <2> QED
    BY <1>1, <1>6, <1>8, <2>1, <2>2, <2>4 DEF GuardHolds, InRun
<1>15. OccBounded' /\ SlotsAgree' /\ BudgetHolds'
  <2>1. job.occ \in Nat /\ job.completed \in Nat /\ job.times \in Nat
    BY DEF IInv, TypeOK, Job
  <2>2. ~Finished' /\ job'.occ = job.occ /\ job'.kind = job.kind /\ job'.times = job.times
    BY <1>9 DEF SameJob, Finished
  <2>3. Once /\ job.times > 0 => job.completed <= job.times
    BY <2>1 DEF IInv, BudgetHolds
  <2> QED
    BY <1>1, <1>9, <1>11, <2>1, <2>2, <2>3, OccKept, SlotsKept, BudgetKept DEF IInv
<1> QED
  BY <1>10, <1>12, <1>13, <1>14, <1>15 DEF IInv

(* A run that begins is one more of its occurrence's, and counted before.  *)
LEMMA DispatchKeeps ==
  ASSUME IInv, NEW a, Dispatch(a)
  PROVE  IInv'
<1> DEFINE finite == job.present /\ Once /\ job.times > 0
           spent  == finite /\ Spent
           row    == IF att[a].ledger \in Open THEN "running" ELSE att[a].ledger
           occ    == IF Once THEN job.occ ELSE att[a].occ
           gone   == Once /\ ~job.present
           r == [att[a] EXCEPT !.pc = "run", !.ledger = row, !.began = TRUE, !.occ = occ,
                               !.uncounted = gone]
<1>1. /\ a \in Attempts /\ att[a].pc = "dispatch" /\ att[a] \in Attempt
      /\ att[a].ledger \in Open \cup {"none"} /\ ~att[a].began
      /\ UNCHANGED <<up, ticker, fence, moves>> /\ moves' \in 0..MaxMoves
  BY AttTypes DEF Dispatch, At, IInv, TypeOK, LedgerAgrees, Live, BudgetHolds
<1>2. /\ job' = CASE spent /\ job.ran -> [job EXCEPT !.status = "completed", !.next = "none"]
                  [] spent /\ ~job.ran -> Gone(job)
                  [] finite /\ ~spent -> [job EXCEPT !.completed = @ + 1]
                  [] OTHER -> job
      /\ Set(a, IF spent THEN Ends(att[a]) ELSE r)
  BY <1>1 DEF Dispatch
<1>3. /\ job \in Job /\ job.occ \in Nat /\ job.completed \in Nat /\ job.times \in Nat
      /\ job.occ >= 1
  BY DEF IInv, TypeOK, Job, OccBounded
<1>4. CASE spent
  <2>1. RecordStays
    <3>1. CASE job.ran
      <4>1. job' = [job EXCEPT !.status = "completed", !.next = "none"]
        BY <1>2, <1>4, <3>1
      <4>2. /\ job' \in Job /\ SameJob(job', job) /\ job'.present = job.present
            /\ job'.completed = job.completed /\ job'.fire = job.fire
        BY <1>3, <4>1 DEF Job, SameJob
      <4> QED
        BY <1>3, <1>4, <4>2 DEF RecordStays, SameJob, Once, IInv, BudgetHolds
    <3>2. CASE ~job.ran
      <4>1. job' = Gone(job)
        BY <1>2, <1>4, <3>2
      <4>2. /\ job' \in Job /\ SameJob(job', job) /\ ~job'.present
            /\ job'.completed = job.completed /\ job'.fire.by = 0
        BY <1>3, <4>1, GoneFacts, Claims
      <4> QED
        BY <1>3, <1>4, <4>2 DEF RecordStays, SameJob, Once, IInv, BudgetHolds
    <3> QED
      BY <3>1, <3>2
  <2>2. Ends(att[a]) \in Attempt /\ GoesOn(att[a], Ends(att[a])) /\ Set(a, Ends(att[a]))
    BY <1>1, <1>2, <1>4, EndsFacts, EndsGoesOn
  <2> QED
    BY <1>1, <2>1, <2>2, OneKeeps
<1>5. CASE ~spent
  <2>1. occ \in Nat /\ occ <= job.occ
    BY <1>1, <1>3 DEF Attempt, IInv, OccBounded
  <2>2. /\ job' \in Job /\ SameJob(job', job) /\ job'.present = job.present
        /\ job'.status = job.status /\ NextPhase' = NextPhase
        /\ job'.fire = job.fire /\ job'.completed = job.completed + (IF finite THEN 1 ELSE 0)
    <3>1. CASE finite
      <4>1. job' = [job EXCEPT !.completed = @ + 1]
        BY <1>2, <1>5, <3>1
      <4>2. job' \in Job /\ job'.completed = job.completed + 1
        BY <1>3, <4>1 DEF Job
      <4>3. /\ SameJob(job', job) /\ job'.present = job.present /\ job'.status = job.status
            /\ NextPhase' = NextPhase /\ job'.fire = job.fire
        BY <1>3, <4>1 DEF Job, SameJob, NextPhase
      <4> QED
        BY <3>1, <4>2, <4>3
    <3>2. CASE ~finite
      BY <1>2, <1>3, <3>2 DEF SameJob, NextPhase
    <3> QED
      BY <3>1, <3>2
  <2>3. job'.occ = job.occ /\ job'.kind = job.kind /\ job'.times = job.times
    BY <2>2 DEF SameJob
  <2>14. row \in Open \cup {"none"} /\ gone \in BOOLEAN
    BY <1>1 DEF Open
  <2> HIDE DEF row
  <2>4. r \in Attempt
    <3> HIDE DEF occ, gone
    <3>1. "run" \in Pc /\ row \in Open \cup {"none", "ended", "unknown"}
      BY <2>14 DEF Pc, InRun
    <3> QED
      BY <1>1, <2>1, <2>14, <3>1 DEF Attempt
  <2>5. /\ r.pc = "run" /\ r.began /\ r.occ = occ /\ r.owner = att[a].owner
        /\ r.cut = att[a].cut /\ r.slept = att[a].slept /\ r.lost = att[a].lost
        /\ r.ledger = row /\ r.uncounted = gone
    BY <1>1, <2>1 DEF Attempt
  <2> HIDE DEF r
  <2>6. Attempts' = Attempts /\ att'[a] = r /\ \A b \in Attempts \ {a} : att'[b] = att[b]
    BY <1>1, <1>2, <1>5, <2>4, Sets DEF IInv
  <2>7. TypeOK' /\ TickerLives'
    BY <1>1, <1>2, <1>5, <2>2, <2>4, OneTypes DEF IInv, TypeOK, TickerLives, Idle
  <2>8. TokensStay /\ DeliveriesStay /\ LedgerStays
    BY <1>1, <2>5, <2>6, <2>14 DEF TokensStay, DeliveriesStay, LedgerStays, Live, Open
  <2>9. FenceHolds' /\ DeliversAlone' /\ LedgerAgrees' /\ TokensAgree'
    BY <2>2, <2>8, FenceType, FenceKept, LedgerKept, TokensKept DEF IInv
  <2>10. Inline \/ GuardHolds'
    <3>1. GuardsStay
      BY <1>1, <2>5, <2>6 DEF GuardsStay, Guarded, InRun, Acting
    <3> QED
      BY <2>2, <3>1, GuardKept DEF IInv
  <2>11. OccBounded'
    BY <1>1, <1>3, <2>1, <2>3, <2>5, <2>6 DEF IInv, OccBounded, Idle
  <2>12. SlotsAgree'
    <3>1. CASE Once
      BY <2>3, <3>1 DEF SlotsAgree, Once
    <3>2. CASE ~Once
      <4>1. \A b \in Attempts : att'[b].occ = att[b].occ
        BY <1>1, <2>5, <2>6, <3>2
      <4>2. job' = job
        BY <1>2, <3>2
      <4> QED
        BY <1>1, <2>6, <4>1, <4>2 DEF IInv, SlotsAgree, Idle, Finished, Spent, NextPhase, Once
    <3> QED
      BY <3>1, <3>2
  <2>13. BudgetHolds'
    <3>1. \A b \in Attempts' : att'[b].began => att'[b].pc \notin Early
      BY <1>1, <2>5, <2>6 DEF IInv, BudgetHolds, Early
    <3>2. \A b \in Attempts' : att'[b].uncounted => Once' /\ ~job'.present
      BY <1>1, <2>2, <2>3, <2>5, <2>6 DEF IInv, BudgetHolds, Once
    <3>3. CASE ~(Once /\ job.times # 0)
      BY <1>3, <2>3, <3>1, <3>2, <3>3 DEF BudgetHolds, Once, Early
    <3>4. CASE Once /\ job.times # 0
      <4>1. \A o : Cardinality(RunsOf(o)) \in Nat /\ IsFiniteSet(RunsOf(o)) /\ a \notin RunsOf(o)
        BY <1>1, RunsAreFinite DEF IInv, RunsOf
      <4>2. /\ job.completed <= job.times /\ Cardinality(RunsOf(job.occ)) <= job.completed
            /\ \A o \in 1..job.occ : Cardinality(RunsOf(o)) <= job.times
        BY <1>3, <3>4 DEF IInv, BudgetHolds
      <4>3. \A o : o # occ => RunsOf(o)' = RunsOf(o)
        BY <1>1, <2>5, <2>6 DEF RunsOf
      <4>6. CASE finite
        <5>5. \A o : o = occ => RunsOf(o)' = RunsOf(o) \cup {a}
          BY <1>1, <2>5, <2>6, <4>6 DEF RunsOf
        <5>6. \A o : o = occ => Cardinality(RunsOf(o)') = Cardinality(RunsOf(o)) + 1
          BY <4>1, <5>5, FS_AddElement
        <5>1. occ = job.occ /\ job'.completed = job.completed + 1 /\ job.completed < job.times
          BY <1>3, <1>5, <2>2, <4>6 DEF Spent
        <5>2. \A o \in 1..job.occ : Cardinality(RunsOf(o)') <= job.times
          <6> SUFFICES ASSUME NEW o \in 1..job.occ
                       PROVE  Cardinality(RunsOf(o)') <= job.times
            OBVIOUS
          <6>1. CASE o = occ
            BY <1>3, <4>1, <4>2, <5>6, <5>1, <6>1
          <6>2. CASE o # occ
            BY <4>2, <4>3, <6>2
          <6> QED
            BY <6>1, <6>2
        <5>3. \A o : o = job.occ => Cardinality(RunsOf(o)') <= job.completed + 1
          BY <1>3, <4>1, <4>2, <5>6, <5>1
        <5>4. job'.completed <= job.times
          BY <1>3, <5>1
        <5> QED
          BY <1>3, <2>3, <3>1, <3>2, <3>4, <5>1, <5>2, <5>3, <5>4 DEF BudgetHolds, Once, Early
      <4>7. CASE ~finite
        <5>1. gone /\ job'.completed = job.completed
          BY <1>3, <2>2, <3>4, <4>7
        <5>2. \A o : RunsOf(o)' = RunsOf(o)
          BY <1>1, <2>5, <2>6, <5>1 DEF RunsOf
        <5> QED
          BY <1>3, <2>3, <3>1, <3>2, <3>4, <4>2, <5>1, <5>2 DEF BudgetHolds, Once, Early
      <4> QED
        BY <4>6, <4>7
    <3> QED
      BY <3>3, <3>4
  <2> QED
    BY <2>7, <2>9, <2>10, <2>11, <2>12, <2>13 DEF IInv
<1> QED
  BY <1>4, <1>5

-------------------------------------------------------------------------------
(* The steps that leave the attempts alone.                                *)

LEMMA RecordKeeps ==
  ASSUME IInv, RecordStays, UNCHANGED <<att, up, fence>>, ticker' \in {ticker, Idle},
         moves' \in 0..MaxMoves
  PROVE  IInv'
<1>1. AttStays
  BY NothingStays
<1>2. TickerLives'
  BY DEF IInv, TickerLives, Idle
<1>3. Idle \in [pc : {"idle", "advance", "submit"}, proc : Procs \cup {NoProc}, occ : Nat]
  BY DEF Idle
<1>4. TypeOK'
  BY <1>3 DEF IInv, TypeOK, RecordStays
<1> QED
  BY <1>1, <1>2, <1>4, GuardStep, StepKeeps DEF AttStays

LEMMA BeatRunKeeps ==
  ASSUME IInv, NEW a, BeatRun(a)
  PROVE  IInv'
<1>1. job' = [job EXCEPT !.run.stale = FALSE] /\ UNCHANGED <<att, up, ticker, fence, moves>>
  BY DEF BeatRun
<1>2. job \in Job /\ moves' \in 0..MaxMoves
  BY <1>1 DEF IInv, TypeOK
<1>3. /\ job' \in Job /\ SameJob(job', job) /\ job'.present = job.present
      /\ job'.completed = job.completed /\ job'.status = job.status /\ job'.fire = job.fire
      /\ NextPhase' = NextPhase
  BY <1>1, <1>2 DEF Job, SameJob, NextPhase
<1>4. RecordStays
  BY <1>3, SameRecord
<1> QED
  BY <1>1, <1>2, <1>4, RecordKeeps

(* A record that is removed stays removed.                                 *)
LEMMA RemovedKeeps ==
  ASSUME IInv, Removed, UNCHANGED <<att, up, ticker, fence>>, moves' \in 0..MaxMoves
  PROVE  IInv'
<1>1. job \in Job
  BY DEF IInv, TypeOK
<1>2. /\ job' \in Job /\ SameJob(job', job) /\ ~job'.present
      /\ job'.completed = job.completed /\ job'.status = job.status /\ job'.fire.by = 0
  BY <1>1, GoneFacts, Claims DEF Removed
<1>3. RecordStays
  BY <1>2, SameRecord
<1> QED
  BY <1>3, RecordKeeps

(* A tick takes the job up: the slot it is for is no attempt's.            *)
LEMMA TickGoes ==
  ASSUME IInv, NEW p \in Procs, TickMay(p), TickGoesOn(p), RecordStays, job'.occ = job.occ,
         UNCHANGED <<att, up, fence, moves>>,
         ~Once => job.present /\ ~Finished /\ NextPhase # "future"
  PROVE  IInv'
<1>1. /\ ticker = Idle /\ p \in up /\ ticker'.pc = "advance" /\ ticker'.proc = p
      /\ ticker'.occ = job.occ /\ ticker' # Idle
  BY DEF TickMay, TickGoesOn, Idle
<1>2. job.occ \in Nat /\ job.occ >= 1
  BY DEF IInv, TypeOK, Job, OccBounded
<1>3. TypeOK'
  <2>1. Len(att) + 1 <= MaxAttempts
    BY <1>1, AttTypes DEF TickMay, Room, IInv
  <2> QED
    BY <1>1, <1>2, <2>1 DEF IInv, TypeOK, RecordStays, TickGoesOn
<1>4. AttStays
  BY NothingStays
<1>5. OccBounded'
  BY <1>1, <1>2, <1>4 DEF AttStays, CountStays, IInv, OccBounded
<1>6. SlotsAgree'
  <2> SUFFICES ASSUME ~Once
               PROVE  SlotsAgree'
    BY DEF SlotsAgree, RecordStays, Once
  <2>1. \A a \in Attempts : att[a].occ # job.occ
    BY DEF IInv, SlotsAgree
  <2> QED
    BY <1>1, <1>2, <1>4, <2>1 DEF IInv, SlotsAgree, RecordStays, AttStays, CountStays, Once
<1>7. TickerLives'
  BY <1>1 DEF TickerLives
<1> QED
  BY <1>3, <1>4, <1>5, <1>6, <1>7, GuardStep, RestKept DEF AttStays, Rest, IInv

LEMMA TickKeeps ==
  ASSUME IInv, NEW p \in Procs, Tick(p)
  PROVE  IInv'
<1>1. job \in Job /\ moves \in 0..MaxMoves /\ (TickMay(p) => p \in Procs)
  BY DEF IInv, TypeOK
<1>2. CASE ScanRecurring(p)
  <2>1. /\ TickMay(p) /\ TickGoesOn(p) /\ job.present /\ ~Finished /\ NextPhase # "future"
        /\ job' \in {job, Advanced(job)} /\ ~Once
        /\ UNCHANGED <<att, up, fence, moves>>
    BY <1>2 DEF ScanRecurring, Ripe, Scheduled, Finished
  <2>2. RecordStays /\ job'.occ = job.occ
    <3>1. CASE job' = job
      BY <3>1, RecordUnchanged
    <3>2. CASE job' = Advanced(job)
      <4>1. /\ job' \in Job /\ SameJob(job', job) /\ job'.present = job.present
            /\ job'.completed = job.completed /\ job'.status = job.status
            /\ job'.fire = job.fire /\ NextPhase' = "future"
        BY <1>1, <2>1, <3>2, AdvancedFacts DEF Once, NextPhase
      <4> QED
        BY <4>1, SameRecord DEF SameJob
    <3> QED
      BY <2>1, <3>1, <3>2
  <2> QED
    BY <2>1, <2>2, TickGoes
<1>3. CASE ScanOnce(p)
  <2>1. /\ TickMay(p) /\ TickGoesOn(p) /\ Once /\ job' = [job EXCEPT !.run = RunClaim(p)]
        /\ UNCHANGED <<att, up, fence, moves>>
    BY <1>3 DEF ScanOnce
  <2>2. RunClaim(p) \in [by : Procs \cup {NoProc}, stale : BOOLEAN]
    BY DEF RunClaim
  <2>3. /\ job' \in Job /\ SameJob(job', job) /\ job'.present = job.present
        /\ job'.completed = job.completed /\ job'.status = job.status /\ job'.fire = job.fire
    BY <1>1, <2>1, <2>2 DEF Job, SameJob
  <2>4. RecordStays /\ job'.occ = job.occ
    BY <2>1, <2>3, SameRecord DEF SameJob
  <2> QED
    BY <2>1, <2>4, TickGoes
<1>4. CASE RetireMissed(p) \/ RetireSpent(p) \/ Sweep(p)
  BY <1>1, <1>4, RemovedKeeps DEF RetireMissed, RetireSpent, Sweep
<1> QED
  BY <1>2, <1>3, <1>4 DEF Tick

LEMMA TickAdvanceKeeps ==
  ASSUME IInv, TickAdvance
  PROVE  IInv'
<1>1. /\ ticker.pc = "advance" /\ ticker' = [ticker EXCEPT !.pc = "submit"]
      /\ job' = (IF job.present /\ ~Finished THEN Advanced(job) ELSE job)
      /\ UNCHANGED <<att, up, fence, moves>> /\ job \in Job
  BY DEF TickAdvance, IInv, TypeOK
<1>2. /\ ticker'.pc = "submit" /\ ticker'.occ = ticker.occ /\ ticker'.proc = ticker.proc
      /\ ticker # Idle /\ ticker' # Idle
      /\ ticker' \in [pc : {"idle", "advance", "submit"}, proc : Procs \cup {NoProc}, occ : Nat]
  BY <1>1 DEF IInv, TypeOK, Idle
<1>3. /\ job' \in Job /\ SameJob(job', job) /\ job'.present = job.present
      /\ job'.completed = job.completed /\ job'.status = job.status /\ job'.fire = job.fire
      /\ ~Once /\ job'.present /\ ~Finished' => NextPhase' = "future"
      /\ ~Once /\ job'.present => NextPhase' \in {NextPhase, "future"}
  <2>1. CASE job.present /\ ~Finished
    BY <1>1, <2>1, AdvancedFacts DEF Once, NextPhase
  <2>2. CASE ~(job.present /\ ~Finished)
    BY <1>1, <2>2 DEF SameJob, Finished, NextPhase
  <2> QED
    BY <2>1, <2>2
<1>4. RecordStays
  BY <1>3, SameRecord
<1>5. AttStays
  BY <1>1, NothingStays
<1>6. TypeOK' /\ TickerLives'
  BY <1>1, <1>2, <1>3 DEF IInv, TypeOK, TickerLives
<1>7. OccBounded'
  BY <1>1, <1>2, <1>3, <1>5 DEF IInv, OccBounded, SameJob, AttStays, CountStays
<1>8. SlotsAgree'
  BY <1>1, <1>2, <1>3, <1>4, <1>5
  DEF IInv, SlotsAgree, SameJob, AttStays, CountStays, RecordStays, Once
<1> QED
  BY <1>4, <1>5, <1>6, <1>7, <1>8, GuardStep, RestKept DEF AttStays, Rest, IInv

LEMMA SubmitFailsKeeps ==
  ASSUME IInv, SubmitFails
  PROVE  IInv'
<1>1. /\ job' = (IF Once THEN [job EXCEPT !.run = NoRun] ELSE job) /\ ticker' = Idle
      /\ UNCHANGED <<att, up, fence, moves>> /\ job \in Job /\ moves' \in 0..MaxMoves
  BY DEF SubmitFails, IInv, TypeOK
<1>2. RecordStays
  <2>1. CASE Once
    <3>1. /\ job' \in Job /\ SameJob(job', job) /\ job'.present = job.present
          /\ job'.completed = job.completed /\ job'.status = job.status /\ job'.fire = job.fire
      BY <1>1, <2>1, Claims DEF Job, SameJob
    <3> QED
      BY <2>1, <3>1, SameRecord
  <2>2. CASE ~Once
    BY <1>1, <2>2, RecordUnchanged
  <2> QED
    BY <2>1, <2>2
<1> QED
  BY <1>1, <1>2, RecordKeeps

-------------------------------------------------------------------------------
(* The steps that start an attempt.                                        *)

(* A new attempt is queued; its slot is the one of the tick that ends, or  *)
(* none.                                                                   *)
LEMMA AppendKeeps ==
  ASSUME IInv, NEW r \in Attempt, att' = Append(att, r), Len(att) < MaxAttempts,
         r.pc = "queued", ~r.began, ~r.uncounted, ~r.lost, r.owner = 0,
         r.ledger \in Open \cup {"none"},
         \/ r.occ = 0 /\ ticker' = ticker /\ (ticker = Idle \/ Len(att) + 1 < MaxAttempts)
         \/ r.occ = ticker.occ /\ ticker.pc = "submit" /\ ticker' = Idle,
         UNCHANGED <<job, up, fence, moves>>
  PROVE  IInv'
<1> PICK n \in Nat : n = Len(att) + 1
  BY AttTypes DEF IInv
<1>1. /\ att' \in Seq(Attempt) /\ Len(att') = Len(att) + 1 /\ Len(att) \in Nat
      /\ Attempts' = Attempts \cup {n} /\ n \notin Attempts /\ n # 0
      /\ att'[n] = r /\ \A b \in Attempts : att'[b] = att[b]
  BY Appends, AttTypes DEF IInv
<1>13. \A b \in Attempts : att[b].occ \in Nat
  BY AttTypes DEF IInv, Attempt
<1>14. \A b \in Attempts' : b = n \/ (b \in Attempts /\ b # n /\ att'[b] = att[b])
  BY <1>1
<1>2. Idle \in [pc : {"idle", "advance", "submit"}, proc : Procs \cup {NoProc}, occ : Nat]
  BY DEF Idle
<1>3. TypeOK'
  <2>1. Len(att') + (IF ticker' = Idle THEN 0 ELSE 1) <= MaxAttempts
    BY <1>1
  <2> QED
    BY <1>1, <1>2, <2>1 DEF IInv, TypeOK
<1>4. TickerLives'
  BY DEF IInv, TickerLives, Idle
<1>5. FenceHolds' /\ DeliversAlone'
  BY <1>1 DEF IInv, FenceHolds, DeliversAlone, At
<1>6. LedgerAgrees'
  BY <1>1 DEF IInv, LedgerAgrees, Live
<1>7. TokensAgree'
  <2> DEFINE Has(x)  == x \in Attempts /\ att[x].pc # "queued"
             Has1(x) == x \in Attempts' /\ att'[x].pc # "queued"
  <2>1. /\ job.fire.by # 0 => Has(job.fire.by)
        /\ \A b \in Attempts : /\ att[b].owner # 0 => Has(att[b].owner)
                               /\ att[b].owner \notin {0, b} => job.fire.by # att[b].owner
    BY DEF IInv, TokensAgree, HasClaimed
  <2>2. \A x : Has(x) => Has1(x)
    BY <1>1
  <2>3. att'[n].owner = 0
    BY <1>1
  <2> HIDE DEF Has, Has1
  <2>4. \A b \in Attempts' : /\ att'[b].owner # 0 => Has1(att'[b].owner)
                             /\ att'[b].owner \notin {0, b} => job'.fire.by # att'[b].owner
    BY <1>14, <2>1, <2>2, <2>3
  <2> QED
    BY <2>1, <2>2, <2>4 DEF TokensAgree, HasClaimed, Has1
<1>8. Inline \/ GuardHolds'
  <2> SUFFICES ASSUME ~Inline
               PROVE  GuardHolds'
    OBVIOUS
  <2>1. GuardHolds
    BY DEF IInv
  <2>2. ~Guarded(n)' /\ \A b \in Attempts : Guarded(b)' <=> Guarded(b)
    BY <1>1 DEF Guarded, Acting
  <2>3. att'[n].pc \notin InRun /\ ~att'[n].lost
    BY <1>1 DEF InRun
  <2>4. \A a, b \in Attempts' : Guarded(a)' /\ Guarded(b)' => a = b
    BY <1>14, <2>1, <2>2 DEF GuardHolds
  <2>5. \A a \in Attempts' :
          /\ att'[a].pc \in InRun => att'[a].owner = a
          /\ att'[a].pc \in {"queued", "validate"} => ~att'[a].lost
          /\ job'.present /\ Guarded(a)'
               => fence' = a \/ (job'.fire = FireClaim(a) /\ ~att'[a].lost)
    BY <1>14, <2>1, <2>2, <2>3 DEF GuardHolds
  <2> QED
    BY <2>4, <2>5 DEF GuardHolds
<1>9. /\ job.occ \in Nat /\ ticker.occ \in Nat /\ ticker.occ <= job.occ /\ job.occ >= 1
      /\ ticker # Idle => ticker.occ >= 1
      /\ r.occ <= job.occ /\ r.occ \in Nat /\ att'[n].occ = r.occ
  BY <1>1 DEF IInv, TypeOK, Job, OccBounded
<1>10. OccBounded'
  <2>1. \A b \in Attempts' : att'[b].occ <= job'.occ
    BY <1>9, <1>14 DEF IInv, OccBounded
  <2>2. ticker'.occ <= job'.occ /\ (ticker' # Idle => ticker'.occ >= 1)
    BY <1>9 DEF Idle
  <2> QED
    BY <1>9, <2>1, <2>2 DEF OccBounded
<1>11. SlotsAgree'
  <2> SUFFICES ASSUME ~Once
               PROVE  SlotsAgree'
    BY DEF SlotsAgree, Once
  <2>1. SlotsAgree
    BY DEF IInv
  <2>2. NextPhase' = NextPhase /\ Finished' = Finished /\ Spent' = Spent /\ ~Once'
    BY DEF NextPhase, Finished, Spent, Once
  <2>3. r.occ = 0 \/ \A a \in Attempts : att[a].occ # r.occ
    <3>1. ticker.pc = "submit" => ticker # Idle
      BY DEF Idle
    <3> QED
      BY <2>1, <3>1 DEF SlotsAgree
  <2>4. \A a, b \in Attempts' : att'[a].occ # 0 /\ att'[a].occ = att'[b].occ => a = b
    <3> SUFFICES ASSUME NEW a \in Attempts', NEW b \in Attempts', att'[a].occ # 0,
                        att'[a].occ = att'[b].occ
                 PROVE  a = b
      OBVIOUS
    <3>1. CASE a = n /\ b \in Attempts /\ b # n
      BY <1>9, <1>14, <2>3, <3>1
    <3>2. CASE b = n /\ a \in Attempts /\ a # n
      BY <1>9, <1>14, <2>3, <3>2
    <3>3. CASE a \in Attempts /\ b \in Attempts /\ a # n /\ b # n
      <4>1. att[a].occ # 0 /\ att[a].occ = att[b].occ
        BY <1>14, <3>3
      <4> QED
        BY <2>1, <3>3, <4>1 DEF SlotsAgree
    <3> QED
      BY <1>14, <3>1, <3>2, <3>3
  <2>5. ticker' # Idle => \A a \in Attempts' : att'[a].occ # ticker'.occ
    <3> SUFFICES ASSUME ticker' # Idle
                 PROVE  \A a \in Attempts' : att'[a].occ # ticker'.occ
      OBVIOUS
    <3>1. ticker' = ticker /\ r.occ = 0 /\ ticker.occ >= 1
      BY <1>9
    <3>2. \A a \in Attempts : att[a].occ # ticker.occ
      BY <2>1, <3>1 DEF SlotsAgree
    <3>3. att'[n].occ # ticker.occ
      BY <1>9, <3>1
    <3>4. \A a \in Attempts' : att'[a].occ # ticker.occ
      BY <1>14, <3>2, <3>3
    <3> QED
      BY <3>1, <3>4
  <2>6. ASSUME job.present, ~Finished, NextPhase # "future"
        PROVE  /\ \A a \in Attempts' : att'[a].occ # job.occ
               /\ ticker'.pc = "submit" => ticker'.occ # job.occ
    <3>1. r.occ # job.occ
      BY <1>9, <2>1, <2>6 DEF SlotsAgree
    <3>2. \A a \in Attempts' : att'[a].occ # job.occ
      BY <1>9, <1>14, <2>1, <2>6, <3>1 DEF SlotsAgree
    <3>3. ticker'.pc = "submit" => ticker' = ticker
      BY DEF Idle
    <3> QED
      BY <2>1, <2>6, <3>2, <3>3 DEF SlotsAgree
  <2>7. Finished => Spent
    BY <2>1 DEF SlotsAgree
  <2> QED
    BY <2>2, <2>4, <2>5, <2>6, <2>7 DEF SlotsAgree
<1>12. BudgetHolds'
  <2>1. ~att'[n].began
    BY <1>1
  <2>2. \A o : RunsOf(o)' = RunsOf(o)
    BY <1>1, <1>14, <2>1 DEF RunsOf
  <2>3. \A a \in Attempts' : att'[a].began => att'[a].pc \notin {"queued", "validate", "dispatch"}
    BY <1>14, <2>1 DEF IInv, BudgetHolds
  <2>4. \A a \in Attempts' : att'[a].uncounted => Once /\ ~job.present
    <3>1. ~att'[n].uncounted
      BY <1>1
    <3>2. \A a \in Attempts : att[a].uncounted => Once /\ ~job.present
      BY DEF IInv, BudgetHolds
    <3> QED
      BY <1>14, <3>1, <3>2
  <2>5. job' = job
    OBVIOUS
  <2>6. RunsOf(job.occ)' = RunsOf(job.occ)
    BY <2>2, <2>5
  <2>7. Once' = Once
    BY DEF Once
  <2> QED
    BY <2>2, <2>3, <2>4, <2>5, <2>6, <2>7 DEF IInv, BudgetHolds
<1> QED
  BY <1>3, <1>4, <1>5, <1>6, <1>7, <1>8, <1>10, <1>11, <1>12 DEF IInv

LEMMA FreshFacts ==
  ASSUME NEW p \in Procs, NEW via \in {"tick", "fire", "manual"}
  PROVE  /\ Fresh(p, via) \in Attempt /\ Fresh(p, via).pc = "queued" /\ ~Fresh(p, via).began
         /\ ~Fresh(p, via).lost /\ Fresh(p, via).owner = 0 /\ Fresh(p, via).occ = 0
         /\ Fresh(p, via).ledger \in Open \cup {"none"} /\ ~Fresh(p, via).uncounted
<1> DEFINE ledger == IF via = "manual" THEN "none" ELSE "claimed"
<1>1. ledger \in Open \cup {"none"}
  BY DEF Open
<1> HIDE DEF ledger
<1>2. Fresh(p, via) =
        [proc |-> p, via |-> via, pc |-> "queued", ledger |-> ledger, owner |-> 0,
         runBy |-> NoProc, lost |-> FALSE, cut |-> FALSE, slept |-> FALSE,
         began |-> FALSE, occ |-> 0, uncounted |-> FALSE]
  BY DEF Fresh, ledger
<1>3. "queued" \in Pc /\ 0 \in 0..MaxAttempts /\ 0 \in Nat
  BY DEF Pc
<1>4. ledger \in Open \cup {"none", "ended", "unknown"}
  BY <1>1
<1> QED
  BY <1>1, <1>2, <1>3, <1>4 DEF Attempt

LEMMA StartKeeps ==
  ASSUME IInv, NEW p \in Procs, NEW via \in Vias, Start(p, via)
  PROVE  IInv'
<1> DEFINE r == Fresh(p, via)
<1>1. /\ Room /\ att' = Append(att, Fresh(p, via)) /\ via \in {"tick", "fire", "manual"}
      /\ UNCHANGED <<job, up, ticker, fence, moves>>
  BY DEF Start
<1>2. /\ Len(att) \in Nat /\ Len(att) < MaxAttempts
      /\ ticker = Idle \/ Len(att) + 1 < MaxAttempts
  BY <1>1, AttTypes DEF Room, IInv
<1>3. /\ r \in Attempt /\ r.pc = "queued" /\ ~r.began /\ ~r.lost /\ r.owner = 0
      /\ r.ledger \in Open \cup {"none"} /\ r.occ = 0 /\ ~r.uncounted
  BY <1>1, FreshFacts
<1>4. att' = Append(att, r)
  BY <1>1
<1> HIDE DEF r
<1> QED
  BY <1>1, <1>2, <1>3, <1>4, AppendKeeps

LEMMA TickSubmitKeeps ==
  ASSUME IInv, TickSubmit
  PROVE  IInv'
<1> DEFINE r == [Fresh(ticker.proc, "tick") EXCEPT !.occ = ticker.occ]
<1>1. /\ ticker.pc = "submit" /\ ticker' = Idle /\ UNCHANGED <<job, up, fence, moves>>
      /\ moves' \in 0..MaxMoves
  BY DEF TickSubmit, IInv, TypeOK
<1>2. CASE Registered(ticker.proc)
  BY <1>1, <1>2, RecordUnchanged, RecordKeeps DEF TickSubmit
<1>3. CASE ~Registered(ticker.proc)
  <2>1. att' = Append(att, r)
    BY <1>3 DEF TickSubmit
  <2>2. ticker.proc \in Procs /\ ticker.occ \in Nat
    BY <1>1 DEF IInv, TypeOK, TickerLives
  <2>3. Len(att) < MaxAttempts
    <3>1. ticker # Idle
      BY <1>1 DEF Idle
    <3> QED
      BY <3>1, AttTypes DEF IInv, TypeOK
  <2>4. /\ r \in Attempt /\ r.pc = "queued" /\ ~r.began /\ ~r.lost /\ r.owner = 0
        /\ r.ledger \in Open \cup {"none"} /\ r.occ = ticker.occ /\ ~r.uncounted
    <3> DEFINE q == Fresh(ticker.proc, "tick")
    <3>1. /\ q \in Attempt /\ q.pc = "queued" /\ ~q.began /\ ~q.lost /\ q.owner = 0
          /\ q.ledger \in Open \cup {"none"} /\ ~q.uncounted
      BY <2>2, FreshFacts
    <3> HIDE DEF q
    <3>2. r = [q EXCEPT !.occ = ticker.occ]
      BY DEF q
    <3> QED
      BY <2>2, <3>1, <3>2 DEF Attempt
  <2> HIDE DEF r
  <2> QED
    BY <1>1, <2>1, <2>3, <2>4, AppendKeeps
<1> QED
  BY <1>2, <1>3

-------------------------------------------------------------------------------
(* Death and recovery.                                                     *)

LEMMA DeadFacts ==
  ASSUME NEW q \in Attempt
  PROVE  LET r == Stopped(q, "dead", q.ledger)
         IN  /\ r \in Attempt /\ r.pc = "dead" /\ r.owner = 0 /\ r.occ = q.occ
             /\ r.began = q.began /\ r.uncounted = q.uncounted
<1>1. Settled(q.ledger, q.ledger) = q.ledger
  BY DEF Settled
<1>2. Stopped(q, "dead", q.ledger)
        = [q EXCEPT !.pc = "dead", !.ledger = q.ledger, !.owner = 0, !.runBy = NoProc,
                    !.lost = FALSE, !.cut = FALSE, !.slept = FALSE]
  BY <1>1 DEF Stopped, Attempt
<1>3. "dead" \in Pc /\ 0 \in 0..MaxAttempts /\ NoProc \in Procs \cup {NoProc}
  BY DEF Pc
<1> DEFINE r == Stopped(q, "dead", q.ledger)
<1>4. r = [proc |-> q.proc, via |-> q.via, pc |-> "dead", ledger |-> q.ledger, owner |-> 0,
           runBy |-> NoProc, lost |-> FALSE, cut |-> FALSE, slept |-> FALSE,
           began |-> q.began, occ |-> q.occ, uncounted |-> q.uncounted]
  BY <1>2 DEF Attempt
<1>6. r \in Attempt
  <2>1. /\ q.proc \in Procs /\ q.via \in {"tick", "fire", "manual"} /\ q.occ \in Nat
        /\ q.ledger \in Open \cup {"none", "ended", "unknown"} /\ q.began \in BOOLEAN
        /\ q.uncounted \in BOOLEAN
    BY DEF Attempt
  <2> HIDE DEF r
  <2> QED
    BY <1>3, <1>4, <2>1 DEF Attempt
<1>5. /\ r.pc = "dead" /\ r.owner = 0 /\ r.occ = q.occ /\ r.began = q.began
      /\ r.uncounted = q.uncounted
  BY <1>4
<1> QED
  BY <1>5, <1>6

(* A process dies: its tick and its threads are gone, and the fence is     *)
(* free if it held it.                                                     *)
LEMMA CrashKeeps ==
  ASSUME IInv, NEW p, Crash(p)
  PROVE  IInv'
<1> DEFINE Dies(a) == att[a].proc = p /\ Live(a)
<1>1. /\ p \in up /\ up' = up \ {p} /\ UNCHANGED <<job, moves>>
      /\ ticker' = (IF ticker.proc = p THEN Idle ELSE ticker)
      /\ fence' = (IF fence # 0 /\ att[fence].proc = p THEN 0 ELSE fence)
      /\ att' = [a \in Attempts |-> IF Dies(a) THEN Stopped(att[a], "dead", att[a].ledger)
                                    ELSE att[a]]
  BY DEF Crash
<1>2. \A a \in Attempts :
        /\ att'[a] \in Attempt
        /\ IF Dies(a) THEN /\ att'[a].pc = "dead" /\ att'[a].owner = 0
                           /\ att'[a].occ = att[a].occ /\ att'[a].began = att[a].began
                           /\ att'[a].uncounted = att[a].uncounted
           ELSE att'[a] = att[a]
  <2> SUFFICES ASSUME NEW a \in Attempts
               PROVE  /\ att'[a] \in Attempt
                      /\ IF Dies(a) THEN /\ att'[a].pc = "dead" /\ att'[a].owner = 0
                                         /\ att'[a].occ = att[a].occ
                                         /\ att'[a].began = att[a].began
                                         /\ att'[a].uncounted = att[a].uncounted
                         ELSE att'[a] = att[a]
    OBVIOUS
  <2>1. att[a] \in Attempt
    BY AttTypes DEF IInv
  <2> QED
    BY <1>1, <2>1, DeadFacts
<1>3. att' \in Seq(Attempt) /\ Len(att') = Len(att) /\ Attempts' = Attempts
  <2>1. att' \in [Attempts -> Attempt]
    BY <1>1, <1>2
  <2> QED
    BY <2>1, Maps DEF IInv
<1>4. TypeOK' /\ TickerLives'
  <2>1. Idle \in [pc : {"idle", "advance", "submit"}, proc : Procs \cup {NoProc}, occ : Nat]
    BY DEF Idle
  <2>5. ticker' \in {ticker, Idle} /\ fence' \in {fence, 0} /\ up' \subseteq up
    BY <1>1
  <2>2. Len(att') + (IF ticker' = Idle THEN 0 ELSE 1) <= MaxAttempts
    <3>1. Len(att) \in Nat /\ Len(att) + (IF ticker = Idle THEN 0 ELSE 1) <= MaxAttempts
      BY AttTypes DEF IInv, TypeOK
    <3> QED
      BY <1>3, <2>5, <3>1
  <2>6. job' \in Job /\ moves' \in 0..MaxMoves /\ 0 \in 0..MaxAttempts
    BY <1>1 DEF IInv, TypeOK
  <2>3. TypeOK'
    BY <1>3, <2>1, <2>2, <2>5, <2>6 DEF IInv, TypeOK
  <2>4. TickerLives'
    BY <1>1 DEF IInv, TickerLives, Idle
  <2> QED
    BY <2>3, <2>4
<1>5. CountStays /\ TokensStay /\ LedgerStays
  BY <1>2, <1>3 DEF CountStays, TokensStay, LedgerStays, Early
<1>6. RecordStays
  BY <1>1, RecordUnchanged
<1>7. \A a \in Attempts : att'[a].pc = "sending" => ~Dies(a)
  BY <1>2
<1>8. \A a \in Attempts : att[a].pc = "sending" /\ att[a].proc = p => Dies(a)
  BY DEF Live
<1>9. FenceHolds' /\ DeliversAlone'
  <2>1. FenceHolds /\ DeliversAlone /\ (fence = 0 \/ fence \in Attempts)
    BY FenceType DEF IInv
  <2>2. fence' # 0 => ~Dies(fence) /\ fence' = fence
    BY <1>1
  <2>3. FenceHolds'
    BY <1>1, <1>2, <1>3, <2>1, <2>2 DEF FenceHolds, At
  <2>4. DeliversAlone'
    <3> SUFFICES ASSUME NEW a \in Attempts, att'[a].pc = "sending", att'[a].owner # 0
                 PROVE  fence' = a
      BY <1>3 DEF DeliversAlone, At
    <3>1. att'[a] = att[a] /\ ~Dies(a)
      BY <1>2, <1>7
    <3>2. fence = a /\ att[a].proc # p
      BY <1>8, <2>1, <3>1 DEF DeliversAlone, At
    <3> QED
      BY <1>1, <3>2
  <2> QED
    BY <2>3, <2>4
<1>10. Inline \/ GuardHolds'
  <2> SUFFICES ASSUME ~Inline
               PROVE  GuardHolds'
    OBVIOUS
  <2>1. GuardHolds
    BY DEF IInv
  <2>2. \A a \in Attempts : Guarded(a)' => Guarded(a) /\ att'[a] = att[a] /\ ~Dies(a)
    BY <1>2 DEF Guarded, Acting
  <2>3. \A a \in Attempts : Guarded(a)' /\ fence = a => fence' = a
    <3> SUFFICES ASSUME NEW a \in Attempts, Guarded(a)', fence = a
                 PROVE  fence' = a
      OBVIOUS
    <3>1. ~Dies(a) /\ att[a].proc # p
      BY <1>8, <2>2 DEF Guarded, Live, Acting
    <3> QED
      BY <1>1, <3>1
  <2>4. \A a \in Attempts :
          att'[a].pc \in InRun \cup {"queued"} => att'[a] = att[a]
    BY <1>2 DEF InRun
  <2> QED
    BY <1>1, <1>3, <2>1, <2>2, <2>3, <2>4 DEF GuardHolds, InRun
<1>11. OccBounded' /\ SlotsAgree'
  BY <1>1, <1>5, <1>6, OccStep
<1>12. LedgerAgrees' /\ TokensAgree' /\ BudgetHolds'
  BY <1>1, <1>5, <1>6, LedgerKept, TokensKept, BudgetKept DEF IInv, RecordStays
<1> QED
  BY <1>4, <1>9, <1>10, <1>11, <1>12 DEF IInv

(* The recovery settles the rows of the dead.                              *)
LEMMA RecoverKeeps ==
  ASSUME IInv, NEW p, Recover(p)
  PROVE  IInv'
<1>1. /\ UNCHANGED <<job, up, ticker, fence, moves>>
      /\ att' = [a \in Attempts |->
           IF att[a].pc = "dead" THEN [att[a] EXCEPT !.ledger = Settled(@, "unknown")]
           ELSE att[a]]
  BY DEF Recover
<1>2. \A a \in Attempts :
        /\ att'[a] \in Attempt
        /\ IF att[a].pc = "dead"
           THEN /\ att'[a].pc = "dead" /\ att'[a].owner = att[a].owner
                /\ att'[a].occ = att[a].occ /\ att'[a].began = att[a].began
                /\ att'[a].uncounted = att[a].uncounted
           ELSE att'[a] = att[a]
  <2> SUFFICES ASSUME NEW a \in Attempts
               PROVE  /\ att'[a] \in Attempt
                      /\ IF att[a].pc = "dead"
                         THEN /\ att'[a].pc = "dead" /\ att'[a].owner = att[a].owner
                              /\ att'[a].occ = att[a].occ /\ att'[a].began = att[a].began
                              /\ att'[a].uncounted = att[a].uncounted
                         ELSE att'[a] = att[a]
    OBVIOUS
  <2>1. att[a] \in Attempt
    BY AttTypes DEF IInv
  <2>2. Settled(att[a].ledger, "unknown") \in Open \cup {"none", "ended", "unknown"}
    BY <2>1 DEF Settled, Attempt
  <2> QED
    BY <1>1, <2>1, <2>2 DEF Attempt
<1>3. att' \in Seq(Attempt) /\ Len(att') = Len(att) /\ Attempts' = Attempts
  <2>1. att' \in [Attempts -> Attempt]
    BY <1>1, <1>2
  <2> QED
    BY <2>1, Maps DEF IInv
<1>4. TypeOK' /\ TickerLives'
  BY <1>1, <1>3 DEF IInv, TypeOK, TickerLives, Idle
<1>5. CountStays /\ TokensStay /\ DeliveriesStay /\ LedgerStays
  BY <1>1, <1>2, <1>3 DEF CountStays, TokensStay, DeliveriesStay, LedgerStays
<1>6. GuardsStay
  BY <1>1, <1>2, <1>3 DEF GuardsStay, Guarded, Acting, InRun
<1>7. RecordStays
  BY <1>1, RecordUnchanged
<1> QED
  BY <1>1, <1>4, <1>5, <1>6, <1>7, GuardStep, StepKeeps

-------------------------------------------------------------------------------
(* The steps of time.                                                      *)

LEMMA AgedFacts ==
  ASSUME NEW j \in Job
  PROVE  /\ Aged(j) \in Job
         /\ SameJob(Aged(j), j) /\ Aged(j).present = j.present
         /\ Aged(j).completed = j.completed /\ Aged(j).status = j.status
         /\ Aged(j).fire = j.fire
         /\ j.kind # "once" => Aged(j) = j
BY LaterFacts DEF Aged, SameJob

(* A due time that passes does not make the job due.                       *)
LEMMA LaterRecord ==
  ASSUME IInv, job' = Later(job)
  PROVE  RecordStays
<1>1. job \in Job /\ job.completed \in Nat /\ job.times \in Nat /\ job.occ \in Nat
  BY DEF IInv, TypeOK, Job
<1>2. NextPhase' # "future" => NextPhase # "future"
  BY <1>1, LaterFacts DEF NextPhase, Job
<1> QED
  BY <1>1, <1>2, LaterFacts DEF RecordStays, SameJob, Finished, Spent, IInv, SlotsAgree, BudgetHolds

LEMMA FallsDueKeeps ==
  ASSUME IInv, FallsDue
  PROVE  IInv'
<1> DEFINE o == IF Once THEN job.occ ELSE job.occ + 1
<1>1. /\ job.present /\ ~Finished /\ job' = [job EXCEPT !.at = "due", !.occ = o]
      /\ UNCHANGED <<att, up, ticker, fence, moves>> /\ moves' \in 0..MaxMoves
  BY DEF FallsDue, Waits, IInv, TypeOK
<1>2. job \in Job /\ job.occ \in Nat /\ job.completed \in Nat /\ job.times \in Nat
  BY DEF IInv, TypeOK, Job
<1>3. o \in Nat /\ o \in {job.occ, job.occ + 1} /\ (Once => o = job.occ)
      /\ (~Once => o > job.occ)
  BY <1>2
<1> HIDE DEF o
<1>4. /\ job' \in Job /\ job'.kind = job.kind /\ job'.times = job.times /\ job'.occ = o
      /\ job'.present = job.present /\ job'.completed = job.completed
      /\ job'.status = job.status /\ job'.fire = job.fire
  BY <1>1, <1>2, <1>3 DEF Job, Phase
<1>5. RecordStays
  BY <1>1, <1>2, <1>3, <1>4 DEF RecordStays, Finished, IInv, BudgetHolds
<1> QED
  BY <1>1, <1>5, RecordKeeps

LEMMA GetsLateKeeps ==
  ASSUME IInv, GetsLate
  PROVE  IInv'
<1>1. job' = Later(job) /\ UNCHANGED <<att, up, ticker, fence, moves>>
      /\ moves' \in 0..MaxMoves /\ job \in Job
  BY DEF GetsLate, IInv, TypeOK
<1>2. RecordStays
  BY <1>1, LaterRecord
<1> QED
  BY <1>1, <1>2, RecordKeeps

LEMMA AgesBound ==
  ASSUME moves \in 0..MaxMoves, NEW beaten \in BOOLEAN, Ages(beaten)
  PROVE  moves' \in 0..MaxMoves
BY BoundsAssumption DEF Ages, Sleeps

LEMMA AgeRunKeeps ==
  ASSUME IInv, AgeRun
  PROVE  IInv'
<1> DEFINE j == [job EXCEPT !.run.stale = TRUE]
<1>1. job' = Aged(j) /\ UNCHANGED <<att, up, ticker, fence>>
      /\ moves' \in 0..MaxMoves /\ job \in Job
  BY AgesBound DEF AgeRun, IInv, TypeOK
<1>2. /\ j \in Job /\ SameJob(j, job) /\ j.present = job.present
      /\ j.completed = job.completed /\ j.status = job.status /\ j.fire = job.fire
      /\ j.next = job.next /\ j.at = job.at /\ j.manual = job.manual
  BY <1>1 DEF Job, SameJob
<1> HIDE DEF j
<1>3. RecordStays
  BY <1>1, <1>2, AgedFacts, SameRecord DEF Once, NextPhase, SameJob
<1> QED
  BY <1>1, <1>3, RecordKeeps

(* The claim of a run that goes on goes stale only in its hands.           *)
LEMMA AgeFireKeeps ==
  ASSUME IInv, AgeFire
  PROVE  IInv'
<1> DEFINE j == [job EXCEPT !.fire.stale = TRUE]
<1>1. /\ job' = Aged(j) /\ UNCHANGED <<up, ticker, fence>> /\ moves' \in 0..MaxMoves
      /\ job \in Job
      /\ att' = [a \in Attempts |->
                   IF Tended(a) THEN [att[a] EXCEPT !.slept = TRUE] ELSE att[a]]
  BY AgesBound DEF AgeFire, IInv, TypeOK
<1>2. /\ j \in Job /\ SameJob(j, job) /\ j.present = job.present
      /\ j.completed = job.completed /\ j.status = job.status /\ j.fire.by = job.fire.by
      /\ j.next = job.next /\ j.at = job.at /\ j.manual = job.manual
  BY <1>1 DEF Job, SameJob
<1> HIDE DEF j
<1>3. \A a \in Attempts :
        /\ att'[a] \in Attempt
        /\ att'[a].pc = att[a].pc /\ att'[a].owner = att[a].owner /\ att'[a].cut = att[a].cut
        /\ att'[a].occ = att[a].occ /\ att'[a].began = att[a].began
        /\ att'[a].uncounted = att[a].uncounted
        /\ att'[a].lost = att[a].lost /\ att'[a].ledger = att[a].ledger
        /\ Tended(a) => att'[a].slept
        /\ ~att'[a].slept => ~att[a].slept
  <2> SUFFICES ASSUME NEW a \in Attempts
               PROVE  /\ att'[a] \in Attempt
                      /\ att'[a].pc = att[a].pc /\ att'[a].owner = att[a].owner
                      /\ att'[a].cut = att[a].cut /\ att'[a].occ = att[a].occ
                      /\ att'[a].began = att[a].began /\ att'[a].lost = att[a].lost
                      /\ att'[a].uncounted = att[a].uncounted
                      /\ att'[a].ledger = att[a].ledger
                      /\ Tended(a) => att'[a].slept
                      /\ ~att'[a].slept => ~att[a].slept
    OBVIOUS
  <2>1. att[a] \in Attempt
    BY AttTypes DEF IInv
  <2>2. CASE Tended(a)
    <3>1. att'[a] = [att[a] EXCEPT !.slept = TRUE]
      BY <1>1, <2>2
    <3> QED
      BY <2>1, <3>1 DEF Attempt
  <2>3. CASE ~Tended(a)
    BY <1>1, <2>1, <2>3
  <2> QED
    BY <2>2, <2>3
<1>4. att' \in Seq(Attempt) /\ Len(att') = Len(att) /\ Attempts' = Attempts
  <2>1. att' \in [Attempts -> Attempt]
    BY <1>1, <1>3
  <2> QED
    BY <2>1, Maps DEF IInv
<1>5. CountStays /\ TokensStay /\ DeliveriesStay /\ LedgerStays
  BY <1>1, <1>3, <1>4 DEF CountStays, TokensStay, DeliveriesStay, LedgerStays
<1>6. \A a \in Attempts : Guarded(a)' => Guarded(a)
  BY <1>3 DEF Guarded
<1>7. GuardsStay
  BY <1>1, <1>3, <1>4, <1>6 DEF GuardsStay
<1>8. ASSUME ~Inline, NEW a \in Attempts, Guarded(a)', job'.present, fence # a,
             job.fire = FireClaim(a)
      PROVE  FALSE
  <2>1. GuardHolds
    BY <1>8 DEF IInv
  <2>2. job.present /\ Guarded(a)
    BY <1>1, <1>2, <1>6, <1>8, AgedFacts
  <2>3. ~att[a].lost /\ att[a].owner = a
    BY <1>8, <2>1, <2>2 DEF GuardHolds, Guarded, InRun, Acting
  <2>4. Tended(a)
    BY <1>8, <2>2, <2>3 DEF Tended, Guarded, Beats, InRun, Acting, FireClaim
  <2> QED
    BY <1>3, <1>8, <2>4 DEF Guarded
<1>9. RecordStays
  BY <1>1, <1>2, <1>8, AgedFacts, SameRecord DEF Once, NextPhase, SameJob
<1>10. TypeOK' /\ TickerLives'
  BY <1>1, <1>4, <1>9 DEF IInv, TypeOK, TickerLives, RecordStays, Idle
<1> QED
  BY <1>1, <1>5, <1>7, <1>9, <1>10, GuardStep, StepKeeps

-------------------------------------------------------------------------------
(* The steps of the operator.                                              *)

LEMMA PauseKeeps ==
  ASSUME IInv, Pause
  PROVE  IInv'
<1>1. /\ job.present /\ ~Finished /\ job' = [job EXCEPT !.status = "paused"]
      /\ UNCHANGED <<att, up, ticker, fence>> /\ moves' \in 0..MaxMoves /\ job \in Job
  BY DEF Pause, Moves, IInv, TypeOK
<1>2. /\ job' \in Job /\ SameJob(job', job) /\ job'.present = job.present
      /\ job'.completed = job.completed /\ job'.status = "paused" /\ job'.fire = job.fire
      /\ NextPhase' = NextPhase
  BY <1>1 DEF Job, SameJob, NextPhase
<1>3. job.completed \in Nat /\ job.times \in Nat /\ job.occ \in Nat
  BY <1>1 DEF Job
<1>4. RecordStays
  BY <1>1, <1>2, <1>3 DEF RecordStays, SameJob, Finished, IInv, BudgetHolds
<1> QED
  BY <1>1, <1>4, RecordKeeps

LEMMA ResumeKeeps ==
  ASSUME IInv, Resume
  PROVE  IInv'
<1> DEFINE j == Advanced(job)
<1>1. /\ job.present /\ ~Finished
      /\ job' = [j EXCEPT !.status = "scheduled", !.next = "at", !.manual = "due"]
      /\ UNCHANGED <<att, up, ticker, fence>> /\ moves' \in 0..MaxMoves /\ job \in Job
  BY DEF Resume, Moves, IInv, TypeOK
<1>2. /\ j \in Job /\ SameJob(j, job) /\ j.present = job.present
      /\ j.completed = job.completed /\ j.fire = job.fire
      /\ ~Once => j.at = "future"
  BY <1>1, AdvancedFacts DEF Once
<1> HIDE DEF j
<1>3. /\ job' \in Job /\ SameJob(job', j) /\ job'.present = j.present
      /\ job'.completed = j.completed /\ job'.status = "scheduled" /\ job'.fire = j.fire
      /\ NextPhase' = j.at
  BY <1>1, <1>2 DEF Job, SameJob, NextPhase
<1>4. job.completed \in Nat /\ job.times \in Nat /\ job.occ \in Nat
  BY <1>1 DEF Job
<1>5. RecordStays
  BY <1>1, <1>2, <1>3, <1>4 DEF RecordStays, SameJob, Finished, Once, IInv, BudgetHolds
<1> QED
  BY <1>1, <1>5, RecordKeeps

LEMMA TriggerKeeps ==
  ASSUME IInv, Trigger
  PROVE  IInv'
<1> DEFINE o == IF Once THEN job.occ ELSE job.occ + 1
<1>1. /\ job.present /\ ~Finished
      /\ job' = [job EXCEPT !.status = "scheduled", !.next = "manual", !.manual = "due",
                            !.occ = o]
      /\ UNCHANGED <<att, up, ticker, fence>> /\ moves' \in 0..MaxMoves /\ job \in Job
  BY DEF Trigger, Moves, IInv, TypeOK
<1>2. job.occ \in Nat /\ job.completed \in Nat /\ job.times \in Nat
  BY <1>1 DEF Job
<1>3. o \in Nat /\ o \in {job.occ, job.occ + 1} /\ (Once => o = job.occ)
      /\ (~Once => o > job.occ)
  BY <1>2
<1> HIDE DEF o
<1>4. /\ job' \in Job /\ job'.kind = job.kind /\ job'.times = job.times /\ job'.occ = o
      /\ job'.present = job.present /\ job'.completed = job.completed
      /\ job'.status = "scheduled" /\ job'.fire = job.fire
  BY <1>1, <1>2, <1>3 DEF Job
<1>5. RecordStays
  BY <1>1, <1>2, <1>3, <1>4 DEF RecordStays, Finished, IInv, BudgetHolds
<1> QED
  BY <1>1, <1>5, RecordKeeps

(* The budget is a new one, and no occurrence was run that is to come.     *)
LEMMA RearmKeeps ==
  ASSUME IInv, Rearm
  PROVE  IInv'
<1>1. PICK at \in {"future", "due"} :
        job' = [job EXCEPT !.completed = 0, !.run = NoRun, !.fire = NoFire,
                           !.status = "scheduled", !.next = "at", !.at = at, !.occ = @ + 1]
  BY DEF Rearm
<1>2. /\ job.present /\ Once /\ ~FireHeld /\ job \in Job
      /\ UNCHANGED <<att, up, ticker, fence>> /\ moves' \in 0..MaxMoves
  BY DEF Rearm, Moves, IInv, TypeOK
<1>3. job.occ \in Nat /\ job.completed \in Nat /\ job.times \in Nat
  BY <1>2 DEF Job
<1>4. /\ job' \in Job /\ job'.kind = job.kind /\ job'.times = job.times
      /\ job'.occ = job.occ + 1 /\ job'.present = job.present /\ job'.completed = 0
      /\ job'.status = "scheduled" /\ job'.fire = NoFire
  <2>1. job.occ + 1 \in Nat /\ 0 \in Nat /\ at \in Phase
    BY <1>3 DEF Phase
  <2> DEFINE run == NoRun
             fire == NoFire
             occ == job.occ + 1
  <2>2. /\ run \in [by : Procs \cup {NoProc}, stale : BOOLEAN]
        /\ fire \in [by : 0..MaxAttempts, stale : BOOLEAN]
    BY Claims
  <2>3. job' = [job EXCEPT !.completed = 0, !.run = run, !.fire = fire,
                           !.status = "scheduled", !.next = "at", !.at = at, !.occ = occ]
    BY <1>1
  <2> HIDE DEF run, fire, occ
  <2>4. occ \in Nat /\ occ = job.occ + 1 /\ fire = NoFire
    BY <2>1 DEF occ, fire
  <2>5. job' \in Job
    BY <1>2, <2>1, <2>2, <2>3, <2>4 DEF Job
  <2>6. /\ job'.kind = job.kind /\ job'.times = job.times /\ job'.present = job.present
        /\ job'.occ = occ /\ job'.completed = 0 /\ job'.status = "scheduled" /\ job'.fire = fire
    BY <1>2, <2>3 DEF Job
  <2> QED
    BY <2>4, <2>5, <2>6
<1>5. \A a \in Attempts : job.fire # FireClaim(a)
  BY <1>2, AttTypes DEF FireHeld, FireClaim, IInv, AttId
<1>6. NoFire.by = 0
  BY Claims
<1>7. RecordStays
  BY <1>2, <1>3, <1>4, <1>5, <1>6 DEF RecordStays
<1> QED
  BY <1>2, <1>7, RecordKeeps

LEMMA RemoveKeeps ==
  ASSUME IInv, Remove
  PROVE  IInv'
<1>1. Removed /\ UNCHANGED <<att, up, ticker, fence>> /\ moves' \in 0..MaxMoves
  BY DEF Remove, Moves, IInv, TypeOK
<1> QED
  BY <1>1, RemovedKeeps

-------------------------------------------------------------------------------
(* The invariant.                                                          *)

LEMMA InitIInv ==
  ASSUME Init
  PROVE  IInv
<1>1. PICK j \in Jobs :
        job = [present |-> TRUE, kind |-> j.kind, times |-> j.times, completed |-> 0,
               status |-> "scheduled", next |-> "at", at |-> "future", manual |-> "due",
               ran |-> FALSE, run |-> NoRun, fire |-> NoFire, occ |-> 1]
  BY DEF Init
<1>2. /\ att = <<>> /\ up = Procs /\ ticker = Idle /\ fence = 0 /\ moves = 0
      /\ MaxAttempts \in Nat /\ MaxMoves \in Nat
  BY DEF Init
<1>3. j.kind \in {"once", "recurring"} /\ j.times \in Nat
  OBVIOUS
<1>4. job \in Job
  BY <1>1, <1>3, Claims DEF Job, Phase
<1>5. Len(att) = 0 /\ Attempts = {} /\ att \in Seq(Attempt)
  BY <1>2 DEF Attempts
<1>6. Idle \in [pc : {"idle", "advance", "submit"}, proc : Procs \cup {NoProc}, occ : Nat]
  BY DEF Idle
<1>7. TypeOK
  BY <1>2, <1>4, <1>5, <1>6 DEF TypeOK
<1>8. FenceHolds /\ DeliversAlone /\ LedgerAgrees /\ TickerLives
  BY <1>2, <1>5, <1>6 DEF Idle, FenceHolds, DeliversAlone, LedgerAgrees, TickerLives
<1>9. TokensAgree /\ GuardHolds
  BY <1>1, <1>5, Claims DEF TokensAgree, GuardHolds
<1>10. OccBounded
  BY <1>1, <1>2, <1>5 DEF OccBounded, Idle
<1>11. SlotsAgree
  BY <1>1, <1>2, <1>5 DEF SlotsAgree, NextPhase, Finished
<1>12. BudgetHolds
  <2>1. \A o : RunsOf(o) = {}
    BY <1>5 DEF RunsOf
  <2>2. \A o : Cardinality(RunsOf(o)) = 0
    BY <2>1, FS_EmptySet
  <2>3. job.completed = 0 /\ job.times \in Nat
    BY <1>1, <1>3
  <2> QED
    BY <1>5, <2>2, <2>3 DEF BudgetHolds
<1> QED
  BY <1>7, <1>8, <1>9, <1>10, <1>11, <1>12 DEF IInv

LEMMA NextIInv ==
  ASSUME IInv, [Next]_vars
  PROVE  IInv'
<1>1. ASSUME NEW p \in Procs,
             \/ Tick(p) \/ Crash(p) \/ Recover(p)
             \/ \E via \in Vias : Start(p, via)
      PROVE  IInv'
  BY <1>1, TickKeeps, CrashKeeps, RecoverKeeps, StartKeeps
<1>2. CASE TickRest \/ SubmitFails
  BY <1>2, TickAdvanceKeeps, TickSubmitKeeps, SubmitFailsKeeps DEF TickRest
<1>3. ASSUME NEW a \in AttId, Progress(a)
      PROVE  IInv'
  BY <1>3, ClaimKeeps, ClaimRefusedKeeps, ValidateKeeps, DispatchKeeps, RunEndsKeeps,
     SkipDeliveryKeeps, EnterDeliveryKeeps, LeaveDeliveryKeeps, RaiseKeeps, WarnKeeps,
     MarkKeeps,      CloseKeeps
  DEF Progress
<1>4. ASSUME NEW a \in AttId, Beat(a) \/ BeatRun(a) \/ Interrupt(a)
      PROVE  IInv'
  BY <1>4, BeatKeeps, BeatRunKeeps, InterruptKeeps
<1>5. CASE Time
  BY <1>5, FallsDueKeeps, GetsLateKeeps, AgeRunKeeps, AgeFireKeeps DEF Time
<1>6. CASE Operator
  BY <1>6, PauseKeeps, ResumeKeeps, TriggerKeeps, RearmKeeps, RemoveKeeps DEF Operator
<1>7. CASE UNCHANGED vars
  <2>1. UNCHANGED <<job, att, up, ticker, fence, moves>>
    BY <1>7 DEF vars
  <2>2. moves' \in 0..MaxMoves
    BY <2>1 DEF IInv, TypeOK
  <2> QED
    BY <2>1, <2>2, RecordUnchanged, RecordKeeps
<1> QED
  BY <1>1, <1>2, <1>3, <1>4, <1>5, <1>6, <1>7 DEF Next

(***************************************************************************)
(* Whatever the ticks, providers, people, processes and clocks do: a       *)
(* result or failure summary, though not the notice of an exception, is    *)
(* delivered under the fire fence and by the claim's owner alone, the      *)
(* ledger agrees with the attempts, and claims, slots and budget say who   *)
(* runs what; only a one-shot whose record is removed after its claim runs *)
(* uncounted (jobs.py, scheduler.py, executions.py).                       *)
(***************************************************************************)
THEOREM Invariance == Spec => []IInv
<1>1. Init => IInv
  BY InitIInv
<1>2. IInv /\ [Next]_vars => IInv'
  BY NextIInv
<1> QED
  BY <1>1, <1>2, PTL DEF Spec

-------------------------------------------------------------------------------
(* What follows.                                                           *)

(* A set of at most one element.                                           *)
LEMMA AtMostOne ==
  ASSUME NEW S, \A x, y \in S : x = y
  PROVE  Cardinality(S) <= 1
<1>1. CASE S = {}
  BY <1>1, FS_EmptySet
<1>2. CASE S # {}
  <2>1. PICK x : x \in S
    BY <1>2
  <2>2. S = {x}
    BY <2>1
  <2>3. Cardinality({x}) = 1
    BY FS_Singleton
  <2> QED
    BY <2>2, <2>3
<1> QED
  BY <1>1, <1>2

LEMMA OccurrenceOnceHolds ==
  ASSUME IInv
  PROVE  OccurrenceOnce
<1> SUFFICES ASSUME NEW o \in {att[a].occ : a \in Attempts} \ {0}, Once => job.times > 0
             PROVE  Cardinality(RunsOf(o)) <= IF Once THEN job.times ELSE 1
  BY DEF OccurrenceOnce, RunsOf
<1>1. o \in Nat /\ o # 0 /\ o <= job.occ /\ job.occ \in Nat /\ job.times \in Nat
  BY AttTypes DEF IInv, TypeOK, Job, Attempt, OccBounded
<1>2. CASE ~Once
  <2>1. \A a, b \in RunsOf(o) : a = b
    BY <1>1, <1>2 DEF RunsOf, IInv, SlotsAgree
  <2> QED
    BY <1>2, <2>1, AtMostOne
<1>3. CASE Once
  BY <1>1, <1>3 DEF IInv, BudgetHolds
<1> QED
  BY <1>2, <1>3

(***************************************************************************)
(* No occurrence is run more often than it may, whoever starts it and      *)
(* whatever dies: the slot of a recurring job once by the ticks            *)
(* (advance_next_runs before the dispatch), a one-shot within its budget   *)
(* for each time it is armed (claim_dispatch before the run), but for runs *)
(* dispatched after its record was removed: there is no record left to     *)
(* count them, and claim_dispatch returns True.                            *)
(***************************************************************************)
THEOREM RunsWithinBudget == Spec => []OccurrenceOnce
<1>1. IInv => OccurrenceOnce
  BY OccurrenceOnceHolds
<1> QED
  BY <1>1, Invariance, PTL

(***************************************************************************)
(* Where a background run always finds room in the pool, so that every     *)
(* attempt runs the record its own claim returned: of the attempts that    *)
(* are awake and not told to stop, one runs the job, delivers or sends a   *)
(* notice (claim_job_for_fire, heartbeat_fire_claim, fire_claim_fence).    *)
(***************************************************************************)
THEOREM RunsAlone ==
  ASSUME ~Inline
  PROVE  Spec => []OneRunner
<1>1. IInv => OneRunner
  <2> SUFFICES ASSUME IInv
               PROVE  OneRunner
    OBVIOUS
  <2>1. \A a, b \in Attempts : Guarded(a) /\ Guarded(b) => a = b
    BY DEF IInv, GuardHolds
  <2> QED
    BY <2>1 DEF OneRunner, Guarded
<1> QED
  BY <1>1, Invariance, PTL

===============================================================================
