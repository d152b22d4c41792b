------------------------------- MODULE EmailQueue -------------------------------
(***************************************************************************)
(* The outgoing mail: the rows of email_send_tasks, the workers that send  *)
(* them (processEmailSendQueue, src/lib/email/outgoing.ts), the recovery   *)
(* campaign that queues and is completed with its rows                     *)
(* (executeRecoveryCampaign, src/lib/agent/recovery-campaign.ts), the      *)
(* newsletter (src/app/api/marketing/send/route.ts) and the opt-outs in    *)
(* email_unsubscribes (src/lib/email/unsubscribe.ts).                      *)
(*                                                                         *)
(* One business, so one opt-out list.  A statement is atomic; everything   *)
(* between two statements interleaves.  A row's scheduled_at and the lease *)
(* of 15 minutes since its claimed_at are a flag each, raised when their   *)
(* time has come.  claimed_at is when the claiming poll began, not when    *)
(* the row was claimed, so a lease may be over as soon as it is taken.     *)
(***************************************************************************)
EXTENDS Naturals, FiniteSets

CONSTANTS
  Workers,      (* Polls that may be under way at once.                    *)
  Recipients,   (* The customers of the frozen campaign.                   *)
  Newsletters,  (* Those of them that marketing/send may write to.         *)
  MaxAttempts,  (* max_attempts of every row: 3.                           *)
  MaxCampaigns, (* Bound on the campaigns one approval is executed as.     *)
  MaxFaults,    (* Bound on crashes, lost writes and failed lookups.       *)
  Slow,         (* Whether a poll may outlive its lease.                   *)
  None          (* No task: the one of an idle worker, and the token of an *)
                (* opt-out that came by no link.                           *)

(* Campaign 0 is no campaign: the newsletter's rows.                       *)
Row == (0..MaxCampaigns) \X Recipients

ASSUME EmailAssumption ==
  /\ Newsletters \subseteq Recipients
  /\ MaxAttempts \in Nat \ {0}
  /\ MaxCampaigns \in Nat
  /\ MaxFaults \in Nat
  /\ Slow \in BOOLEAN
  /\ None \notin Row

VARIABLES
  campaign,     (* status of each marketing_contents row; "none": no row.  *)
  writing,      (* The campaign whose rows are being inserted, or 0.       *)
  left,         (* The recipients whose rows are still to be inserted.     *)
  status,       (* status of each task; "none" while there is no row.      *)
  due,          (* scheduled_at of the task is past.                       *)
  expired,      (* The claim on the task is older than the lease.          *)
  attempts,     (* attempts of the task.                                   *)
  unsubscribes, (* The rows of email_unsubscribes.                         *)
  clicked,      (* The recipients who have used the link in a mail.        *)
  pc,           (* Where each worker is in its poll.                       *)
  todo,         (* The tasks it has read and not disposed of.              *)
  seen,         (* Their attempts when it read them.                       *)
  listed,       (* The opt-outs it has read for this batch.                *)
  cur,          (* The task it is sending.                                 *)
  touched,      (* The campaigns it will try to complete.                  *)
  closing,      (* The one it is completing, or 0.                         *)
  delivered,    (* How often the mail server accepted a task's mail.       *)
  tries,        (* How often a task's mail was given to the server.        *)
  stale,        (* Tasks that were claimed from an outdated snapshot.      *)
  lapsed,       (* Tasks whose lease was ever outlived by its poll.        *)
  early,        (* Campaigns found complete while still being inserted.    *)
  faults        (* How many faults there have been.                        *)

campaignVars == <<campaign, writing, left>>
rowVars      == <<status, due, expired, attempts>>
optVars      == <<unsubscribes, clicked>>
workerVars   == <<pc, todo, seen, listed, cur, touched, closing>>
counts       == <<delivered, tries>>
ghosts       == <<stale, lapsed, early>>
vars == <<campaignVars, rowVars, optVars, workerVars, counts, ghosts, faults>>

CampaignOf(m) == m[1]
To(m)         == m[2]
RowsOf(c)     == {m \in Row : CampaignOf(m) = c}

Pending == {"queued", "sending"}
Settled == {"sent", "failed", "skipped_optout"}
Pc == {"idle", "recover", "list", "batch", "smtp", "accepted", "refused", "close"}

NoCounts == [m \in Row |-> 0]

Init ==
  /\ campaign     = [c \in 1..MaxCampaigns |-> "none"]
  /\ writing      = 0
  /\ left         = {}
  /\ status       = [m \in Row |-> "none"]
  /\ due          = [m \in Row |-> FALSE]
  /\ expired      = [m \in Row |-> FALSE]
  /\ attempts     = NoCounts
  /\ unsubscribes = {}
  /\ clicked      = {}
  /\ pc           = [w \in Workers |-> "idle"]
  /\ todo         = [w \in Workers |-> {}]
  /\ seen         = [w \in Workers |-> NoCounts]
  /\ listed       = [w \in Workers |-> {}]
  /\ cur          = [w \in Workers |-> None]
  /\ touched      = [w \in Workers |-> {}]
  /\ closing      = [w \in Workers |-> 0]
  /\ delivered    = NoCounts
  /\ tries        = NoCounts
  /\ stale        = {}
  /\ lapsed       = {}
  /\ early        = {}
  /\ faults       = 0

NoFault == UNCHANGED faults
Fault   == faults < MaxFaults /\ faults' = faults + 1

-----------------------------------------------------------------------------
(* Time.                                                                   *)

(* Worker w has claimed a task and not answered for it yet.                *)
Sending(w) == pc[w] \in {"smtp", "accepted", "refused"}
Holders(m) == {w \in Workers : Sending(w) /\ cur[w] = m}

Due(m) ==
  /\ status[m] = "queued" /\ ~due[m]
  /\ due' = [due EXCEPT ![m] = TRUE]
  /\ UNCHANGED <<campaignVars, status, expired, attempts, optVars, workerVars, counts, ghosts, faults>>

Expire(m) ==
  /\ status[m] = "sending" /\ ~expired[m]
  /\ Slow \/ Holders(m) = {}
  /\ expired' = [expired EXCEPT ![m] = TRUE]
  /\ lapsed'  = IF Holders(m) = {} THEN lapsed ELSE lapsed \cup {m}
  /\ UNCHANGED <<campaignVars, status, due, attempts, optVars, workerVars, counts, stale, early, faults>>

-----------------------------------------------------------------------------
(* Queueing.                                                               *)

Queue(m) == status' = [status EXCEPT ![m] = "queued"]

(***************************************************************************)
(* executeRecoveryCampaign.  Called again for an approval whose campaign   *)
(* is still sending it returns that one and changes nothing; a campaign    *)
(* that is complete it does not find.                                      *)
(***************************************************************************)
Execute(c) ==
  /\ writing = 0
  /\ \A d \in 1..MaxCampaigns : campaign[d] # "sending" /\ (campaign[d] = "none" <=> d >= c)
  /\ campaign' = [campaign EXCEPT ![c] = "sending"]
  /\ writing' = c
  /\ left' = Recipients
  /\ UNCHANGED <<rowVars, optVars, workerVars, counts, ghosts, faults>>

Written(r) == /\ left' = left \ {r}
              /\ writing' = IF left' = {} THEN 0 ELSE writing
              /\ UNCHANGED <<campaign, due, expired, attempts, optVars, workerVars, counts, ghosts>>

Insert(r) == r \in left /\ Queue(<<writing, r>>) /\ Written(r) /\ NoFault

(* A recipient whose insert fails is counted as skipped.                   *)
InsertFails(r) == r \in left /\ UNCHANGED status /\ Written(r) /\ Fault

ExecutorDies ==
  /\ writing # 0
  /\ writing' = 0 /\ left' = {}
  /\ Fault
  /\ UNCHANGED <<campaign, rowVars, optVars, workerVars, counts, ghosts>>

(* marketing/send queues one mail, with an unsubscribe token of its own.   *)
Newsletter(r) ==
  /\ status[<<0, r>>] = "none"
  /\ Queue(<<0, r>>)
  /\ UNCHANGED <<campaignVars, due, expired, attempts, optVars, workerVars, counts, ghosts, faults>>

-----------------------------------------------------------------------------
(* Opt-outs.                                                               *)

OptedOut == {u.to : u \in unsubscribes}

(* recordUnsubscribe: an address is recorded once.                         *)
Recorded(r, token) ==
  IF r \in OptedOut THEN unsubscribes ELSE unsubscribes \cup {[to |-> r, token |-> token]}

(* findUnsubscribeByToken: the rows of email_unsubscribes by their token.  *)
FoundBy(token) == {u \in unsubscribes : u.token = token}

(* The owner enters the opt-out that a recipient asked for.                *)
OptOut(r) ==
  /\ r \notin OptedOut
  /\ unsubscribes' = Recorded(r, None)
  /\ UNCHANGED <<campaignVars, rowVars, clicked, workerVars, counts, ghosts, faults>>

(* The recipient of a newsletter uses its link; a token that is not found  *)
(* is answered with 404.                                                   *)
Click(r) ==
  /\ delivered[<<0, r>>] > 0
  /\ clicked' = clicked \cup {r}
  /\ unsubscribes' = IF FoundBy(<<0, r>>) = {} THEN unsubscribes
                     ELSE LET u == CHOOSE u \in FoundBy(<<0, r>>) : TRUE
                          IN Recorded(u.to, <<0, r>>)
  /\ UNCHANGED <<campaignVars, rowVars, workerVars, counts, ghosts, faults>>

-----------------------------------------------------------------------------
(* recoverStaleEmailSends, at the start of every poll.                     *)

Goto(w, p) == pc' = [pc EXCEPT ![w] = p]

(* Worker w is done with task m of its snapshot.                           *)
Drop(w, m) == /\ todo' = [todo EXCEPT ![w] = @ \ {m}]
              /\ seen' = [seen EXCEPT ![w][m] = 0]

SetStatus(m, s) == status' = [status EXCEPT ![m] = s]
NotExpired(m)   == expired' = [expired EXCEPT ![m] = FALSE]

Start(w) ==
  /\ pc[w] = "idle"
  /\ Goto(w, "recover")
  /\ todo' = [todo EXCEPT ![w] = {m \in Row : status[m] = "sending" /\ expired[m]}]
  /\ UNCHANGED <<campaignVars, rowVars, optVars, seen, listed, cur, touched, closing, counts, ghosts, faults>>

(* Slip: the budget is overdrawn by one.                                   *)
AfterFailureLate(n) == IF n > MaxAttempts THEN "failed" ELSE "queued"

(* The task after n spent attempts: an outlived lease costs one, like a    *)
(* refused mail (emailLeaseDecision).                                      *)
AfterFailure(n) == IF n >= MaxAttempts THEN "failed" ELSE "queued"

(* Slip: the update is fenced by the status alone.                         *)
StillStuckUnfenced(m) == status[m] = "sending"

(* Slip: a task at its last attempt is left as it is.                      *)
StillStuckUnlessLast(m) ==
  status[m] = "sending" /\ expired[m] /\ attempts[m] + 1 < MaxAttempts

(* The update is fenced by status and claimed_at.                          *)
StillStuck(m) == status[m] = "sending" /\ expired[m]

Recover(w, m) ==
  /\ pc[w] = "recover" /\ m \in todo[w] /\ StillStuck(m)
  /\ Drop(w, m)
  /\ attempts' = [attempts EXCEPT ![m] = @ + 1]
  /\ SetStatus(m, AfterFailure(attempts'[m]))
  /\ due' = [due EXCEPT ![m] = FALSE]
  /\ NotExpired(m)
  /\ UNCHANGED <<campaignVars, optVars, pc, listed, cur, touched, closing, counts, ghosts, faults>>

(* Another worker recovered it first, or the update fails.                 *)
NotRecovered(w, m) ==
  /\ pc[w] = "recover" /\ m \in todo[w]
  /\ (~StillStuck(m) /\ NoFault) \/ Fault
  /\ Drop(w, m)
  /\ UNCHANGED <<campaignVars, rowVars, optVars, pc, listed, cur, touched, closing, counts, ghosts>>

-----------------------------------------------------------------------------
(* processEmailSendQueue.                                                  *)

(* The snapshot of the due tasks that the whole batch works from.          *)
DueRows == {m \in Row : status[m] = "queued" /\ due[m]}

Select(w) ==
  /\ pc[w] = "recover" /\ todo[w] = {}
  /\ Goto(w, IF DueRows = {} THEN "idle" ELSE "list")
  /\ todo' = [todo EXCEPT ![w] = DueRows]
  /\ seen' = [seen EXCEPT ![w] = [m \in Row |-> IF m \in DueRows THEN attempts[m] ELSE 0]]
  /\ UNCHANGED <<campaignVars, rowVars, optVars, listed, cur, touched, closing, counts, ghosts, faults>>

(* The opt-outs among the batch's addresses are read once, before it.      *)
ReadList(w) ==
  /\ pc[w] = "list"
  /\ Goto(w, "batch")
  /\ listed' = [listed EXCEPT ![w] = OptedOut \cap {To(m) : m \in todo[w]}]
  /\ UNCHANGED <<campaignVars, rowVars, optVars, todo, seen, cur, touched, closing, counts, ghosts, faults>>

(* Without the list the whole batch stays queued.                          *)
ListFails(w) ==
  /\ pc[w] = "list"
  /\ Goto(w, "idle")
  /\ todo' = [todo EXCEPT ![w] = {}]
  /\ seen' = [seen EXCEPT ![w] = NoCounts]
  /\ Fault
  /\ UNCHANGED <<campaignVars, rowVars, optVars, listed, cur, touched, closing, counts, ghosts>>

Touch(w, m) ==
  touched' = [touched EXCEPT ![w] = @ \cup ({CampaignOf(m)} \ {0})]

(* Slip: only a first try is checked against the list.                     *)
BlockedOnFirstTry(w, m) == seen[w][m] = 0 /\ To(m) \in listed[w]

Blocked(w, m) == To(m) \in listed[w]

(* A blocked task is taken out of the queue, unless another worker has it. *)
Skip(w, m) ==
  /\ pc[w] = "batch" /\ m \in todo[w] /\ Blocked(w, m)
  /\ Drop(w, m)
  /\ Touch(w, m)
  /\ \/ status[m] = "queued" /\ SetStatus(m, "skipped_optout") /\ NoFault
     \/ status[m] # "queued" /\ UNCHANGED status /\ NoFault
     \/ UNCHANGED status /\ Fault
  /\ UNCHANGED <<campaignVars, due, expired, attempts, optVars, pc, listed, cur, closing, counts, ghosts>>

(* Slip: the claim does not look at the status.                            *)
ClaimablePending(m) == status[m] \in Pending

(* Slip: the claim only keeps off sent mail and mail being sent.           *)
ClaimableUnsent(m) == status[m] \notin {"sending", "sent"}

(* The claim's condition: the status of the snapshot still holds.          *)
Claimable(m) == status[m] = "queued"

Claim(w, m) ==
  /\ pc[w] = "batch" /\ m \in todo[w] /\ ~Blocked(w, m)
  /\ Claimable(m)
  /\ SetStatus(m, "sending")
  /\ Goto(w, "smtp")
  /\ cur' = [cur EXCEPT ![w] = m]
  /\ Touch(w, m)
  /\ stale' = IF seen[w][m] = attempts[m] THEN stale ELSE stale \cup {m}
  /\ UNCHANGED <<campaignVars, due, expired, attempts, optVars, todo, seen, listed, closing, counts, lapsed, early, faults>>

(* The task is no longer queued, or the claim's answer is an error.        *)
NotClaimed(w, m) ==
  /\ pc[w] = "batch" /\ m \in todo[w] /\ ~Blocked(w, m)
  /\ \/ ~Claimable(m) /\ UNCHANGED status /\ NoFault
     \/ Claimable(m) /\ SetStatus(m, "sending") /\ Fault
     \/ UNCHANGED status /\ Fault
  /\ Drop(w, m)
  /\ UNCHANGED <<campaignVars, due, expired, attempts, optVars, pc, listed, cur, touched, closing, counts, ghosts>>

(* The counts go one beyond what the properties tell apart.                *)
Count(f, m, max) == [f EXCEPT ![m] = IF @ > max THEN @ ELSE @ + 1]

Accept(w) ==
  /\ pc[w] = "smtp"
  /\ Goto(w, "accepted")
  /\ tries'     = Count(tries, cur[w], MaxAttempts)
  /\ delivered' = Count(delivered, cur[w], MaxFaults + 1)
  /\ UNCHANGED <<campaignVars, rowVars, optVars, todo, seen, listed, cur, touched, closing, ghosts, faults>>

(* The server refuses the mail, or accepts it and its answer is lost.      *)
Refuse(w) ==
  /\ pc[w] = "smtp"
  /\ Goto(w, "refused")
  /\ tries' = Count(tries, cur[w], MaxAttempts)
  /\ \/ UNCHANGED delivered /\ NoFault
     \/ delivered' = Count(delivered, cur[w], MaxFaults + 1) /\ Fault
  /\ UNCHANGED <<campaignVars, rowVars, optVars, todo, seen, listed, cur, touched, closing, ghosts>>

(* The outcome is written by the task's id alone, with the attempts of the *)
(* snapshot plus one; an error of the write is at most logged.             *)
Write(w, s) ==
  LET m == cur[w]
  IN /\ attempts' = [attempts EXCEPT ![m] = seen[w][m] + 1]
     /\ SetStatus(m, s)
     /\ due' = [due EXCEPT ![m] = due[m] /\ s # "queued"]
     /\ NotExpired(m)

Answered(w) == /\ Goto(w, "batch")
               /\ Drop(w, cur[w])
               /\ cur' = [cur EXCEPT ![w] = None]
               /\ UNCHANGED <<campaignVars, optVars, listed, touched, closing, counts, ghosts>>

MarkSent(w) == pc[w] = "accepted" /\ Write(w, "sent") /\ Answered(w) /\ NoFault

MarkFailed(w) == /\ pc[w] = "refused"
                 /\ Write(w, AfterFailure(seen[w][cur[w]] + 1))
                 /\ Answered(w) /\ NoFault

WriteIsLost(w) == /\ pc[w] \in {"accepted", "refused"}
                  /\ UNCHANGED rowVars
                  /\ Answered(w) /\ Fault

-----------------------------------------------------------------------------
(* finalizeCampaignIfComplete, for every campaign of the batch.            *)

(* Slip: mail being sent does not keep a campaign open.                    *)
CompleteUnlessQueued(c) == \A m \in RowsOf(c) : status[m] # "queued"

Complete(c) == \A m \in RowsOf(c) : status[m] \notin Pending

(* The campaign is read, then its rows; a campaign that another worker     *)
(* closes in between would be closed once more, which changes nothing.     *)
Check(w, c) ==
  /\ pc[w] = "batch" /\ todo[w] = {} /\ c \in touched[w]
  /\ campaign[c] = "sending" /\ Complete(c)
  /\ Goto(w, "close")
  /\ closing' = [closing EXCEPT ![w] = c]
  /\ early' = IF writing = c THEN early \cup {c} ELSE early
  /\ UNCHANGED <<campaignVars, rowVars, optVars, todo, seen, listed, cur, touched, counts, stale, lapsed, faults>>

(* It is complete already, or is not, or a lookup fails.                   *)
NotComplete(w, c) ==
  /\ pc[w] = "batch" /\ todo[w] = {} /\ c \in touched[w]
  /\ \/ (campaign[c] # "sending" \/ ~Complete(c)) /\ NoFault
     \/ Fault
  /\ touched' = [touched EXCEPT ![w] = @ \ {c}]
  /\ UNCHANGED <<campaignVars, rowVars, optVars, pc, todo, seen, listed, cur, closing, counts, ghosts>>

(* The update's error is not looked at.                                    *)
Close(w) ==
  /\ pc[w] = "close"
  /\ \/ campaign' = [campaign EXCEPT ![closing[w]] = "sent"] /\ NoFault
     \/ UNCHANGED campaign /\ Fault
  /\ Goto(w, "batch")
  /\ touched' = [touched EXCEPT ![w] = @ \ {closing[w]}]
  /\ closing' = [closing EXCEPT ![w] = 0]
  /\ UNCHANGED <<writing, left, rowVars, optVars, todo, seen, listed, cur, counts, ghosts>>

Rest(w) ==
  /\ pc[w] = "batch" /\ todo[w] = {} /\ touched[w] = {}
  /\ Goto(w, "idle")
  /\ listed' = [listed EXCEPT ![w] = {}]
  /\ UNCHANGED <<campaignVars, rowVars, optVars, todo, seen, cur, touched, closing, counts, ghosts, faults>>

(* The worker's process dies, and with it what it was about to do.         *)
Die(w) ==
  /\ pc[w] # "idle"
  /\ Goto(w, "idle")
  /\ todo'    = [todo EXCEPT ![w] = {}]
  /\ seen'    = [seen EXCEPT ![w] = NoCounts]
  /\ listed'  = [listed EXCEPT ![w] = {}]
  /\ cur'     = [cur EXCEPT ![w] = None]
  /\ touched' = [touched EXCEPT ![w] = {}]
  /\ closing' = [closing EXCEPT ![w] = 0]
  /\ Fault
  /\ UNCHANGED <<campaignVars, rowVars, optVars, counts, ghosts>>

-----------------------------------------------------------------------------
(* What a worker does as long as it lives.                                 *)
Poll(w) ==
  \/ Start(w) \/ Select(w) \/ ReadList(w)
  \/ \E m \in Row : \/ Recover(w, m) \/ NotRecovered(w, m)
                    \/ Skip(w, m) \/ Claim(w, m) \/ NotClaimed(w, m)
  \/ Accept(w) \/ Refuse(w) \/ MarkSent(w) \/ MarkFailed(w)
  \/ \E c \in 1..MaxCampaigns : Check(w, c) \/ NotComplete(w, c)
  \/ Close(w) \/ Rest(w)

Next ==
  \/ \E m \in Row : Due(m) \/ Expire(m)
  \/ \E c \in 1..MaxCampaigns : Execute(c)
  \/ \E r \in Recipients : Insert(r) \/ InsertFails(r) \/ OptOut(r)
  \/ \E r \in Newsletters : Newsletter(r) \/ Click(r)
  \/ ExecutorDies
  \/ \E w \in Workers : Poll(w) \/ ListFails(w) \/ WriteIsLost(w) \/ Die(w)

Spec == Init /\ [][Next]_vars

(***************************************************************************)
(* The scheduler polls every minute and a poll goes on as long as the mail *)
(* server answers; schedules and leases come due by themselves.            *)
(***************************************************************************)
Fairness == /\ \A w \in Workers : WF_vars(Poll(w))
            /\ \A m \in Row : WF_vars(Due(m)) /\ WF_vars(Expire(m))

FairSpec == Spec /\ Fairness

-----------------------------------------------------------------------------
(* Properties.                                                             *)

TypeOK ==
  /\ campaign  \in [1..MaxCampaigns -> {"none", "sending", "sent"}]
  /\ writing   \in 0..MaxCampaigns
  /\ left      \subseteq Recipients
  /\ status    \in [Row -> {"none"} \cup Pending \cup Settled]
  /\ due       \in [Row -> BOOLEAN]
  /\ expired   \in [Row -> BOOLEAN]
  /\ attempts  \in [Row -> 0..MaxAttempts]
  /\ unsubscribes \subseteq [to : Recipients, token : Row \cup {None}]
  /\ clicked   \subseteq Recipients
  /\ pc        \in [Workers -> Pc]
  /\ todo      \in [Workers -> SUBSET Row]
  /\ seen      \in [Workers -> [Row -> 0..(MaxAttempts - 1)]]
  /\ listed    \in [Workers -> SUBSET Recipients]
  /\ cur       \in [Workers -> Row \cup {None}]
  /\ touched   \in [Workers -> SUBSET (1..MaxCampaigns)]
  /\ closing   \in [Workers -> 0..MaxCampaigns]
  /\ delivered \in [Row -> 0..(MaxFaults + 2)]
  /\ tries     \in [Row -> 0..(MaxAttempts + 1)]
  /\ stale     \subseteq Row
  /\ lapsed    \subseteq Row
  /\ early     \subseteq 1..MaxCampaigns
  /\ faults    \in 0..MaxFaults

(***************************************************************************)
(* Workers do not send the same mail together: as long as no poll outlives *)
(* its lease on a task, one worker at most has it claimed (the claim's     *)
(* condition on the status, outgoing.ts lines 295-303).                    *)
(***************************************************************************)
OneSender == \A m \in Row \ lapsed : \A v, w \in Holders(m) : v = w

(***************************************************************************)
(* Mail is sent once, and again only for a fault: every further delivery   *)
(* has a crash, a lost write or a lost answer of its own behind it, never  *)
(* two polls of one queue ("at-least-once", outgoing.ts lines 320-323).    *)
(***************************************************************************)
SentOncePerFault == \A m \in Row \ lapsed : delivered[m] <= 1 + faults

(***************************************************************************)
(* The retry budget holds across failures, crashes and recoveries, which   *)
(* all spend attempts, except for tasks claimed from an outdated snapshot, *)
(* whose attempts are written back too low (outgoing.ts lines 270, 328).   *)
(***************************************************************************)
BudgetKept == \A m \in Row \ (lapsed \cup stale) : tries[m] <= MaxAttempts

(***************************************************************************)
(* A campaign reads sent only once none of its tasks is queued or being    *)
(* sent, unless it was completed while still being written or a poll       *)
(* outlived a lease (finalizeCampaignIfComplete, lines 374-382).           *)
(***************************************************************************)
SentIsComplete ==
  \A c \in 1..MaxCampaigns :
    /\ campaign[c] = "sent"
    /\ c \notin early
    /\ RowsOf(c) \cap lapsed = {}
    => Complete(c)

(***************************************************************************)
(* A settled task stays settled: sent, failed or skipped, it is never      *)
(* queued or sent again while no poll outlives a lease on it, although the *)
(* outcome is written by id alone (lines 315-348).                         *)
(***************************************************************************)
SettledIsFinal ==
  [][\A m \in Row \ lapsed : status[m] \in Settled => status'[m] = status[m]]_vars

(* Everyone who may still send has read r's opt-out.                       *)
Heeded(r) == /\ r \in OptedOut
             /\ \A w \in Workers :
                  /\ \E m \in todo[w] : To(m) = r
                  /\ pc[w] \in Pc \ {"recover", "list"}
                  => r \in listed[w]

(***************************************************************************)
(* An opt-out is heeded for good: once the batches that were under way     *)
(* when it was entered are through, the address gets no more mail, from no *)
(* retry, recovered lease, later campaign or failed lookup (退订被持续遵守,  *)
(* unsubscribe.ts:7, and the list read before every batch, outgoing.ts     *)
(* lines 245-262).                                                         *)
(***************************************************************************)
OptOutsAreHeeded ==
  [][\A m \in Row : Heeded(To(m)) => delivered'[m] = delivered[m]]_vars

(***************************************************************************)
(* No task is stuck: a queued or claimed one is eventually sent, failed or *)
(* skipped, although workers die and writes are lost (避免任务永久卡死,    *)
(* outgoing.ts:227).                                                       *)
(***************************************************************************)
TasksSettle == \A m \in Row : status[m] \in Pending ~> status[m] \in Settled

-----------------------------------------------------------------------------
(* The inductive invariant behind the safety properties.                   *)

(* A task is inserted once, and starts from nothing.                       *)
Fresh ==
  /\ writing = 0 => left = {}
  /\ \A r \in left : status[<<writing, r>>] = "none"
  /\ \A c \in 1..MaxCampaigns : campaign[c] = "none" =>
       /\ writing # c
       /\ \A m \in RowsOf(c) : status[m] = "none"
  /\ \A m \in Row : status[m] = "none" => attempts[m] = 0 /\ tries[m] = 0

(* Unless its lease was outlived, a claimed task reads sending.            *)
Held ==
  /\ \A m \in Row : expired[m] => status[m] = "sending"
  /\ \A w \in Workers : Sending(w) =>
       /\ cur[w] \in todo[w]
       /\ ~Blocked(w, cur[w])
       /\ status[cur[w]] # "none"
       /\ cur[w] \notin lapsed => status[cur[w]] = "sending" /\ ~expired[cur[w]]

(* An unsettled task has an attempt left.                                  *)
AttemptsLeft == \A m \in Row : status[m] \in Pending => attempts[m] < MaxAttempts

(* Every try but one that is not recorded yet has spent an attempt.        *)
Unrecorded(m) == status[m] = "sending" /\ \A w \in Holders(m) : pc[w] # "smtp"

TriesSpend ==
  \A m \in Row \ (lapsed \cup stale) :
    /\ tries[m] <= attempts[m] + (IF Unrecorded(m) THEN 1 ELSE 0)
    /\ \A w \in Holders(m) : seen[w][m] = attempts[m]

(* Every delivery but the one that is or will be on record had a fault.    *)
OnRecord(m) == status[m] = "sent" \/ \E w \in Holders(m) : pc[w] = "accepted"

DeliveriesHaveFaults ==
  \A m \in Row \ lapsed : delivered[m] <= faults + (IF OnRecord(m) THEN 1 ELSE 0)

(* A campaign that is or is being closed is written and complete.          *)
Over(c) == /\ c \notin early
           /\ RowsOf(c) \cap lapsed = {}
           => writing # c /\ Complete(c)

Closing ==
  /\ \A c \in 1..MaxCampaigns : campaign[c] = "sent" => Over(c)
  /\ \A w \in Workers : pc[w] = "close" =>
       /\ closing[w] \in 1..MaxCampaigns
       /\ campaign[closing[w]] # "none"
       /\ Over(closing[w])

IInv == /\ TypeOK /\ Fresh /\ Held /\ OneSender
        /\ AttemptsLeft /\ TriesSpend /\ DeliveriesHaveFaults /\ Closing

-----------------------------------------------------------------------------
(* What the code's comments say, and the queue does not keep.              *)

(***************************************************************************)
(* Recovering leases keeps campaigns from never reading sent (活动永不     *)
(* sent, outgoing.ts:227): a campaign is completed once it is written and  *)
(* all its tasks are settled.                                              *)
(***************************************************************************)
CampaignsComplete ==
  \A c \in 1..MaxCampaigns :
    /\ writing # c
    /\ \E m \in RowsOf(c) : status[m] # "none"
    /\ Complete(c)
    ~> campaign[c] = "sent"

(***************************************************************************)
(* "两个方法都**立即生效**" (email/unsubscribe/route.ts:15): whoever uses  *)
(* the link of a mail is on the opt-out list.                              *)
(***************************************************************************)
ClickTakesEffect == clicked \subseteq OptedOut

=============================================================================
