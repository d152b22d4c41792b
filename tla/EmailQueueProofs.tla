---------------------------- MODULE EmailQueueProofs ----------------------------
(* Proofs about EmailQueue: for any workers, recipients, campaigns,        *)
(* attempts and faults.                                                    *)
EXTENDS EmailQueue, TLAPS

USE EmailAssumption

-----------------------------------------------------------------------------
(* The type.                                                               *)

(* A step has at most one fault, and never more than there may be.         *)
LEMMA Faults ==
  ASSUME TypeOK, NoFault \/ Fault
  PROVE  faults' \in 0..MaxFaults /\ faults <= faults'
<1>1. faults \in 0..MaxFaults
  BY DEF TypeOK
<1> QED
  BY <1>1 DEF NoFault, Fault

LEMMA Drops ==
  ASSUME TypeOK, NEW w \in Workers, NEW m \in Row, Drop(w, m)
  PROVE  /\ todo' \in [Workers -> SUBSET Row]
         /\ seen' \in [Workers -> [Row -> 0..(MaxAttempts - 1)]]
         /\ todo'[w] = todo[w] \ {m}
         /\ \A v \in Workers \ {w} : todo'[v] = todo[v] /\ seen'[v] = seen[v]
<1>1. todo \in [Workers -> SUBSET Row] /\ seen \in [Workers -> [Row -> 0..(MaxAttempts - 1)]]
  BY DEF TypeOK
<1> QED
  BY <1>1 DEF Drop

LEMMA Counts ==
  ASSUME NEW max \in Nat, NEW f \in [Row -> 0..(max + 1)], NEW m \in Row
  PROVE  /\ Count(f, m, max) \in [Row -> 0..(max + 1)]
         /\ \A n \in Row \ {m} : Count(f, m, max)[n] = f[n]
         /\ Count(f, m, max)[m] <= f[m] + 1
BY DEF Count

LEMMA GoTo ==
  ASSUME TypeOK, NEW w \in Workers, NEW p \in Pc, Goto(w, p)
  PROVE  /\ pc' \in [Workers -> Pc]
         /\ pc'[w] = p
         /\ \A v \in Workers \ {w} : pc'[v] = pc[v]
<1>1. pc \in [Workers -> Pc]
  BY DEF TypeOK
<1> QED
  BY <1>1 DEF Goto

LEMMA TypeInit == Init => TypeOK
BY DEF Init, TypeOK, NoCounts, Pc

(* What the queueing and the opt-outs keep typed.                          *)
LEMMA TypeOfInputs ==
  ASSUME TypeOK,
         \/ \E m \in Row : Due(m) \/ Expire(m)
         \/ \E c \in 1..MaxCampaigns : Execute(c)
         \/ \E r \in Recipients : Insert(r) \/ InsertFails(r) \/ OptOut(r)
         \/ \E r \in Newsletters : Newsletter(r) \/ Click(r)
         \/ ExecutorDies
  PROVE  TypeOK'
<1>1. ASSUME NEW m \in Row, Due(m) PROVE TypeOK'
  BY <1>1 DEF TypeOK, Due, campaignVars, optVars, workerVars, counts, ghosts
<1>2. ASSUME NEW m \in Row, Expire(m) PROVE TypeOK'
  BY <1>2 DEF TypeOK, Expire, campaignVars, optVars, workerVars, counts
<1>3. ASSUME NEW c \in 1..MaxCampaigns, Execute(c) PROVE TypeOK'
  BY <1>3 DEF TypeOK, Execute, rowVars, optVars, workerVars, counts, ghosts
<1>4. ASSUME NEW r \in Recipients, Insert(r) PROVE TypeOK'
  <2>1. <<writing, r>> \in Row
    BY DEF TypeOK, Row
  <2>2. status' \in [Row -> {"none"} \cup Pending \cup Settled]
    BY <1>4, <2>1 DEF TypeOK, Insert, Queue, Pending
  <2> QED
    BY <1>4, <2>2 DEF TypeOK, Insert, Written, NoFault, optVars, workerVars, counts, ghosts
<1>5. ASSUME NEW r \in Recipients, InsertFails(r) PROVE TypeOK'
  BY <1>5 DEF TypeOK, InsertFails, Written, Fault, optVars, workerVars, counts, ghosts
<1>6. ASSUME NEW r \in Recipients, OptOut(r) PROVE TypeOK'
  BY <1>6 DEF TypeOK, OptOut, Recorded, campaignVars, rowVars, workerVars, counts, ghosts
<1>7. ASSUME NEW r \in Newsletters, Newsletter(r) PROVE TypeOK'
  BY <1>7 DEF TypeOK, Newsletter, Queue, Pending, Row, campaignVars, optVars, workerVars, counts, ghosts
<1>8. ASSUME NEW r \in Newsletters, Click(r) PROVE TypeOK'
  <2>1. <<0, r>> \in Row
    BY DEF Row
  <2>2. unsubscribes' \subseteq [to : Recipients, token : Row \cup {None}]
    <3>1. CASE FoundBy(<<0, r>>) = {}
      BY <1>8, <3>1 DEF TypeOK, Click
    <3>2. CASE FoundBy(<<0, r>>) # {}
      <4> DEFINE u == CHOOSE u \in FoundBy(<<0, r>>) : TRUE
      <4>1. u \in FoundBy(<<0, r>>)
        BY <3>2
      <4>2. u.to \in Recipients
        BY <4>1 DEF FoundBy, TypeOK
      <4>3. unsubscribes' = Recorded(u.to, <<0, r>>)
        BY <1>8, <3>2 DEF Click
      <4> HIDE DEF u
      <4> QED
        <5>1. [to |-> u.to, token |-> <<0, r>>] \in [to : Recipients, token : Row \cup {None}]
          BY <2>1, <4>2
        <5>2. unsubscribes \subseteq [to : Recipients, token : Row \cup {None}]
          BY DEF TypeOK
        <5> QED
          BY <4>3, <5>1, <5>2 DEF Recorded
    <3> QED
      BY <3>1, <3>2
  <2> QED
    BY <1>8, <2>2 DEF TypeOK, Click, campaignVars, rowVars, workerVars, counts, ghosts
<1>9. CASE ExecutorDies
  BY <1>9 DEF TypeOK, ExecutorDies, Fault, rowVars, optVars, workerVars, counts, ghosts
<1> QED
  BY <1>1, <1>2, <1>3, <1>4, <1>5, <1>6, <1>7, <1>8, <1>9

(* What the workers keep typed.                                            *)
LEMMA TypeOfWorkers ==
  ASSUME TypeOK, AttemptsLeft, Held,
         NEW w \in Workers,
         Poll(w) \/ ListFails(w) \/ WriteIsLost(w) \/ Die(w)
  PROVE  TypeOK'
<1>1. CASE Start(w)
  BY <1>1 DEF TypeOK, Start, Goto, Pc, campaignVars, rowVars, optVars, counts, ghosts
<1>2. CASE Select(w)
  <2>1. \A m \in DueRows : attempts[m] \in 0..(MaxAttempts - 1)
    BY DEF DueRows, TypeOK, AttemptsLeft, Pending
  <2>2. seen' \in [Workers -> [Row -> 0..(MaxAttempts - 1)]]
    BY <1>2, <2>1 DEF TypeOK, Select
  <2>3. pc' \in [Workers -> Pc] /\ todo' \in [Workers -> SUBSET Row]
    BY <1>2 DEF TypeOK, Select, Goto, Pc, DueRows
  <2> QED
    BY <1>2, <2>2, <2>3 DEF TypeOK, Select, campaignVars, rowVars, optVars, counts, ghosts
<1>3. CASE ReadList(w)
  <2>1. OptedOut \subseteq Recipients
    BY DEF OptedOut, TypeOK
  <2> QED
    BY <1>3, <2>1 DEF TypeOK, ReadList, Goto, Pc, campaignVars, rowVars, optVars, counts, ghosts
<1>4. ASSUME NEW m \in Row, Recover(w, m) PROVE TypeOK'
  <2>1. attempts[m] < MaxAttempts
    BY <1>4 DEF AttemptsLeft, Recover, StillStuck, Pending
  <2>2. attempts' \in [Row -> 0..MaxAttempts] /\ AfterFailure(attempts'[m]) \in {"failed", "queued"}
    BY <1>4, <2>1 DEF TypeOK, Recover, AfterFailure
  <2>3. status' \in [Row -> {"none"} \cup Pending \cup Settled]
    BY <1>4, <2>2 DEF TypeOK, Recover, SetStatus, Pending, Settled
  <2> QED
    BY <1>4, <2>2, <2>3 DEF TypeOK, Recover, Drop, NotExpired, campaignVars, optVars, counts, ghosts
<1>5. ASSUME NEW m \in Row, NotRecovered(w, m) PROVE TypeOK'
  BY <1>5, Faults, Drops DEF TypeOK, NotRecovered, campaignVars, rowVars, optVars, counts, ghosts
<1>6. ASSUME NEW m \in Row, Skip(w, m) PROVE TypeOK'
  <2>1. CampaignOf(m) \in 0..MaxCampaigns
    BY DEF CampaignOf, Row
  <2>2. touched' \in [Workers -> SUBSET (1..MaxCampaigns)]
    BY <1>6, <2>1 DEF TypeOK, Skip, Touch
  <2>3. status' \in [Row -> {"none"} \cup Pending \cup Settled]
    BY <1>6 DEF TypeOK, Skip, SetStatus, Settled
  <2>4. faults' \in 0..MaxFaults
    BY <1>6, Faults DEF Skip
  <2> QED
    BY <1>6, <2>2, <2>3, <2>4, Drops DEF TypeOK, Skip, campaignVars, optVars, counts, ghosts
<1>7. ASSUME NEW m \in Row, Claim(w, m) PROVE TypeOK'
  <2>1. CampaignOf(m) \in 0..MaxCampaigns
    BY DEF CampaignOf, Row
  <2>2. touched' \in [Workers -> SUBSET (1..MaxCampaigns)]
    BY <1>7, <2>1 DEF TypeOK, Claim, Touch
  <2>3. /\ status' \in [Row -> {"none"} \cup Pending \cup Settled]
        /\ pc' \in [Workers -> Pc] /\ stale' \subseteq Row
    BY <1>7 DEF TypeOK, Claim, SetStatus, Pending, Goto, Pc
  <2> QED
    BY <1>7, <2>2, <2>3 DEF TypeOK, Claim, campaignVars, optVars, counts
<1>8. ASSUME NEW m \in Row, NotClaimed(w, m) PROVE TypeOK'
  <2>1. status' \in [Row -> {"none"} \cup Pending \cup Settled]
    BY <1>8 DEF TypeOK, NotClaimed, SetStatus, Pending
  <2>2. faults' \in 0..MaxFaults
    BY <1>8, Faults DEF NotClaimed
  <2> QED
    BY <1>8, <2>1, <2>2, Drops DEF TypeOK, NotClaimed, campaignVars, optVars, counts, ghosts
<1>9. CASE Accept(w)
  <2>1. cur[w] \in Row
    BY <1>9 DEF TypeOK, Held, Sending, Accept
  <2>2. tries' \in [Row -> 0..(MaxAttempts + 1)] /\ delivered' \in [Row -> 0..(MaxFaults + 2)]
    <3>1. /\ tries \in [Row -> 0..(MaxAttempts + 1)] /\ delivered \in [Row -> 0..((MaxFaults + 1) + 1)]
          /\ MaxAttempts \in Nat /\ MaxFaults + 1 \in Nat
      BY DEF TypeOK
    <3>2. /\ Count(tries, cur[w], MaxAttempts) \in [Row -> 0..(MaxAttempts + 1)]
          /\ Count(delivered, cur[w], MaxFaults + 1) \in [Row -> 0..((MaxFaults + 1) + 1)]
      BY <2>1, <3>1, Counts
    <3> QED
      BY <1>9, <3>1, <3>2 DEF Accept
  <2> QED
    BY <1>9, <2>2 DEF TypeOK, Accept, Goto, Pc, campaignVars, rowVars, optVars, ghosts
<1>10. CASE Refuse(w)
  <2>1. cur[w] \in Row
    BY <1>10 DEF TypeOK, Held, Sending, Refuse
  <2>2. tries' \in [Row -> 0..(MaxAttempts + 1)] /\ delivered' \in [Row -> 0..(MaxFaults + 2)]
    <3>1. /\ tries \in [Row -> 0..(MaxAttempts + 1)] /\ delivered \in [Row -> 0..((MaxFaults + 1) + 1)]
          /\ MaxAttempts \in Nat /\ MaxFaults + 1 \in Nat
      BY DEF TypeOK
    <3>2. /\ Count(tries, cur[w], MaxAttempts) \in [Row -> 0..(MaxAttempts + 1)]
          /\ Count(delivered, cur[w], MaxFaults + 1) \in [Row -> 0..((MaxFaults + 1) + 1)]
      BY <2>1, <3>1, Counts
    <3> QED
      BY <1>10, <3>1, <3>2 DEF Refuse
  <2>3. faults' \in 0..MaxFaults
    BY <1>10, Faults DEF Refuse
  <2> QED
    BY <1>10, <2>2, <2>3 DEF TypeOK, Refuse, Goto, Pc, campaignVars, rowVars, optVars, ghosts
<1>11. ASSUME pc[w] \in {"accepted", "refused"}, NEW s \in {"sent", "failed", "queued"}, Write(w, s), Answered(w), NoFault
       PROVE TypeOK'
  <2>1. cur[w] \in Row
    BY <1>11 DEF TypeOK, Held, Sending
  <2>2. attempts' \in [Row -> 0..MaxAttempts] /\ status' \in [Row -> {"none"} \cup Pending \cup Settled]
    BY <1>11, <2>1 DEF TypeOK, Write, SetStatus, Pending, Settled
  <2>3. due' \in [Row -> BOOLEAN] /\ expired' \in [Row -> BOOLEAN]
    BY <1>11, <2>1 DEF TypeOK, Write, NotExpired
  <2> QED
    BY <1>11, <2>1, <2>2, <2>3, Drops, GoTo DEF TypeOK, Answered, NoFault, Pc, campaignVars, optVars, counts, ghosts
<1>12. CASE WriteIsLost(w)
  <2>1. cur[w] \in Row
    BY <1>12 DEF TypeOK, Held, Sending, WriteIsLost
  <2> QED
    BY <1>12, <2>1, Drops, GoTo, Faults DEF TypeOK, WriteIsLost, Answered, Pc, campaignVars, rowVars, optVars, counts, ghosts
<1>13. ASSUME NEW c \in 1..MaxCampaigns, Check(w, c) PROVE TypeOK'
  BY <1>13 DEF TypeOK, Check, Goto, Pc, campaignVars, rowVars, optVars, counts
<1>14. ASSUME NEW c \in 1..MaxCampaigns, NotComplete(w, c) PROVE TypeOK'
  BY <1>14, Faults DEF TypeOK, NotComplete, campaignVars, rowVars, optVars, counts, ghosts
<1>15. CASE Close(w)
  <2>1. campaign' \in [1..MaxCampaigns -> {"none", "sending", "sent"}]
    BY <1>15 DEF TypeOK, Close
  <2>2. faults' \in 0..MaxFaults
    BY <1>15, Faults DEF Close
  <2>3. pc' \in [Workers -> Pc]
    BY <1>15, GoTo DEF Close, Pc
  <2>4. touched' \in [Workers -> SUBSET (1..MaxCampaigns)] /\ closing' \in [Workers -> 0..MaxCampaigns]
    BY <1>15 DEF TypeOK, Close
  <2> QED
    BY <1>15, <2>1, <2>2, <2>3, <2>4 DEF TypeOK, Close, rowVars, optVars, counts, ghosts
<1>16. CASE Rest(w)
  BY <1>16 DEF TypeOK, Rest, Goto, Pc, campaignVars, rowVars, optVars, counts, ghosts
<1>17. CASE ListFails(w)
  BY <1>17 DEF TypeOK, ListFails, Goto, Pc, NoCounts, Fault, campaignVars, rowVars, optVars, counts, ghosts
<1>18. CASE Die(w)
  BY <1>18 DEF TypeOK, Die, Goto, Pc, NoCounts, Fault, campaignVars, rowVars, optVars, counts, ghosts
<1>19. CASE MarkSent(w)
  BY <1>19, <1>11 DEF MarkSent
<1>20. CASE MarkFailed(w)
  BY <1>20, <1>11 DEF MarkFailed, AfterFailure
<1> QED
  BY <1>1, <1>2, <1>3, <1>4, <1>5, <1>6, <1>7, <1>8, <1>9, <1>10, <1>12, <1>13, <1>14, <1>15, <1>16, <1>17, <1>18, <1>19, <1>20 DEF Poll

-----------------------------------------------------------------------------
(***************************************************************************)
(* How a step changes the state, as far as each part of the invariant      *)
(* depends on it, and that the part is kept.                               *)
(***************************************************************************)

(* No task is inserted and none removed.                                   *)
NothingInserted ==
  /\ writing' = writing /\ left' = left
  /\ \A c \in 1..MaxCampaigns : campaign'[c] = "none" => campaign[c] = "none"
  /\ \A m \in Row : /\ status[m] = "none" <=> status'[m] = "none"
                    /\ status[m] = "none" => attempts'[m] = attempts[m] /\ tries'[m] = tries[m]

LEMMA FreshKept == ASSUME TypeOK, Fresh, NothingInserted PROVE Fresh'
<1>1. \A r \in left : <<writing, r>> \in Row
  BY DEF TypeOK, Row
<1>2. \A c \in 1..MaxCampaigns : RowsOf(c) \subseteq Row
  BY DEF RowsOf
<1>3. \A c \in 1..MaxCampaigns : RowsOf(c)' = RowsOf(c)
  BY DEF RowsOf, Row, CampaignOf
<1> QED
  BY <1>1, <1>2, <1>3 DEF Fresh, NothingInserted

(* No claim is made, and the workers that send do not lose theirs.         *)
ClaimsStay ==
  /\ \A m \in Row : expired'[m] => status'[m] = "sending"
  /\ lapsed \subseteq lapsed'
  /\ \A w \in Workers : Sending(w)' =>
       /\ Sending(w)
       /\ cur'[w] = cur[w] /\ todo'[w] = todo[w] /\ listed'[w] = listed[w]
       /\ status'[cur[w]] # "none"
       /\ cur[w] \notin lapsed' => status'[cur[w]] = "sending" /\ ~expired'[cur[w]]

LEMMA ClaimsKept == ASSUME Held, OneSender, ClaimsStay PROVE Held' /\ OneSender'
<1>1. Held'
  BY DEF Held, ClaimsStay, Blocked
<1>2. \A m \in Row : Holders(m)' \subseteq Holders(m)
  BY DEF Holders, ClaimsStay, Sending
<1> QED
  BY <1>1, <1>2 DEF OneSender, ClaimsStay

(* No attempt is spent, and no task enters the queue.                      *)
AttemptsStay ==
  \A m \in Row : status'[m] \in Pending => status[m] \in Pending /\ attempts'[m] = attempts[m]

LEMMA AttemptsKept == ASSUME AttemptsLeft, AttemptsStay PROVE AttemptsLeft'
BY DEF AttemptsLeft, AttemptsStay

(* No mail is tried.                                                       *)
SpendingStays ==
  \A m \in Row \ (lapsed' \cup stale') :
    /\ m \notin lapsed \cup stale
    /\ tries'[m] = tries[m]
    /\ \/ attempts'[m] = attempts[m] /\ (Unrecorded(m) => Unrecorded(m)')
       \/ attempts'[m] = attempts[m] + 1
    /\ \A w \in Holders(m)' : w \in Holders(m) /\ attempts'[m] = attempts[m] /\ seen'[w][m] = seen[w][m]

LEMMA SpendingKept == ASSUME TypeOK, TypeOK', TriesSpend, SpendingStays PROVE TriesSpend'
<1>1. \A m \in Row : attempts[m] \in Nat /\ attempts'[m] \in Nat /\ tries[m] \in Nat
  BY DEF TypeOK
<1> QED
  BY <1>1 DEF TriesSpend, SpendingStays

(* No mail is delivered; a delivery off the record has a fault.            *)
DeliveriesStay ==
  /\ delivered' = delivered /\ faults <= faults' /\ lapsed \subseteq lapsed'
  /\ \A m \in Row \ lapsed' : OnRecord(m) => OnRecord(m)' \/ faults < faults'

LEMMA DeliveriesKept ==
  ASSUME TypeOK, TypeOK', DeliveriesHaveFaults, DeliveriesStay
  PROVE  DeliveriesHaveFaults'
<1>1. faults \in Nat /\ faults' \in Nat /\ \A m \in Row : delivered[m] \in Nat
  BY DEF TypeOK
<1> QED
  BY <1>1 DEF DeliveriesHaveFaults, DeliveriesStay

(* No campaign begins, and a settled task of one that is written stays so. *)
CampaignsStay ==
  /\ lapsed \subseteq lapsed' /\ early \subseteq early'
  /\ \A c \in 1..MaxCampaigns :
       /\ campaign[c] # "none" => campaign'[c] # "none" /\ (writing' = c => writing = c)
       /\ writing # c => \A m \in RowsOf(c) \ lapsed' : status'[m] \in Pending => status[m] \in Pending

LEMMA OverKept ==
  ASSUME TypeOK, CampaignsStay, NEW c \in 1..MaxCampaigns, campaign[c] # "none", Over(c)
  PROVE  Over(c)'
<1>1. RowsOf(c)' = RowsOf(c)
  BY DEF RowsOf, Row, CampaignOf
<1> QED
  BY <1>1 DEF Over, CampaignsStay, Complete

(* No worker finds a campaign complete or completes it.                    *)
NothingClosed ==
  /\ \A c \in 1..MaxCampaigns : campaign'[c] = "sent" => campaign[c] = "sent"
  /\ \A w \in Workers : pc'[w] = "close" => pc[w] = "close" /\ closing'[w] = closing[w]

LEMMA ClosingKept ==
  ASSUME TypeOK, Closing, CampaignsStay, NothingClosed
  PROVE  Closing'
<1>1. \A c \in 1..MaxCampaigns : campaign'[c] = "sent" => Over(c)'
  BY OverKept DEF Closing, NothingClosed
<1>2. ASSUME NEW w \in Workers, pc'[w] = "close"
      PROVE  /\ closing'[w] \in 1..MaxCampaigns
             /\ campaign'[closing'[w]] # "none"
             /\ Over(closing[w])'
  BY <1>2, OverKept DEF Closing, NothingClosed, CampaignsStay
<1> QED
  BY <1>1, <1>2 DEF Closing

-----------------------------------------------------------------------------
(* Steps that leave tasks, counts and the workers that send alone.         *)

Calm ==
  /\ UNCHANGED <<status, attempts, expired, counts, stale, lapsed>>
  /\ faults <= faults'
  /\ \A w \in Workers :
       /\ Sending(w)' <=> Sending(w)
       /\ Sending(w) => /\ pc'[w] = pc[w] /\ cur'[w] = cur[w]
                        /\ todo'[w] = todo[w] /\ listed'[w] = listed[w] /\ seen'[w] = seen[w]

(* ... and campaigns as well.                                              *)
Quiet ==
  /\ Calm
  /\ UNCHANGED <<campaignVars, early>>
  /\ \A w \in Workers : pc'[w] = "close" => pc[w] = "close" /\ closing'[w] = closing[w]

LEMMA CalmKeeps ==
  ASSUME IInv, TypeOK', Calm
  PROVE  Held' /\ OneSender' /\ AttemptsLeft' /\ TriesSpend' /\ DeliveriesHaveFaults'
<1> USE DEF IInv
<1>1. Held' /\ OneSender'
  <2>1. ClaimsStay
    BY DEF Calm, ClaimsStay, Held, TypeOK
  <2> QED
    BY <2>1, ClaimsKept
<1>2. AttemptsLeft'
  BY AttemptsKept DEF Calm, AttemptsStay
<1>3. \A m \in Row : Holders(m)' = Holders(m)
  BY DEF Calm, Holders, Sending
<1>4. TriesSpend'
  <2>1. \A m \in Row : Unrecorded(m) => Unrecorded(m)'
    BY <1>3 DEF Calm, Unrecorded, Holders, Sending
  <2>2. \A m \in Row : \A w \in Holders(m)' : seen'[w][m] = seen[w][m]
    BY <1>3 DEF Calm, Holders, Sending
  <2> QED
    BY <1>3, <2>1, <2>2, SpendingKept DEF Calm, SpendingStays, counts
<1>5. DeliveriesHaveFaults'
  <2>1. \A m \in Row : OnRecord(m) => OnRecord(m)'
    BY <1>3 DEF Calm, OnRecord, Holders, Sending
  <2> QED
    BY <2>1, DeliveriesKept DEF Calm, DeliveriesStay, counts
<1> QED
  BY <1>1, <1>2, <1>4, <1>5

LEMMA QuietKeeps == ASSUME IInv, TypeOK', Quiet PROVE IInv'
<1>1. Held' /\ OneSender' /\ AttemptsLeft' /\ TriesSpend' /\ DeliveriesHaveFaults'
  BY CalmKeeps DEF Quiet
<1>2. Fresh'
  BY FreshKept DEF IInv, Quiet, Calm, NothingInserted, campaignVars, counts
<1>3. Closing'
  BY ClosingKept DEF IInv, Quiet, Calm, CampaignsStay, NothingClosed, campaignVars
<1> QED
  BY <1>1, <1>2, <1>3 DEF IInv

-----------------------------------------------------------------------------
(* The inductive invariant.                                                *)

LEMMA InvInit == Init => IInv
<1> SUFFICES ASSUME Init PROVE IInv
  OBVIOUS
<1>1. TypeOK
  BY TypeInit
<1>2. Fresh /\ Held /\ OneSender /\ AttemptsLeft
  BY DEF Init, Fresh, Held, Sending, OneSender, Holders, AttemptsLeft, Pending, NoCounts, RowsOf
<1>3. TriesSpend /\ DeliveriesHaveFaults /\ Closing
  BY DEF Init, TriesSpend, Unrecorded, DeliveriesHaveFaults, OnRecord, Closing, Holders, NoCounts
<1> QED
  BY <1>1, <1>2, <1>3 DEF IInv

LEMMA InputsKeep ==
  ASSUME IInv, TypeOK',
         \/ \E m \in Row : Due(m) \/ Expire(m)
         \/ \E c \in 1..MaxCampaigns : Execute(c)
         \/ \E r \in Recipients : Insert(r) \/ InsertFails(r) \/ OptOut(r)
         \/ \E r \in Newsletters : Newsletter(r) \/ Click(r)
         \/ ExecutorDies
  PROVE  IInv'
<1> USE DEF IInv
<1>0. faults \in Nat /\ faults <= faults
  BY DEF TypeOK
<1>1. ASSUME NEW m \in Row, Due(m) PROVE IInv'
  <2>1. Quiet
    BY <1>0, <1>1 DEF Due, Quiet, Calm, Sending, workerVars, counts, ghosts
  <2> QED
    BY <2>1, QuietKeeps
<1>2. ASSUME NEW m \in Row, Expire(m) PROVE IInv'
  <2>1. /\ expired' = [expired EXCEPT ![m] = TRUE] /\ status[m] = "sending"
        /\ lapsed \subseteq lapsed' /\ (Holders(m) # {} => m \in lapsed')
        /\ UNCHANGED <<campaignVars, status, attempts, workerVars, counts, stale, early, faults>>
    BY <1>2 DEF Expire
  <2>2. \A n \in Row : Holders(n)' = Holders(n)
    BY <2>1 DEF Holders, Sending, workerVars
  <2>3. Fresh'
    BY <2>1, FreshKept DEF NothingInserted, campaignVars, counts
  <2>4. Held' /\ OneSender'
    <3>1. \A w \in Workers : Sending(w) => cur[w] \in Row /\ w \in Holders(cur[w])
      BY DEF Held, TypeOK, Sending, Holders
    <3>2. ClaimsStay
      BY <2>1, <3>1 DEF ClaimsStay, Held, TypeOK, Sending, workerVars
    <3> QED
      BY <3>2, ClaimsKept
  <2>5. AttemptsLeft'
    BY <2>1, AttemptsKept DEF AttemptsStay
  <2>6. TriesSpend'
    <3>1. \A n \in Row : Unrecorded(n) => Unrecorded(n)'
      BY <2>1, <2>2 DEF Unrecorded, workerVars
    <3> QED
      BY <2>1, <2>2, <3>1, SpendingKept DEF SpendingStays, counts, workerVars
  <2>7. DeliveriesHaveFaults'
    <3>1. \A n \in Row : OnRecord(n) => OnRecord(n)'
      BY <2>1, <2>2 DEF OnRecord, workerVars
    <3> QED
      BY <1>0, <2>1, <3>1, DeliveriesKept DEF DeliveriesStay, counts
  <2>8. Closing'
    BY <2>1, ClosingKept DEF CampaignsStay, NothingClosed, campaignVars, workerVars
  <2> QED
    BY <2>3, <2>4, <2>5, <2>6, <2>7, <2>8
<1>3. ASSUME NEW c \in 1..MaxCampaigns, Execute(c) PROVE IInv'
  <2>1. Calm
    BY <1>0, <1>3 DEF Execute, Calm, Sending, rowVars, workerVars, counts, ghosts
  <2>2. /\ campaign[c] = "none" /\ campaign' = [campaign EXCEPT ![c] = "sending"]
        /\ writing' = c /\ left' = Recipients
    BY <1>3 DEF Execute
  <2>3. \A r \in Recipients : <<c, r>> \in RowsOf(c)
    BY DEF RowsOf, Row, CampaignOf
  <2>4. Fresh'
    BY <2>1, <2>2, <2>3 DEF Fresh, Calm, counts, TypeOK, RowsOf, Row, CampaignOf
  <2>5. Closing'
    <3>1. CampaignsStay /\ NothingClosed
      BY <1>3, <2>1, <2>2 DEF Execute, Calm, CampaignsStay, NothingClosed, TypeOK, ghosts, workerVars
    <3> QED
      BY <3>1, ClosingKept
  <2> QED
    BY <2>1, <2>4, <2>5, CalmKeeps
<1>4. ASSUME NEW r \in Recipients, InsertFails(r) PROVE IInv'
  <2>1. Calm
    BY <1>4, Faults DEF InsertFails, Written, Calm, Sending, workerVars, counts, ghosts
  <2>2. /\ r \in left /\ left' = left \ {r} /\ campaign' = campaign
        /\ writing' = IF left' = {} THEN 0 ELSE writing
    BY <1>4 DEF InsertFails, Written
  <2>3. Fresh'
    BY <2>1, <2>2 DEF Fresh, Calm, counts, TypeOK, RowsOf, Row, CampaignOf
  <2>4. Closing'
    <3>1. CampaignsStay /\ NothingClosed
      BY <1>4, <2>1, <2>2 DEF InsertFails, Written, Calm, CampaignsStay, NothingClosed, TypeOK, ghosts, workerVars
    <3> QED
      BY <3>1, ClosingKept
  <2> QED
    BY <2>1, <2>3, <2>4, CalmKeeps
<1>5. CASE ExecutorDies
  <2>1. Calm
    BY <1>5, Faults DEF ExecutorDies, Calm, Sending, rowVars, workerVars, counts, ghosts
  <2>2. Fresh'
    BY <1>5, <2>1 DEF ExecutorDies, Fresh, Calm, counts, TypeOK, RowsOf, Row, CampaignOf
  <2>3. Closing'
    <3>1. CampaignsStay /\ NothingClosed
      BY <1>5, <2>1 DEF ExecutorDies, Calm, CampaignsStay, NothingClosed, TypeOK, ghosts, workerVars
    <3> QED
      BY <3>1, ClosingKept
  <2> QED
    BY <2>1, <2>2, <2>3, CalmKeeps
<1>6. ASSUME NEW r \in Recipients, OptOut(r) PROVE IInv'
  <2>1. Quiet
    BY <1>0, <1>6 DEF OptOut, Quiet, Calm, Sending, rowVars, workerVars, counts, ghosts
  <2> QED
    BY <2>1, QuietKeeps
<1>7. ASSUME NEW r \in Newsletters, Click(r) PROVE IInv'
  <2>1. Quiet
    BY <1>0, <1>7 DEF Click, Quiet, Calm, Sending, rowVars, workerVars, counts, ghosts
  <2> QED
    BY <2>1, QuietKeeps
<1>8. ASSUME NEW n \in Row, status[n] = "none", Queue(n),
             UNCHANGED <<due, expired, attempts, workerVars, counts, ghosts, faults>>
      PROVE  /\ Held' /\ OneSender' /\ AttemptsLeft' /\ TriesSpend' /\ DeliveriesHaveFaults'
             /\ \A m \in Row \ {n} : status'[m] = status[m]
             /\ status'[n] = "queued"
  <2>1. /\ \A m \in Row \ {n} : status'[m] = status[m]
        /\ status'[n] = "queued"
    BY <1>8 DEF Queue, TypeOK
  <2>2. \A m \in Row : Holders(m)' = Holders(m)
    BY <1>8 DEF Holders, Sending, workerVars
  <2>3. Holders(n) = {}
    BY <1>8 DEF Held, Holders, Sending
  <2>4. Held' /\ OneSender'
    <3>1. ClaimsStay
      BY <1>8, <2>1 DEF ClaimsStay, Held, TypeOK, Sending, workerVars, ghosts
    <3> QED
      BY <3>1, ClaimsKept
  <2>5. AttemptsLeft'
    BY <1>8, <2>1 DEF AttemptsLeft, Fresh, Pending
  <2>6. TriesSpend'
    <3>1. \A m \in Row : Unrecorded(m) => Unrecorded(m)'
      BY <1>8, <2>1, <2>2 DEF Unrecorded, workerVars
    <3> QED
      BY <1>8, <2>2, <3>1, SpendingKept DEF SpendingStays, counts, workerVars, ghosts
  <2>7. DeliveriesHaveFaults'
    <3>1. \A m \in Row : OnRecord(m) => OnRecord(m)'
      BY <1>8, <2>1, <2>2 DEF OnRecord, workerVars
    <3> QED
      BY <1>0, <1>8, <3>1, DeliveriesKept DEF DeliveriesStay, counts, ghosts
  <2> QED
    BY <2>1, <2>4, <2>5, <2>6, <2>7
<1>9. ASSUME NEW r \in Recipients, Insert(r) PROVE IInv'
  <2> DEFINE n == <<writing, r>>
  <2>1. n \in Row /\ status[n] = "none" /\ r \in left /\ writing # 0
    BY <1>9 DEF Insert, Fresh, TypeOK, Row
  <2>2. /\ Queue(n) /\ UNCHANGED <<due, expired, attempts, workerVars, counts, ghosts, faults>>
        /\ left' = left \ {r} /\ campaign' = campaign
        /\ writing' = IF left' = {} THEN 0 ELSE writing
    BY <1>9 DEF Insert, Written, NoFault
  <2>3. /\ Held' /\ OneSender' /\ AttemptsLeft' /\ TriesSpend' /\ DeliveriesHaveFaults'
        /\ \A m \in Row \ {n} : status'[m] = status[m]
        /\ status'[n] = "queued"
    BY <1>8, <2>1, <2>2
  <2>4. \A c \in 1..MaxCampaigns : c # writing => \A m \in RowsOf(c) : status'[m] = status[m]
    BY <2>3 DEF RowsOf, CampaignOf
  <2>5. \A c \in 1..MaxCampaigns : RowsOf(c)' = RowsOf(c)
    BY DEF RowsOf, Row, CampaignOf
  <2>6. Fresh'
    <3>1. \A q \in left' : <<writing, q>> \in Row \ {n}
      BY <2>2, <2>1 DEF TypeOK, Row
    <3>2. \A q \in left' : status'[<<writing', q>>] = "none"
      BY <2>2, <2>3, <3>1 DEF Fresh
    <3>3. \A c \in 1..MaxCampaigns : campaign'[c] = "none" =>
            writing' # c /\ \A m \in RowsOf(c)' : status'[m] = "none"
      BY <2>2, <2>4, <2>5 DEF Fresh
    <3> QED
      BY <2>1, <2>2, <2>3, <3>2, <3>3 DEF Fresh, counts
  <2>7. Closing'
    <3>1. CampaignsStay /\ NothingClosed
      BY <2>2, <2>4 DEF CampaignsStay, NothingClosed, TypeOK, ghosts, workerVars
    <3> QED
      BY <3>1, ClosingKept
  <2> QED
    BY <2>3, <2>6, <2>7
<1>10. ASSUME NEW r \in Newsletters, Newsletter(r) PROVE IInv'
  <2> DEFINE n == <<0, r>>
  <2>1. n \in Row /\ status[n] = "none"
    BY <1>10 DEF Newsletter, Row
  <2>2. Queue(n) /\ UNCHANGED <<campaignVars, due, expired, attempts, workerVars, counts, ghosts, faults>>
    BY <1>10 DEF Newsletter
  <2>3. /\ Held' /\ OneSender' /\ AttemptsLeft' /\ TriesSpend' /\ DeliveriesHaveFaults'
        /\ \A m \in Row \ {n} : status'[m] = status[m]
        /\ status'[n] = "queued"
    BY <1>8, <2>1, <2>2
  <2>4. \A c \in 1..MaxCampaigns : \A m \in RowsOf(c) : status'[m] = status[m]
    BY <2>3 DEF RowsOf, CampaignOf
  <2>5. \A c \in 1..MaxCampaigns : RowsOf(c)' = RowsOf(c)
    BY DEF RowsOf, Row, CampaignOf
  <2>6. Fresh'
    <3>1. \A q \in left : <<writing, q>> \in Row \ {n}
      BY DEF TypeOK, Row, Fresh
    <3> QED
      BY <2>1, <2>2, <2>3, <2>4, <2>5, <3>1 DEF Fresh, counts, campaignVars
  <2>7. Closing'
    <3>1. CampaignsStay /\ NothingClosed
      BY <2>2, <2>4 DEF CampaignsStay, NothingClosed, TypeOK, ghosts, workerVars, campaignVars
    <3> QED
      BY <3>1, ClosingKept
  <2> QED
    BY <2>3, <2>6, <2>7
<1> QED
  BY <1>1, <1>2, <1>3, <1>4, <1>5, <1>6, <1>7, <1>9, <1>10

-----------------------------------------------------------------------------
(* What the workers do.                                                    *)

(* A worker that is sending has claimed its task.                          *)
LEMMA Senders ==
  ASSUME TypeOK, Held
  PROVE  /\ \A w \in Workers : Sending(w) =>
              /\ cur[w] \in Row /\ w \in Holders(cur[w])
              /\ status[cur[w]] # "none"
              /\ cur[w] \notin lapsed => status[cur[w]] = "sending" /\ ~expired[cur[w]]
         /\ \A m \in Row : \A w \in Holders(m) : w \in Workers /\ Sending(w) /\ cur[w] = m
BY DEF TypeOK, Held, Sending, Holders

(* Worker w touches nothing that is shared but perhaps touched campaigns.  *)
LEMMA WorkersQuiet ==
  ASSUME IInv, TypeOK', NEW w \in Workers,
         \/ Start(w) \/ Select(w) \/ ReadList(w) \/ ListFails(w) \/ Rest(w)
         \/ \E m \in Row : NotRecovered(w, m)
         \/ \E c \in 1..MaxCampaigns : NotComplete(w, c)
  PROVE  IInv'
<1> USE DEF IInv
<1>0. faults <= faults
  BY DEF TypeOK
<1>1. \A v \in Workers : pc[v] \in Pc
  BY DEF TypeOK
<1>2. CASE Start(w)
  <2>1. Quiet
    BY <1>0, <1>2, GoTo DEF Start, Quiet, Calm, Sending, Pc, TypeOK, rowVars, counts, ghosts
  <2> QED
    BY <2>1, QuietKeeps
<1>3. CASE Select(w)
  <2>1. Quiet
    <3>1. (IF DueRows = {} THEN "idle" ELSE "list") \in {"idle", "list"}
      OBVIOUS
    <3> QED
      BY <1>0, <1>3, <3>1, GoTo DEF Select, Quiet, Calm, Sending, Pc, TypeOK, rowVars, counts, ghosts
  <2> QED
    BY <2>1, QuietKeeps
<1>4. CASE ReadList(w)
  <2>1. Quiet
    BY <1>0, <1>4, GoTo DEF ReadList, Quiet, Calm, Sending, Pc, TypeOK, rowVars, counts, ghosts
  <2> QED
    BY <2>1, QuietKeeps
<1>5. CASE ListFails(w)
  <2>1. Quiet
    BY Faults, <1>5, GoTo DEF ListFails, Quiet, Calm, Sending, Pc, TypeOK, rowVars, counts, ghosts
  <2> QED
    BY <2>1, QuietKeeps
<1>6. CASE Rest(w)
  <2>1. Quiet
    BY <1>0, <1>6, GoTo DEF Rest, Quiet, Calm, Sending, Pc, TypeOK, rowVars, counts, ghosts
  <2> QED
    BY <2>1, QuietKeeps
<1>7. ASSUME NEW m \in Row, NotRecovered(w, m) PROVE IInv'
  <2>1. Quiet
    BY Faults, <1>7, Drops DEF NotRecovered, Quiet, Calm, Sending, rowVars, counts, ghosts
  <2> QED
    BY <2>1, QuietKeeps
<1>8. ASSUME NEW c \in 1..MaxCampaigns, NotComplete(w, c) PROVE IInv'
  <2>1. Quiet
    BY Faults, <1>8 DEF NotComplete, Quiet, Calm, Sending, rowVars, counts, ghosts
  <2> QED
    BY <2>1, QuietKeeps
<1> QED
  BY <1>2, <1>3, <1>4, <1>5, <1>6, <1>7, <1>8

LEMMA RecoverKeeps ==
  ASSUME IInv, TypeOK', NEW w \in Workers, NEW m \in Row, Recover(w, m)
  PROVE  IInv'
<1> USE DEF IInv
<1>1. /\ pc[w] = "recover" /\ status[m] = "sending" /\ expired[m]
      /\ attempts' = [attempts EXCEPT ![m] = @ + 1]
      /\ status' = [status EXCEPT ![m] = AfterFailure(attempts'[m])]
      /\ expired' = [expired EXCEPT ![m] = FALSE]
      /\ UNCHANGED <<campaignVars, pc, listed, cur, closing, counts, ghosts, faults>>
      /\ \A v \in Workers \ {w} : todo'[v] = todo[v] /\ seen'[v] = seen[v]
  BY Drops DEF Recover, StillStuck, SetStatus, NotExpired
<1>2. /\ attempts'[m] = attempts[m] + 1 /\ status'[m] = AfterFailure(attempts'[m])
      /\ \A n \in Row \ {m} : /\ attempts'[n] = attempts[n] /\ status'[n] = status[n]
                              /\ expired'[n] = expired[n]
      /\ ~expired'[m] /\ status'[m] \in {"failed", "queued"}
  BY <1>1 DEF TypeOK, AfterFailure
<1>3. \A n \in Row : Holders(n)' = Holders(n)
  BY <1>1 DEF Holders, Sending
<1>4. ~Sending(w) /\ (m \notin lapsed => Holders(m) = {})
  BY <1>1, Senders DEF Sending
<1>5. Fresh'
  BY <1>1, <1>2, FreshKept DEF NothingInserted, campaignVars, counts
<1>6. Held' /\ OneSender'
  <2>1. ClaimsStay
    BY <1>1, <1>2, <1>4, Senders DEF ClaimsStay, Held, Sending, ghosts
  <2> QED
    BY <2>1, ClaimsKept
<1>7. AttemptsLeft'
  <2>1. attempts[m] < MaxAttempts /\ attempts[m] \in Nat
    BY <1>1 DEF AttemptsLeft, Pending, TypeOK
  <2> QED
    BY <1>2, <2>1 DEF AttemptsLeft, AfterFailure, Pending
<1>8. TriesSpend'
  <2>1. \A n \in Row \ {m} : Unrecorded(n) => Unrecorded(n)'
    BY <1>1, <1>2, <1>3 DEF Unrecorded
  <2>2. \A n \in Row \ {m} : \A v \in Holders(n)' : seen'[v][n] = seen[v][n]
    BY <1>1, <1>3, <1>4, Senders
  <2> QED
    BY <1>1, <1>2, <1>3, <1>4, <2>1, <2>2, SpendingKept DEF SpendingStays, counts, ghosts
<1>9. DeliveriesHaveFaults'
  <2>1. \A n \in Row \ lapsed' : OnRecord(n) => OnRecord(n)'
    BY <1>1, <1>2, <1>3, <1>4 DEF OnRecord
  <2>2. faults \in Nat
    BY DEF TypeOK
  <2> QED
    BY <1>1, <2>1, <2>2, DeliveriesKept DEF DeliveriesStay, counts, ghosts
<1>10. Closing'
  <2>1. CampaignsStay /\ NothingClosed
    BY <1>1, <1>2 DEF CampaignsStay, NothingClosed, RowsOf, Pending, ghosts, campaignVars
  <2> QED
    BY <2>1, ClosingKept
<1> QED
  BY <1>5, <1>6, <1>7, <1>8, <1>9, <1>10

(* A worker takes a task out of the queue without sending it, or leaves it *)
(* there: Skip and NotClaimed.                                             *)
LEMMA DroppingKeeps ==
  ASSUME IInv, TypeOK', NEW w \in Workers, NEW m \in Row,
         pc[w] = "batch", Drop(w, m), NoFault \/ Fault,
         UNCHANGED <<campaignVars, pc, listed, cur, closing, expired, attempts, counts, ghosts>>,
         \/ status' = status
         \/ /\ status[m] = "queued"
            /\ \E s \in {"sending", "skipped_optout"} : SetStatus(m, s)
  PROVE  IInv'
<1> USE DEF IInv
<1>1. /\ ~Sending(w)
      /\ \A v \in Workers \ {w} : todo'[v] = todo[v] /\ seen'[v] = seen[v]
      /\ faults <= faults'
  BY Drops, Faults DEF Sending
<1>2. \A n \in Row : \/ status'[n] = status[n]
                     \/ n = m /\ status[n] = "queued" /\ status'[n] \in {"sending", "skipped_optout"}
  <2>1. status \in [Row -> {"none"} \cup Pending \cup Settled]
    BY DEF TypeOK
  <2> QED
    BY <2>1 DEF SetStatus
<1>3. \A n \in Row : Holders(n)' = Holders(n)
  BY DEF Holders, Sending
<1>4. status[m] = "queued" => ~expired[m] /\ (m \notin lapsed => Holders(m) = {})
  BY Senders DEF Held
<1>5. Fresh'
  BY <1>2, FreshKept DEF NothingInserted, campaignVars, counts
<1>6. Held' /\ OneSender'
  <2>1. ClaimsStay
    BY <1>1, <1>2, <1>4, Senders DEF ClaimsStay, Held, Sending, ghosts
  <2> QED
    BY <2>1, ClaimsKept
<1>7. AttemptsLeft'
  BY <1>2, AttemptsKept DEF AttemptsStay, Pending
<1>8. TriesSpend'
  <2>1. \A n \in Row : Unrecorded(n) => Unrecorded(n)'
    BY <1>2, <1>3 DEF Unrecorded
  <2>2. \A n \in Row : \A v \in Holders(n)' : seen'[v][n] = seen[v][n]
    BY <1>1, <1>3, Senders
  <2> QED
    BY <1>3, <2>1, <2>2, SpendingKept DEF SpendingStays, counts, ghosts
<1>9. DeliveriesHaveFaults'
  <2>1. \A n \in Row : OnRecord(n) => OnRecord(n)'
    BY <1>2, <1>3 DEF OnRecord
  <2> QED
    BY <1>1, <2>1, DeliveriesKept DEF DeliveriesStay, counts, ghosts
<1>10. Closing'
  <2>1. CampaignsStay /\ NothingClosed
    BY <1>2 DEF CampaignsStay, NothingClosed, RowsOf, Pending, ghosts, campaignVars
  <2> QED
    BY <2>1, ClosingKept
<1> QED
  BY <1>5, <1>6, <1>7, <1>8, <1>9, <1>10

LEMMA ClaimKeeps ==
  ASSUME IInv, TypeOK', NEW w \in Workers, NEW m \in Row, Claim(w, m)
  PROVE  IInv'
<1> USE DEF IInv
<1>1. /\ pc[w] = "batch" /\ m \in todo[w] /\ ~Blocked(w, m) /\ status[m] = "queued"
      /\ pc'[w] = "smtp" /\ cur'[w] = m
      /\ \A v \in Workers \ {w} : pc'[v] = pc[v] /\ cur'[v] = cur[v]
      /\ status' = [status EXCEPT ![m] = "sending"]
      /\ stale' = IF seen[w][m] = attempts[m] THEN stale ELSE stale \cup {m}
      /\ UNCHANGED <<campaignVars, expired, attempts, todo, seen, listed, closing, counts, lapsed, early, faults>>
  BY GoTo DEF Claim, Claimable, SetStatus, TypeOK, Pc
<1>2. /\ status'[m] = "sending"
      /\ \A n \in Row \ {m} : status'[n] = status[n]
  BY <1>1 DEF TypeOK
<1>3. /\ ~expired[m] /\ (m \notin lapsed => Holders(m) = {}) /\ ~Sending(w)
  BY <1>1, Senders DEF Held, Sending
<1>4. /\ Holders(m)' = Holders(m) \cup {w}
      /\ \A n \in Row \ {m} : Holders(n)' = Holders(n)
  BY <1>1, <1>3 DEF Holders, Sending
<1>5. Fresh'
  BY <1>1, <1>2, FreshKept DEF NothingInserted, campaignVars, counts
<1>6. Held'
  <2>1. \A n \in Row : expired'[n] => status'[n] = "sending"
    BY <1>1, <1>2 DEF Held
  <2>2. ASSUME NEW v \in Workers, Sending(v)'
        PROVE  /\ cur'[v] \in todo'[v]
               /\ ~Blocked(v, cur[v])'
               /\ status'[cur'[v]] # "none"
               /\ cur'[v] \notin lapsed' => status'[cur'[v]] = "sending" /\ ~expired'[cur'[v]]
    <3>1. CASE v = w
      BY <1>1, <1>2, <1>3, <3>1 DEF Blocked
    <3>2. CASE v # w
      BY <1>1, <1>2, <2>2, <3>2, Senders DEF Blocked, Held, Sending
    <3> QED
      BY <3>1, <3>2
  <2> QED
    BY <2>1, <2>2 DEF Held
<1>7. OneSender'
  BY <1>1, <1>3, <1>4 DEF OneSender
<1>8. AttemptsLeft'
  BY <1>1, <1>2, AttemptsKept DEF AttemptsStay, Pending
<1>9. TriesSpend'
  <2>1. \A n \in Row : /\ attempts[n] \in Nat /\ tries[n] \in Nat
                       /\ attempts'[n] = attempts[n] /\ tries'[n] = tries[n]
    BY <1>1 DEF TypeOK, counts
  <2>2. ASSUME m \notin lapsed' \cup stale'
        PROVE  /\ tries'[m] <= attempts'[m]
               /\ \A v \in Holders(m)' : seen'[v][m] = attempts'[m]
    <3>1. m \notin lapsed \cup stale /\ seen[w][m] = attempts[m]
      BY <1>1, <2>2
    <3>2. tries[m] <= attempts[m]
      BY <1>1, <2>1, <3>1 DEF TriesSpend, Unrecorded
    <3> QED
      BY <1>1, <1>3, <1>4, <2>1, <3>1, <3>2
  <2>3. ASSUME NEW n \in Row \ {m}, n \notin lapsed' \cup stale'
        PROVE  /\ tries'[n] <= attempts'[n] + (IF Unrecorded(n)' THEN 1 ELSE 0)
               /\ \A v \in Holders(n)' : seen'[v][n] = attempts'[n]
    <3>1. n \notin lapsed \cup stale
      BY <1>1, <2>3
    <3>2. Unrecorded(n)' = Unrecorded(n)
      BY <1>1, <1>2, <1>3, <1>4, Senders DEF Unrecorded
    <3> QED
      BY <1>1, <1>4, <2>1, <3>1, <3>2 DEF TriesSpend
  <2> QED
    BY <2>1, <2>2, <2>3 DEF TriesSpend
<1>10. DeliveriesHaveFaults'
  <2>1. \A n \in Row \ lapsed' : OnRecord(n) => OnRecord(n)'
    BY <1>1, <1>2, <1>3, <1>4, Senders DEF OnRecord, Sending
  <2>2. faults \in Nat
    BY DEF TypeOK
  <2> QED
    BY <1>1, <2>1, <2>2, DeliveriesKept DEF DeliveriesStay, counts
<1>11. Closing'
  <2>1. CampaignsStay /\ NothingClosed
    BY <1>1, <1>2 DEF CampaignsStay, NothingClosed, RowsOf, Pending, campaignVars
  <2> QED
    BY <2>1, ClosingKept
<1> QED
  BY <1>5, <1>6, <1>7, <1>8, <1>9, <1>10, <1>11

(* The mail server's answer: Accept and Refuse.                            *)
LEMMA TryingKeeps ==
  ASSUME IInv, TypeOK', NEW w \in Workers, NEW m \in Row, cur[w] = m, NEW p \in {"accepted", "refused"},
         pc[w] = "smtp", Goto(w, p),
         tries' = Count(tries, m, MaxAttempts),
         \/ delivered' = delivered /\ NoFault
         \/ /\ delivered' = Count(delivered, m, MaxFaults + 1)
            /\ Fault \/ (NoFault /\ p = "accepted"),
         UNCHANGED <<campaignVars, rowVars, todo, seen, listed, cur, closing, ghosts>>
  PROVE  IInv'
<1> USE DEF IInv
<1>1. /\ pc'[w] = p /\ \A v \in Workers \ {w} : pc'[v] = pc[v]
  BY GoTo DEF Pc
<1>2. /\ w \in Holders(m) /\ status[m] # "none" /\ cur'[w] = m
      /\ m \notin lapsed => status[m] = "sending" /\ Holders(m) = {w}
  BY Senders DEF Sending, OneSender
<1>3. /\ \A v \in Workers : Sending(v)' <=> Sending(v)
      /\ \A n \in Row : Holders(n)' = Holders(n)
  BY <1>1 DEF Sending, Holders
<1>4. /\ tries'[m] <= tries[m] + 1 /\ delivered'[m] <= delivered[m] + 1
      /\ \A n \in Row \ {m} : tries'[n] = tries[n] /\ delivered'[n] = delivered[n]
      /\ \A n \in Row : /\ tries[n] \in Nat /\ delivered[n] \in Nat /\ attempts[n] \in Nat
                        /\ tries'[n] \in Nat /\ delivered'[n] \in Nat
  <2>1. tries \in [Row -> 0..(MaxAttempts + 1)] /\ delivered \in [Row -> 0..((MaxFaults + 1) + 1)]
    <3>1. tries \in [Row -> 0..(MaxAttempts + 1)] /\ delivered \in [Row -> 0..(MaxFaults + 2)]
      BY DEF TypeOK
    <3>2. (MaxFaults + 1) + 1 = MaxFaults + 2
      OBVIOUS
    <3> QED
      BY <3>1, <3>2
  <2>2. \A n \in Row : /\ tries[n] \in Nat /\ delivered[n] \in Nat /\ attempts[n] \in Nat
                       /\ tries'[n] \in Nat /\ delivered'[n] \in Nat
    BY DEF TypeOK
  <2>3. tries'[m] <= tries[m] + 1 /\ \A n \in Row \ {m} : tries'[n] = tries[n]
    <3>1. MaxAttempts \in Nat
      OBVIOUS
    <3> QED
      BY <2>1, <3>1, Counts
  <2>4. delivered'[m] <= delivered[m] + 1 /\ \A n \in Row \ {m} : delivered'[n] = delivered[n]
    <3>1. CASE delivered' = delivered
      BY <2>2, <3>1
    <3>2. CASE delivered' = Count(delivered, m, MaxFaults + 1)
      BY <2>1, <3>2, Counts
    <3> QED
      BY <3>1, <3>2
  <2> QED
    BY <2>2, <2>3, <2>4
<1>5. faults \in Nat /\ faults' \in Nat /\ faults <= faults' /\ (Fault => faults' = faults + 1)
  <2>1. faults \in Nat /\ faults' \in Nat
    BY DEF TypeOK
  <2>2. NoFault \/ Fault
    OBVIOUS
  <2> QED
    BY <2>1, <2>2, Faults DEF Fault
<1>6. Fresh'
  BY <1>2, <1>4, FreshKept DEF NothingInserted, campaignVars, rowVars
<1>7. Held' /\ OneSender'
  <2>1. ClaimsStay
    BY <1>3, Senders DEF ClaimsStay, Held, rowVars, ghosts
  <2> QED
    BY <2>1, ClaimsKept
<1>8. AttemptsLeft'
  BY AttemptsKept DEF AttemptsStay, rowVars
<1>9. TriesSpend'
  <2>1. \A n \in Row \ {m} : Unrecorded(n)' = Unrecorded(n)
    BY <1>1, <1>2, <1>3, Senders DEF Unrecorded, rowVars
  <2>2. ASSUME m \notin lapsed \cup stale
        PROVE  Unrecorded(m)' /\ ~Unrecorded(m)
    BY <1>1, <1>2, <1>3, <2>2 DEF Unrecorded, rowVars
  <2>3. \A n \in Row \ {m} : n \notin lapsed' \cup stale' =>
          /\ tries'[n] <= attempts'[n] + (IF Unrecorded(n)' THEN 1 ELSE 0)
          /\ \A v \in Holders(n)' : seen'[v][n] = attempts'[n]
    BY <1>3, <1>4, <2>1 DEF TriesSpend, rowVars, ghosts
  <2>4. m \notin lapsed' \cup stale' =>
          /\ tries'[m] <= attempts'[m] + (IF Unrecorded(m)' THEN 1 ELSE 0)
          /\ \A v \in Holders(m)' : seen'[v][m] = attempts'[m]
    <3> SUFFICES ASSUME m \notin lapsed \cup stale
                 PROVE  /\ tries'[m] <= attempts'[m] + (IF Unrecorded(m)' THEN 1 ELSE 0)
                        /\ \A v \in Holders(m)' : seen'[v][m] = attempts'[m]
      BY DEF ghosts
    <3>1. tries[m] <= attempts[m] /\ \A v \in Holders(m) : seen[v][m] = attempts[m]
      BY <1>2, <1>4, <2>2 DEF TriesSpend
    <3> QED
      BY <1>2, <1>3, <1>4, <2>2, <3>1 DEF rowVars
  <2> QED
    BY <2>3, <2>4 DEF TriesSpend
<1>10. DeliveriesHaveFaults'
  <2>1. \A n \in Row \ {m} : OnRecord(n)' = OnRecord(n)
    BY <1>1, <1>2, <1>3, Senders DEF OnRecord, rowVars
  <2>2. \A n \in Row \ {m} : n \notin lapsed' =>
          delivered'[n] <= faults' + (IF OnRecord(n)' THEN 1 ELSE 0)
    BY <1>4, <1>5, <2>1 DEF DeliveriesHaveFaults, ghosts
  <2>3. m \notin lapsed' => delivered'[m] <= faults' + (IF OnRecord(m)' THEN 1 ELSE 0)
    <3> SUFFICES ASSUME m \notin lapsed
                 PROVE  delivered'[m] <= faults' + (IF OnRecord(m)' THEN 1 ELSE 0)
      BY DEF ghosts
    <3>1. ~OnRecord(m)
      BY <1>2 DEF OnRecord
    <3>2. delivered[m] <= faults
      BY <1>2, <1>4, <1>5, <3>1 DEF DeliveriesHaveFaults
    <3>3. p = "accepted" => OnRecord(m)'
      BY <1>1, <1>2, <1>3 DEF OnRecord
    <3> QED
      BY <1>4, <1>5, <3>2, <3>3, <1>2
  <2> QED
    BY <2>2, <2>3 DEF DeliveriesHaveFaults
<1>11. Closing'
  <2>1. CampaignsStay /\ NothingClosed
    BY <1>1 DEF CampaignsStay, NothingClosed, campaignVars, rowVars, ghosts
  <2> QED
    BY <2>1, ClosingKept
<1> QED
  BY <1>6, <1>7, <1>8, <1>9, <1>10, <1>11

(* The outcome of a mail is written: MarkSent and MarkFailed.              *)
LEMMA WritingKeeps ==
  ASSUME IInv, TypeOK', NEW w \in Workers, NEW m \in Row, cur[w] = m,
         pc[w] \in {"accepted", "refused"}, NEW s \in {"sent", "failed", "queued"},
         Write(w, s), Answered(w), NoFault,
         pc[w] = "accepted" => s = "sent",
         s = "queued" => seen[w][m] + 1 < MaxAttempts
  PROVE  IInv'
<1> USE DEF IInv
<1>1. /\ pc'[w] = "batch" /\ \A v \in Workers \ {w} : pc'[v] = pc[v]
      /\ \A v \in Workers \ {w} : todo'[v] = todo[v] /\ seen'[v] = seen[v] /\ cur'[v] = cur[v]
      /\ UNCHANGED <<campaignVars, listed, closing, counts, ghosts, faults>>
  BY GoTo, Drops DEF Answered, NoFault, TypeOK, Pc
<1>2. /\ attempts'[m] = seen[w][m] + 1 /\ status'[m] = s /\ ~expired'[m]
      /\ \A n \in Row \ {m} : /\ attempts'[n] = attempts[n] /\ status'[n] = status[n]
                              /\ expired'[n] = expired[n]
  BY DEF Write, SetStatus, NotExpired, TypeOK
<1>3. /\ w \in Holders(m) /\ status[m] # "none"
      /\ m \notin lapsed => status[m] = "sending" /\ Holders(m) = {w}
  BY Senders DEF Sending, OneSender
<1>4. /\ ~Sending(w)' /\ \A v \in Workers \ {w} : Sending(v)' <=> Sending(v)
      /\ \A n \in Row : Holders(n)' = Holders(n) \ {w}
      /\ \A n \in Row \ {m} : Holders(n)' = Holders(n)
  BY <1>1 DEF Sending, Holders
<1>5. Fresh'
  BY <1>1, <1>2, <1>3, FreshKept DEF NothingInserted, campaignVars, counts
<1>6. Held' /\ OneSender'
  <2>1. \A v \in Workers \ {w} : Sending(v) /\ cur[v] = m => m \in lapsed
    BY <1>3 DEF Holders, Sending
  <2>2. ClaimsStay
    BY <1>1, <1>2, <1>4, <2>1, Senders DEF ClaimsStay, Held, ghosts
  <2> QED
    BY <2>2, ClaimsKept
<1>7. AttemptsLeft'
  BY <1>2 DEF AttemptsLeft, Pending
<1>8. TriesSpend'
  <2>1. \A n \in Row \ {m} : Unrecorded(n) => Unrecorded(n)'
    BY <1>1, <1>2, <1>4, Senders DEF Unrecorded
  <2>2. m \notin lapsed \cup stale => attempts'[m] = attempts[m] + 1 /\ Holders(m)' = {}
    BY <1>2, <1>3, <1>4 DEF TriesSpend
  <2>3. \A n \in Row \ {m} : \A v \in Holders(n)' : seen'[v][n] = seen[v][n]
    BY <1>1, <1>4, Senders
  <2> QED
    BY <1>1, <1>2, <1>4, <2>1, <2>2, <2>3, SpendingKept DEF SpendingStays, counts, ghosts
<1>9. DeliveriesHaveFaults'
  <2>1. \A n \in Row \ {m} : OnRecord(n) => OnRecord(n)'
    BY <1>1, <1>2, <1>4, Senders DEF OnRecord
  <2>2. m \notin lapsed /\ OnRecord(m) => OnRecord(m)'
    BY <1>2, <1>3 DEF OnRecord
  <2>3. faults \in Nat
    BY DEF TypeOK
  <2> QED
    BY <1>1, <2>1, <2>2, <2>3, DeliveriesKept DEF DeliveriesStay, counts, ghosts
<1>10. Closing'
  <2>1. CampaignsStay /\ NothingClosed
    BY <1>1, <1>2, <1>3 DEF CampaignsStay, NothingClosed, RowsOf, Pending, ghosts, campaignVars
  <2> QED
    BY <2>1, ClosingKept
<1> QED
  BY <1>5, <1>6, <1>7, <1>8, <1>9, <1>10

(* A worker forgets what it was at: WriteIsLost and Die.                   *)
LEMMA ForgettingKeeps ==
  ASSUME IInv, TypeOK', NEW w \in Workers, NEW p \in {"batch", "idle"},
         Goto(w, p), Fault,
         \A v \in Workers \ {w} : /\ todo'[v] = todo[v] /\ seen'[v] = seen[v] /\ listed'[v] = listed[v]
                                  /\ cur'[v] = cur[v] /\ closing'[v] = closing[v],
         UNCHANGED <<campaignVars, rowVars, counts, ghosts>>
  PROVE  IInv'
<1> USE DEF IInv
<1>1. /\ pc'[w] = p /\ \A v \in Workers \ {w} : pc'[v] = pc[v]
      /\ ~Sending(w)' /\ \A v \in Workers \ {w} : Sending(v)' <=> Sending(v)
  BY GoTo DEF Pc, Sending
<1>2. \A n \in Row : Holders(n)' = Holders(n) \ {w}
  BY <1>1 DEF Holders, Sending
<1>3. faults < faults' /\ faults <= faults'
  <2>1. faults \in Nat
    BY DEF TypeOK
  <2> QED
    BY <2>1 DEF Fault
<1>4. Fresh'
  BY FreshKept DEF NothingInserted, campaignVars, rowVars, counts
<1>5. Held' /\ OneSender'
  <2>1. ClaimsStay
    BY <1>1, Senders DEF ClaimsStay, Held, rowVars, ghosts
  <2> QED
    BY <2>1, ClaimsKept
<1>6. AttemptsLeft'
  BY AttemptsKept DEF AttemptsStay, rowVars
<1>7. TriesSpend'
  <2>1. \A n \in Row : Unrecorded(n) => Unrecorded(n)'
    BY <1>1, <1>2, Senders DEF Unrecorded, rowVars
  <2>2. \A n \in Row : \A v \in Holders(n)' : v \in Holders(n) /\ seen'[v][n] = seen[v][n]
    BY <1>2, Senders
  <2> QED
    BY <2>1, <2>2, SpendingKept DEF SpendingStays, rowVars, counts, ghosts
<1>8. DeliveriesHaveFaults'
  BY <1>3, DeliveriesKept DEF DeliveriesStay, counts, ghosts
<1>9. Closing'
  <2>1. CampaignsStay /\ NothingClosed
    BY <1>1 DEF CampaignsStay, NothingClosed, campaignVars, rowVars, ghosts
  <2> QED
    BY <2>1, ClosingKept
<1> QED
  BY <1>4, <1>5, <1>6, <1>7, <1>8, <1>9

LEMMA CheckKeeps ==
  ASSUME IInv, TypeOK', NEW w \in Workers, NEW c \in 1..MaxCampaigns, Check(w, c)
  PROVE  IInv'
<1> USE DEF IInv
<1>1. /\ pc[w] = "batch" /\ campaign[c] = "sending" /\ Complete(c)
      /\ pc'[w] = "close" /\ closing'[w] = c
      /\ \A v \in Workers \ {w} : pc'[v] = pc[v] /\ closing'[v] = closing[v]
      /\ early' = IF writing = c THEN early \cup {c} ELSE early
      /\ UNCHANGED <<campaignVars, rowVars, todo, seen, listed, cur, counts, stale, lapsed, faults>>
  BY GoTo DEF Check, TypeOK, Pc
<1>2. Calm
  <2>1. faults <= faults'
    BY <1>1 DEF TypeOK
  <2> QED
    BY <1>1, <2>1 DEF Calm, Sending, rowVars
<1>3. Fresh'
  BY <1>1, FreshKept DEF NothingInserted, campaignVars, rowVars, counts
<1>4. Closing'
  <2>1. CampaignsStay
    BY <1>1 DEF CampaignsStay, campaignVars, rowVars
  <2>2. \A d \in 1..MaxCampaigns : campaign'[d] = "sent" => Over(d)'
    BY <1>1, <2>1, OverKept DEF Closing, campaignVars
  <2>3. Over(c)'
    BY <1>1 DEF Over, Complete, campaignVars, rowVars, RowsOf, CampaignOf, Row
  <2>4. ASSUME NEW v \in Workers, pc'[v] = "close"
        PROVE  /\ closing'[v] \in 1..MaxCampaigns
               /\ campaign'[closing'[v]] # "none"
               /\ Over(closing[v])'
    <3>1. CASE v = w
      BY <1>1, <2>3, <3>1 DEF campaignVars
    <3>2. CASE v # w
      <4>1. pc[v] = "close" /\ closing'[v] = closing[v]
        BY <1>1, <2>4, <3>2
      <4>2. closing[v] \in 1..MaxCampaigns /\ campaign[closing[v]] # "none" /\ Over(closing[v])
        BY <4>1 DEF Closing
      <4> QED
        BY <1>1, <2>1, <4>1, <4>2, OverKept DEF campaignVars
    <3> QED
      BY <3>1, <3>2
  <2> QED
    BY <2>2, <2>4 DEF Closing
<1> QED
  BY <1>2, <1>3, <1>4, CalmKeeps

LEMMA CloseKeeps ==
  ASSUME IInv, TypeOK', NEW w \in Workers, Close(w)
  PROVE  IInv'
<1> USE DEF IInv
<1>1. /\ pc[w] = "close" /\ pc'[w] = "batch"
      /\ \A v \in Workers \ {w} : pc'[v] = pc[v] /\ closing'[v] = closing[v]
      /\ campaign' = campaign \/ campaign' = [campaign EXCEPT ![closing[w]] = "sent"]
      /\ UNCHANGED <<writing, left, rowVars, todo, seen, listed, cur, counts, ghosts>>
  BY GoTo DEF Close, TypeOK, Pc
<1>2. closing[w] \in 1..MaxCampaigns /\ campaign[closing[w]] # "none" /\ Over(closing[w])
  BY <1>1 DEF Closing
<1>3. Calm
  <2>1. faults <= faults'
    BY Faults DEF Close
  <2> QED
    BY <1>1, <2>1 DEF Calm, Sending, rowVars, ghosts
<1>4. \A c \in 1..MaxCampaigns :
        campaign'[c] = campaign[c] \/ (c = closing[w] /\ campaign'[c] = "sent")
  BY <1>1 DEF TypeOK
<1>5. Fresh'
  BY <1>1, <1>2, <1>4, FreshKept DEF NothingInserted, rowVars, counts
<1>6. Closing'
  <2>1. CampaignsStay
    BY <1>1, <1>4 DEF CampaignsStay, rowVars, ghosts
  <2>2. ASSUME NEW c \in 1..MaxCampaigns, campaign'[c] = "sent" PROVE Over(c)'
    <3>1. Over(c) /\ campaign[c] # "none"
      BY <1>2, <1>4, <2>2 DEF Closing
    <3> QED
      BY <2>1, <3>1, OverKept
  <2>3. ASSUME NEW v \in Workers, pc'[v] = "close"
        PROVE  /\ closing'[v] \in 1..MaxCampaigns
               /\ campaign'[closing'[v]] # "none"
               /\ Over(closing[v])'
    <3>1. pc[v] = "close" /\ closing'[v] = closing[v]
      BY <1>1, <2>3
    <3>2. closing[v] \in 1..MaxCampaigns /\ campaign[closing[v]] # "none" /\ Over(closing[v])
      BY <3>1 DEF Closing
    <3> QED
      BY <1>4, <2>1, <3>1, <3>2, OverKept
  <2> QED
    BY <2>2, <2>3 DEF Closing
<1> QED
  BY <1>3, <1>5, <1>6, CalmKeeps

LEMMA WorkersKeep ==
  ASSUME IInv, TypeOK', NEW w \in Workers,
         Poll(w) \/ ListFails(w) \/ WriteIsLost(w) \/ Die(w)
  PROVE  IInv'
<1> USE DEF IInv
<1>1. ASSUME NEW m \in Row, Skip(w, m) PROVE IInv'
  BY <1>1, DroppingKeeps DEF Skip
<1>2. ASSUME NEW m \in Row, NotClaimed(w, m) PROVE IInv'
  BY <1>2, DroppingKeeps DEF NotClaimed, Claimable
<1>3. CASE Accept(w)
  <2>1. cur[w] \in Row
    BY <1>3, Senders DEF Accept, Sending
  <2> QED
    BY <1>3, <2>1, TryingKeeps DEF Accept, NoFault
<1>4. CASE Refuse(w)
  <2>1. cur[w] \in Row
    BY <1>4, Senders DEF Refuse, Sending
  <2> QED
    BY <1>4, <2>1, TryingKeeps DEF Refuse
<1>5. CASE MarkSent(w)
  <2>1. cur[w] \in Row
    BY <1>5, Senders DEF MarkSent, Sending
  <2> QED
    BY <1>5, <2>1, WritingKeeps DEF MarkSent
<1>6. CASE MarkFailed(w)
  <2>1. cur[w] \in Row
    BY <1>6, Senders DEF MarkFailed, Sending
  <2>2. seen[w][cur[w]] + 1 \in Nat
    BY <2>1 DEF TypeOK
  <2> DEFINE s == AfterFailure(seen[w][cur[w]] + 1)
  <2>3. s \in {"failed", "queued"} /\ (s = "queued" => seen[w][cur[w]] + 1 < MaxAttempts)
    BY <2>2 DEF AfterFailure
  <2>4. pc[w] = "refused" /\ Write(w, s) /\ Answered(w) /\ NoFault
    BY <1>6 DEF MarkFailed
  <2> HIDE DEF s
  <2> QED
    BY <2>1, <2>3, <2>4, WritingKeeps
<1>7. CASE WriteIsLost(w)
  <2>1. cur[w] \in Row
    BY <1>7, Senders DEF WriteIsLost, Sending
  <2>2. \A v \in Workers \ {w} : /\ todo'[v] = todo[v] /\ seen'[v] = seen[v] /\ listed'[v] = listed[v]
                                 /\ cur'[v] = cur[v] /\ closing'[v] = closing[v]
    BY <1>7, <2>1, Drops DEF WriteIsLost, Answered, TypeOK
  <2> QED
    BY <1>7, <2>2, ForgettingKeeps DEF WriteIsLost, Answered
<1>8. CASE Die(w)
  <2>1. \A v \in Workers \ {w} : /\ todo'[v] = todo[v] /\ seen'[v] = seen[v] /\ listed'[v] = listed[v]
                                 /\ cur'[v] = cur[v] /\ closing'[v] = closing[v]
    BY <1>8 DEF Die, TypeOK
  <2> QED
    BY <1>8, <2>1, ForgettingKeeps DEF Die
<1> QED
  BY <1>1, <1>2, <1>3, <1>4, <1>5, <1>6, <1>7, <1>8,
     WorkersQuiet, RecoverKeeps, ClaimKeeps, CheckKeeps, CloseKeeps DEF Poll

LEMMA InvStep == IInv /\ [Next]_vars => IInv'
<1> SUFFICES ASSUME IInv, [Next]_vars PROVE IInv'
  OBVIOUS
<1>1. TypeOK /\ Held /\ AttemptsLeft
  BY DEF IInv
<1>2. CASE UNCHANGED vars
  <2>1. TypeOK'
    BY <1>1, <1>2 DEF TypeOK, vars, campaignVars, rowVars, optVars, workerVars, counts, ghosts
  <2>2. Quiet
    BY <1>1, <1>2 DEF Quiet, Calm, Sending, TypeOK, vars, campaignVars, rowVars, workerVars, counts, ghosts
  <2> QED
    BY <2>1, <2>2, QuietKeeps
<1>3. ASSUME NEW w \in Workers, Poll(w) \/ ListFails(w) \/ WriteIsLost(w) \/ Die(w)
      PROVE  IInv'
  BY <1>1, <1>3, TypeOfWorkers, WorkersKeep
<1>4. CASE \/ \E m \in Row : Due(m) \/ Expire(m)
           \/ \E c \in 1..MaxCampaigns : Execute(c)
           \/ \E r \in Recipients : Insert(r) \/ InsertFails(r) \/ OptOut(r)
           \/ \E r \in Newsletters : Newsletter(r) \/ Click(r)
           \/ ExecutorDies
  BY <1>1, <1>4, TypeOfInputs, InputsKeep
<1> QED
  BY <1>2, <1>3, <1>4 DEF Next

-----------------------------------------------------------------------------
(* The theorems.                                                           *)

(* The inductive invariant holds in every reachable state, for any         *)
(* workers, recipients, campaigns, attempts and faults.                    *)
THEOREM Invariance == Spec => []IInv
BY InvInit, InvStep, PTL DEF Spec

(* The rows and the workers' snapshots keep their type; attempts stay      *)
(* within max_attempts (outgoing.ts lines 134-147).                        *)
THEOREM TypeCorrect == Spec => []TypeOK
<1>1. IInv => TypeOK
  BY DEF IInv
<1> QED
  BY <1>1, Invariance, PTL

(* Workers do not send the same mail together while no poll outlives its   *)
(* lease on it (the claim, outgoing.ts lines 295-303).                     *)
THEOREM SendersAreExclusive == Spec => []OneSender
<1>1. IInv => OneSender
  BY DEF IInv
<1> QED
  BY <1>1, Invariance, PTL

(* Every delivery of a mail but one has a fault of its own behind it       *)
(* (at-least-once, outgoing.ts lines 320-323).                             *)
THEOREM RepeatsHaveFaults == Spec => []SentOncePerFault
<1>1. IInv => SentOncePerFault
  <2> SUFFICES ASSUME IInv, NEW m \in Row \ lapsed PROVE delivered[m] <= 1 + faults
    BY DEF SentOncePerFault
  <2>1. delivered[m] \in Nat /\ faults \in Nat
    BY DEF IInv, TypeOK
  <2> QED
    BY <2>1 DEF IInv, DeliveriesHaveFaults
<1> QED
  BY <1>1, Invariance, PTL

(* No mail is given to the server more often than its budget, through      *)
(* refusals, crashes and recoveries, unless it was claimed from an old     *)
(* snapshot or beyond a lease (outgoing.ts lines 166-199 and 326-348).     *)
THEOREM BudgetHolds == Spec => []BudgetKept
<1>1. IInv => BudgetKept
  <2> SUFFICES ASSUME IInv, NEW m \in Row \ (lapsed \cup stale) PROVE tries[m] <= MaxAttempts
    BY DEF BudgetKept
  <2>1. tries[m] \in Nat /\ attempts[m] \in 0..MaxAttempts
    BY DEF IInv, TypeOK
  <2>2. tries[m] <= attempts[m] + (IF Unrecorded(m) THEN 1 ELSE 0)
    BY DEF IInv, TriesSpend
  <2>3. Unrecorded(m) => attempts[m] < MaxAttempts
    BY DEF IInv, AttemptsLeft, Unrecorded, Pending
  <2> QED
    BY <2>1, <2>2, <2>3
<1> QED
  BY <1>1, Invariance, PTL

(* A campaign reads sent only once its mails are settled, unless it was    *)
(* completed while being written or a lease was outlived (outgoing.ts      *)
(* lines 374-401).                                                         *)
THEOREM SentCampaignsAreComplete == Spec => []SentIsComplete
<1>1. IInv => SentIsComplete
  BY DEF IInv, Closing, Over, SentIsComplete
<1> QED
  BY <1>1, Invariance, PTL

(* A settled mail whose lease nobody outlives is never queued or sent      *)
(* again (outgoing.ts lines 315-348).                                      *)
THEOREM SettledStaysSettled == Spec => SettledIsFinal
<1>1. IInv /\ [Next]_vars =>
        [\A m \in Row \ lapsed : status[m] \in Settled => status'[m] = status[m]]_vars
  <2> SUFFICES ASSUME IInv, Next, NEW m \in Row \ lapsed, status[m] \in Settled
               PROVE  status'[m] = status[m]
    BY DEF vars
  <2> USE DEF IInv
  <2>1. /\ status \in [Row -> {"none"} \cup Pending \cup Settled]
        /\ status[m] \notin {"none", "queued", "sending"}
    BY DEF TypeOK, Settled
  <2>2. \A w \in Workers : Sending(w) => cur[w] # m /\ cur[w] \in Row
    BY <2>1, Senders
  <2>3. CASE \/ \E n \in Row : Due(n) \/ Expire(n)
             \/ \E c \in 1..MaxCampaigns : Execute(c)
             \/ \E r \in Recipients : InsertFails(r) \/ OptOut(r)
             \/ \E r \in Newsletters : Click(r)
             \/ ExecutorDies
    BY <2>3 DEF Due, Expire, Execute, InsertFails, OptOut, Click, ExecutorDies, rowVars
  <2>4. CASE \/ \E r \in Recipients : Insert(r)
             \/ \E r \in Newsletters : Newsletter(r)
    BY <2>1, <2>4 DEF Insert, Newsletter, Queue, Fresh
  <2>5. ASSUME NEW w \in Workers, Poll(w) \/ ListFails(w) \/ WriteIsLost(w) \/ Die(w)
        PROVE  status'[m] = status[m]
    <3>1. CASE MarkSent(w) \/ MarkFailed(w)
      BY <2>1, <2>2, <3>1 DEF MarkSent, MarkFailed, Write, SetStatus, Sending
    <3>2. ASSUME NEW n \in Row, Recover(w, n) \/ Skip(w, n) \/ Claim(w, n) \/ NotClaimed(w, n)
          PROVE  status'[m] = status[m]
      BY <2>1, <3>2 DEF Recover, StillStuck, Skip, Claim, NotClaimed, Claimable, SetStatus
    <3>3. CASE \/ Start(w) \/ Select(w) \/ ReadList(w) \/ Accept(w) \/ Refuse(w) \/ Rest(w) \/ Close(w)
               \/ ListFails(w) \/ WriteIsLost(w) \/ Die(w)
               \/ \E n \in Row : NotRecovered(w, n)
               \/ \E c \in 1..MaxCampaigns : Check(w, c) \/ NotComplete(w, c)
      BY <3>3 DEF Start, Select, ReadList, Accept, Refuse, Rest, Close, ListFails, WriteIsLost, Die,
                  NotRecovered, Check, NotComplete, rowVars
    <3> QED
      BY <2>5, <3>1, <3>2, <3>3 DEF Poll
  <2> QED
    BY <2>3, <2>4, <2>5 DEF Next
<1> QED
  BY <1>1, Invariance, PTL DEF Spec, SettledIsFinal

(* An opt-out is heeded for good: once the batches that were under way     *)
(* when it was entered are through, its address gets no more mail          *)
(* (outgoing.ts lines 245-293).                                            *)
THEOREM OptOutsHold == Spec => OptOutsAreHeeded
<1>1. IInv /\ [Next]_vars =>
        [\A m \in Row : Heeded(To(m)) => delivered'[m] = delivered[m]]_vars
  <2> SUFFICES ASSUME IInv, Next, NEW m \in Row, Heeded(To(m))
               PROVE  delivered'[m] = delivered[m]
    BY DEF vars
  <2> USE DEF IInv
  <2>1. delivered \in [Row -> 0..(MaxFaults + 2)]
    BY DEF TypeOK
  <2>2. \A w \in Workers : pc[w] = "smtp" => cur[w] # m
    BY DEF Held, Sending, Blocked, Heeded, Pc
  <2>3. CASE \/ \E n \in Row : Due(n) \/ Expire(n)
             \/ \E c \in 1..MaxCampaigns : Execute(c)
             \/ \E r \in Recipients : Insert(r) \/ InsertFails(r) \/ OptOut(r)
             \/ \E r \in Newsletters : Newsletter(r) \/ Click(r)
             \/ ExecutorDies
    BY <2>3 DEF Due, Expire, Execute, Insert, InsertFails, Written, OptOut, Newsletter, Click, ExecutorDies, counts
  <2>4. ASSUME NEW w \in Workers, Poll(w) \/ ListFails(w) \/ WriteIsLost(w) \/ Die(w)
        PROVE  delivered'[m] = delivered[m]
    <3>1. CASE Accept(w) \/ Refuse(w)
      BY <2>1, <2>2, <3>1 DEF Accept, Refuse, Count
    <3>2. CASE MarkSent(w) \/ MarkFailed(w) \/ WriteIsLost(w)
      BY <3>2 DEF MarkSent, MarkFailed, WriteIsLost, Answered, counts
    <3>3. ASSUME NEW n \in Row, Recover(w, n) \/ NotRecovered(w, n) \/ Skip(w, n) \/ Claim(w, n) \/ NotClaimed(w, n)
          PROVE  delivered'[m] = delivered[m]
      BY <3>3 DEF Recover, NotRecovered, Skip, Claim, NotClaimed, counts
    <3>4. CASE \/ Start(w) \/ Select(w) \/ ReadList(w) \/ Rest(w) \/ Close(w) \/ ListFails(w) \/ Die(w)
               \/ \E c \in 1..MaxCampaigns : Check(w, c) \/ NotComplete(w, c)
      BY <3>4 DEF Start, Select, ReadList, Rest, Close, ListFails, Die, Check, NotComplete, counts
    <3> QED
      BY <2>4, <3>1, <3>2, <3>3, <3>4 DEF Poll
  <2> QED
    BY <2>3, <2>4 DEF Next
<1> QED
  BY <1>1, Invariance, PTL DEF Spec, OptOutsAreHeeded

=============================================================================
