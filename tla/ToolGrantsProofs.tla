--------------------------- MODULE ToolGrantsProofs ---------------------------
(***************************************************************************)
(* Proofs about ToolGrants.  Everything but the type needs a grants file   *)
(* large enough to keep one grant per invocation (GrantsFit): the run on a *)
(* file that trims shows that without it a tool can run twice.             *)
(***************************************************************************)
EXTENDS ToolGrants, TLAPS, FiniteSetTheorems

(***************************************************************************)
(* _save drops nothing while there is room for every invocation: of the    *)
(* grants newer than i's, none is i's own.                                 *)
(***************************************************************************)
LEMMA TrimKeeps ==
  ASSUME GrantsFit, NEW g \in [Invocations -> Grant]
  PROVE  Trim(g) = g
<1>1. ASSUME NEW i \in Invocations
      PROVE  ~(Cardinality({j \in Invocations : g[j].present /\ g[j].pos > g[i].pos})
                 >= MaxGrants)
  <2> DEFINE newer == {j \in Invocations : g[j].present /\ g[j].pos > g[i].pos}
  <2>1. g[i].pos \in Nat
    BY DEF Grant
  <2>2. newer \subseteq Invocations \ {i}
    BY <2>1
  <2>3. IsFiniteSet(Invocations) /\ IsFiniteSet(Invocations \ {i})
    BY LimitsAssumption, FS_RemoveElement
  <2>4. Cardinality(Invocations \ {i}) = Cardinality(Invocations) - 1
    BY <2>3, FS_RemoveElement
  <2>5. IsFiniteSet(newer) /\ Cardinality(newer) <= Cardinality(Invocations \ {i})
    BY <2>2, <2>3, FS_Subset
  <2>6. Cardinality(newer) \in Nat /\ Cardinality(Invocations) \in Nat
    BY <2>3, <2>5, FS_CardinalityType
  <2> QED
    BY <2>4, <2>5, <2>6, LimitsAssumption DEF GrantsFit
<1>2. Trim(g) = [i \in Invocations |-> g[i]]
  BY <1>1 DEF Trim
<1> QED
  BY <1>2

-----------------------------------------------------------------------------
(* The grants file.                                                        *)

(* What a message's first delivery puts on file.                           *)
Recorded(m, p) == [present  |-> TRUE,
                   approved |-> m.approved,
                   exec     |-> m.exec,
                   consumed |-> FALSE,
                   claimed  |-> FALSE,
                   live     |-> TRUE,
                   pos      |-> p]

LEMMA RecordedType ==
  ASSUME NEW m \in Message, NEW p \in Nat
  PROVE  Recorded(m, p) \in Grant
BY DEF Recorded, Message, Grant

(***************************************************************************)
(* record_grant appends to the file, and disturbs nothing that is on it.   *)
(***************************************************************************)
LEMMA RecordAppends ==
  ASSUME GrantsFit, TypeOK, NEW t \in Threads, NEW m \in sent, Record(t, m),
         ~Present(m.inv)
  PROVE  /\ grant' = [grant EXCEPT ![m.inv] = Recorded(m, appended + 1)]
         /\ Recorded(m, appended + 1) \in Grant
         /\ m.inv \in Invocations
<1>1. m \in Message /\ appended + 1 \in Nat /\ m.inv \in Invocations
  BY DEF TypeOK, Message
<1>2. Recorded(m, appended + 1) \in Grant
  BY <1>1, RecordedType
<1>3. [grant EXCEPT ![m.inv] = Recorded(m, appended + 1)] \in [Invocations -> Grant]
  BY <1>1, <1>2 DEF TypeOK
<1>4. grant' = Trim([grant EXCEPT ![m.inv] = Recorded(m, appended + 1)])
  BY DEF Record, Recorded
<1> QED
  BY <1>1, <1>2, <1>3, <1>4, TrimKeeps

(***************************************************************************)
(* How a step may change one grant: what is on file keeps its decision and *)
(* its marks; a new one comes unmarked from a callback; only an approved   *)
(* one is claimed or consumed.                                             *)
(***************************************************************************)
GrantMove(i) ==
  /\ Present(i) => /\ grant'[i].present
                   /\ grant'[i].exec     = grant[i].exec
                   /\ grant'[i].approved = grant[i].approved
  /\ grant[i].claimed  => grant'[i].claimed
  /\ grant[i].consumed /\ Present(i) => grant'[i].consumed
  /\ grant'[i].approved /\ ~grant[i].approved =>
       \E m \in sent : m.inv = i /\ m.approved
  /\ grant'[i].approved => grant'[i].present
  /\ grant'[i].claimed => grant'[i].approved

LEMMA GrantMoves ==
  ASSUME IInv, GrantsFit, [Next]_vars, NEW i \in Invocations
  PROVE  GrantMove(i)
<1>0. /\ grant \in [Invocations -> Grant] /\ OnRecord /\ TypeOK
      /\ grant[i].approved => Present(i)
      /\ grant[i].claimed => grant[i].approved
  BY DEF IInv, OnRecord, TypeOK
<1>1. ASSUME grant' = grant PROVE GrantMove(i)
  BY <1>0, <1>1 DEF GrantMove, Present
<1>2. ASSUME NEW t \in Threads, NEW m \in sent, Record(t, m) PROVE GrantMove(i)
  <2>1. CASE Present(m.inv)
    BY <1>1, <1>2, <2>1 DEF Record, fileVars
  <2>2. CASE ~Present(m.inv)
    <3>1. /\ grant' = [grant EXCEPT ![m.inv] = Recorded(m, appended + 1)]
          /\ m.inv \in Invocations
      BY <1>0, <1>2, <2>2, RecordAppends
    <3>2. CASE i = m.inv
      <4>1. grant'[i] = Recorded(m, appended + 1)
        BY <1>0, <3>1, <3>2
      <4>2. ~grant[i].approved /\ ~grant[i].claimed
        BY <1>0, <2>2, <3>2
      <4> QED
        BY <2>2, <3>2, <4>1, <4>2 DEF GrantMove, Recorded
    <3>3. CASE i # m.inv
      BY <1>0, <3>1, <3>3 DEF GrantMove, Present
    <3> QED
      BY <3>2, <3>3
  <2> QED
    BY <2>1, <2>2
<1>3. ASSUME NEW t \in Threads, Claim(t) PROVE GrantMove(i)
  <2>1. CASE Claimable(msg[t])
    <3>1. grant' = [grant EXCEPT ![msg[t].inv].claimed = TRUE]
          /\ grant[msg[t].inv].approved
      BY <1>3, <2>1 DEF Claim, IInv, Serving
    <3>2. CASE i = msg[t].inv
      <4>1. grant'[i] = [grant[i] EXCEPT !.claimed = TRUE]
        BY <1>0, <3>1, <3>2
      <4> QED
        BY <1>0, <3>1, <3>2, <4>1 DEF GrantMove, Present, Grant
    <3>3. CASE i # msg[t].inv
      BY <1>0, <3>1, <3>3 DEF GrantMove, Present
    <3> QED
      BY <3>2, <3>3
  <2>2. CASE ~Claimable(msg[t])
    BY <1>1, <1>3, <2>2 DEF Claim
  <2> QED
    BY <2>1, <2>2
<1>4. ASSUME NEW t \in Threads, Gate(t) PROVE GrantMove(i)
  <2>1. CASE Consume(t)
    <3>1. PICK j \in Invocations : grant' = [grant EXCEPT ![j].consumed = TRUE]
      BY <2>1 DEF Consume
    <3>2. CASE i = j
      <4>1. grant'[i] = [grant[i] EXCEPT !.consumed = TRUE]
        BY <1>0, <3>1, <3>2
      <4> QED
        BY <1>0, <4>1 DEF GrantMove, Present, Grant
    <3>3. CASE i # j
      BY <1>0, <3>1, <3>3 DEF GrantMove, Present
    <3> QED
      BY <3>2, <3>3
  <2>2. CASE Freeze(t) \/ Push(t) \/ Outright(t)
    BY <1>1, <2>2 DEF Freeze, Push, Outright
  <2> QED
    BY <1>4, <2>1, <2>2 DEF Gate
<1>5. ASSUME NEW k \in Invocations, Age(k) PROVE GrantMove(i)
  <2>1. grant'[i] = grant[i] \/ grant'[i] = [grant[i] EXCEPT !.live = FALSE]
    BY <1>0, <1>5 DEF Age
  <2>2. grant[i] \in Grant
    BY <1>0
  <2> QED
    BY <1>0, <2>1, <2>2 DEF GrantMove, Present, Grant
<1>6. ASSUME Next, grant' # grant
      PROVE  \/ \E t \in Threads, m \in sent : Record(t, m)
             \/ \E t \in Threads : Claim(t) \/ Gate(t)
             \/ \E k \in Invocations : Age(k)
  BY <1>6 DEF Next, Approve, Reject, Lapse, Store, SenderDies, AgentCalls,
     Dispatch, Complete, Restart, fileVars
<1> QED
  BY <1>1, <1>2, <1>3, <1>4, <1>5, <1>6 DEF vars, fileVars

-----------------------------------------------------------------------------
(* Types.                                                                  *)

LEMMA InitTypeOK == Init => TypeOK
<1>1. NoGrant \in Grant
  BY LimitsAssumption DEF NoGrant, Grant
<1> QED
  BY <1>1, LimitsAssumption DEF Init, TypeOK, Row, Pc

LEMMA AnswerType ==
  ASSUME TypeOK, NEW t \in Threads, NEW m, NEW a \in {"ok", "error"}, Answer(t, m, a)
  PROVE  /\ answer' \in [Executions -> {"none", "ok", "error"}]
         /\ pc'  \in [Threads -> Pc]
         /\ msg' \in [Threads -> Message \cup {NoMsg}]
         /\ own' \in [Threads -> SUBSET Invocations]
BY DEF Answer, TypeOK, Pc

LEMMA NextTypeOK == IInv /\ GrantsFit /\ [Next]_vars => TypeOK'
<1> SUFFICES ASSUME IInv, GrantsFit, [Next]_vars PROVE TypeOK'
  OBVIOUS
<1>0. TypeOK
  BY DEF IInv
<1>1. ASSUME NEW i \in Invocations, Approve(i) PROVE TypeOK'
  <2>1. lastExec + 1 \in 0..MaxExecutions
    BY <1>0, <1>1, LimitsAssumption DEF Approve, TypeOK
  <2>2. [inv |-> i, exec |-> lastExec + 1, approved |-> TRUE] \in Message
    BY <2>1 DEF Message
  <2> QED
    BY <1>0, <1>1, <2>1, <2>2 DEF Approve, TypeOK, Row, threadVars, fileVars
<1>2. ASSUME NEW i \in Invocations, Reject(i) PROVE TypeOK'
  <2>1. [inv |-> i, exec |-> 0, approved |-> FALSE] \in Message
    BY LimitsAssumption DEF Message
  <2> QED
    BY <1>0, <1>2, <2>1 DEF Reject, TypeOK, Row, threadVars, fileVars
<1>3. ASSUME NEW i \in Invocations, Lapse(i) PROVE TypeOK'
  BY <1>0, <1>3 DEF Lapse, TypeOK, Row, threadVars, fileVars, wireVars
<1>4. ASSUME NEW i \in Invocations, Age(i) PROVE TypeOK'
  <2>1. \A j \in Invocations : [grant[j] EXCEPT !.live = FALSE] \in Grant
    BY <1>0 DEF TypeOK, Grant
  <2>2. grant' \in [Invocations -> Grant]
    BY <1>0, <1>4, <2>1 DEF Age, TypeOK
  <2> QED
    BY <1>0, <1>4, <2>2 DEF Age, TypeOK, threadVars, wireVars, busVars
<1>5. ASSUME NEW m \in waiting, Store(m) \/ SenderDies(m) PROVE TypeOK'
  BY <1>0, <1>5 DEF Store, SenderDies, Outcomes, TypeOK, Row, threadVars, fileVars, busVars
<1>6. ASSUME NEW t \in Threads, NEW m \in sent, Record(t, m) PROVE TypeOK'
  <2>1. grant' \in [Invocations -> Grant] /\ appended' \in Nat
    <3>1. CASE Present(m.inv)
      BY <1>0, <1>6, <3>1 DEF Record, TypeOK, fileVars
    <3>2. CASE ~Present(m.inv)
      <4>1. /\ grant' = [grant EXCEPT ![m.inv] = Recorded(m, appended + 1)]
            /\ Recorded(m, appended + 1) \in Grant
        BY <1>0, <1>6, <3>2, RecordAppends
      <4>2. grant \in [Invocations -> Grant] /\ appended \in Nat
            /\ appended' = appended + 1
        BY <1>0, <1>6, <3>2 DEF Record, TypeOK
      <4>3. appended' \in Nat
        BY <4>2
      <4>4. grant' \in [Invocations -> Grant]
        BY <4>1, <4>2
      <4> QED
        BY <4>3, <4>4
    <3> QED
      BY <3>1, <3>2
  <2>2. /\ answer' \in [Executions -> {"none", "ok", "error"}]
        /\ pc'  \in [Threads -> Pc]
        /\ msg' \in [Threads -> Message \cup {NoMsg}]
        /\ own' \in [Threads -> SUBSET Invocations]
    <3>1. CASE Answer(t, m, "error") \/ Answer(t, m, "ok")
      BY <1>0, <3>1, AnswerType
    <3>2. CASE /\ pc'  = [pc EXCEPT ![t] = "recorded"]
               /\ msg' = [msg EXCEPT ![t] = m]
               /\ UNCHANGED <<own, answer>>
      BY <1>0, <3>2 DEF TypeOK, Pc
    <3> QED
      BY <1>6, <3>1, <3>2 DEF Record
  <2> QED
    BY <1>0, <1>6, <2>1, <2>2 DEF Record, TypeOK, busVars
<1>7. ASSUME NEW t \in Threads, NEW c \in Calls, AgentCalls(t, c) PROVE TypeOK'
  BY <1>0, <1>7 DEF AgentCalls, TypeOK, Pc, busVars, wireVars, fileVars
<1>8. ASSUME NEW t \in Threads, Claim(t) PROVE TypeOK'
  <2>1. CASE Claimable(msg[t])
    <3>1. msg[t] \in Message /\ msg[t].inv \in Invocations
      BY <1>0, <1>8 DEF Claim, IInv, Serving, TypeOK, Message
    <3>2. grant' \in [Invocations -> Grant] /\ call' \in [Threads -> Calls]
      <4>1. /\ grant' = [grant EXCEPT ![msg[t].inv].claimed = TRUE]
            /\ call' = [call EXCEPT ![t] = CallOf[msg[t].inv]]
        BY <1>8, <2>1 DEF Claim
      <4>2. grant \in [Invocations -> Grant] /\ call \in [Threads -> Calls]
        BY <1>0 DEF TypeOK
      <4>3. [grant[msg[t].inv] EXCEPT !.claimed = TRUE] \in Grant
        BY <3>1, <4>2 DEF Grant
      <4> QED
        BY <3>1, <4>1, <4>2, <4>3, CallsAssumption
    <3> QED
      BY <1>0, <1>8, <2>1, <3>2 DEF Claim, TypeOK, Pc, busVars
  <2>2. CASE ~Claimable(msg[t])
    <3>1. PICK a \in {"ok", "error"} : Answer(t, msg[t], a)
      BY <1>8, <2>2 DEF Claim
    <3> QED
      BY <1>0, <1>8, <2>2, <3>1, AnswerType DEF Claim, TypeOK, busVars
  <2> QED
    BY <2>1, <2>2
<1>9. ASSUME NEW t \in Threads, Gate(t) PROVE TypeOK'
  <2>1. CASE Consume(t)
    <3>1. PICK i \in Invocations :
            /\ grant' = [grant EXCEPT ![i].consumed = TRUE]
            /\ own'   = [own EXCEPT ![t] = {i}]
            /\ pc'    = [pc EXCEPT ![t] = "replay"]
            /\ UNCHANGED row
      BY <2>1 DEF Consume
    <3>2. grant \in [Invocations -> Grant]
      BY <1>0 DEF TypeOK
    <3>3. [grant[i] EXCEPT !.consumed = TRUE] \in Grant
      BY <3>2 DEF Grant
    <3>4. grant' \in [Invocations -> Grant]
      BY <3>1, <3>2, <3>3
    <3> QED
      BY <1>0, <1>9, <3>1, <3>4 DEF Gate, TypeOK, Pc, wireVars
  <2>2. CASE Freeze(t) \/ Push(t) \/ Outright(t)
    BY <1>0, <1>9, <2>2 DEF Gate, Freeze, Push, Outright, TypeOK, Row, Pc, wireVars
  <2> QED
    BY <1>9, <2>1, <2>2 DEF Gate
<1>10. ASSUME NEW t \in Threads, Dispatch(t) PROVE TypeOK'
  BY <1>0, <1>10 DEF Dispatch, TypeOK, Pc, busVars, wireVars, fileVars
<1>11. ASSUME NEW t \in Threads, Complete(t) PROVE TypeOK'
  <2>1. PICK a \in {"ok", "error"} : Answer(t, msg[t], a)
    BY <1>11 DEF Complete
  <2> QED
    BY <1>0, <1>11, <2>1, AnswerType DEF Complete, TypeOK, busVars, fileVars
<1>12. CASE Restart
  BY <1>0, <1>12 DEF Restart, TypeOK, Pc, busVars, wireVars, fileVars
<1>13. CASE UNCHANGED vars
  BY <1>0, <1>13 DEF TypeOK, vars, busVars, wireVars, fileVars, threadVars
<1> QED
  BY <1>1, <1>2, <1>3, <1>4, <1>5, <1>6, <1>7, <1>8, <1>9, <1>10, <1>11, <1>12,
     <1>13 DEF Next

-----------------------------------------------------------------------------
(* Each part of the invariant is kept by every step.                       *)

LEMMA NextMessages == IInv /\ [Next]_vars => Messages'
<1> SUFFICES ASSUME IInv, [Next]_vars PROVE Messages'
  OBVIOUS
<1>0. TypeOK /\ Messages
  BY DEF IInv
<1>1. ASSUME NEW i \in Invocations, Approve(i) PROVE Messages'
  <2> DEFINE m == [inv |-> i, exec |-> lastExec + 1, approved |-> TRUE]
  <2>1. /\ sent' = sent \cup {m} /\ waiting' = waiting \cup {m}
        /\ rowExec' = [rowExec EXCEPT ![i] = lastExec + 1]
        /\ lastExec' = lastExec + 1 /\ answer' = answer
    BY <1>1 DEF Approve
  <2>2. lastExec \in Nat /\ rowExec \in [Invocations -> 0..MaxExecutions]
    BY <1>0, LimitsAssumption DEF TypeOK
  <2>3. \A n \in sent \cup waiting : n \in Message
    BY <1>0 DEF TypeOK
  <2>4. \A n \in sent \cup waiting : n.approved => n.exec <= lastExec /\ n.exec \in Nat
    BY <1>0, <2>2 DEF Messages
  <2>5. \A n \in sent \cup waiting : n.inv \in Invocations
    BY <2>3 DEF Message
  <2>6. \A n \in sent' \cup waiting' : n = m \/ n \in sent \cup waiting
    BY <2>1
  <2>7. m.approved /\ m.exec = lastExec + 1 /\ m.inv = i
    OBVIOUS
  <2>8. \A n \in sent' \cup waiting' : n.approved => n.exec \in 1..lastExec'
    BY <1>0, <2>1, <2>2, <2>6, <2>7 DEF Messages
  <2>9. \A n \in sent' \cup waiting' : n.approved => rowExec'[n.inv] # 0
    BY <1>0, <2>1, <2>2, <2>5, <2>6, <2>7 DEF Messages
  <2>10. \A n, k \in sent' \cup waiting' :
           n.approved /\ k.approved /\ n.exec = k.exec => n = k
    <3>1. ASSUME NEW n \in sent \cup waiting, n.approved PROVE n.exec # lastExec + 1
      BY <2>2, <2>4, <3>1
    <3> QED
      BY <1>0, <2>6, <2>7, <3>1 DEF Messages
  <2>11. \A n \in waiting' : n.approved
    BY <1>0, <2>1, <2>7 DEF Messages
  <2>12. \A e \in Executions : answer'[e] # "none" => e <= lastExec'
    BY <1>0, <2>1, <2>2, LimitsAssumption DEF Messages, Executions
  <2> QED
    BY <2>8, <2>9, <2>10, <2>11, <2>12 DEF Messages
<1>2. ASSUME NEW i \in Invocations, Reject(i) PROVE Messages'
  BY <1>0, <1>2 DEF Reject, Messages
<1>3. ASSUME NEW t \in Threads, NEW m \in Message \cup {NoMsg},
             NEW a \in {"ok", "error"}, Answer(t, m, a),
             sent' \subseteq sent, UNCHANGED <<waiting, rowExec, lastExec>>
      PROVE  Messages'
  <2>1. \A e \in Executions : answer'[e] # "none" => e <= lastExec
    <3>1. CASE m \in waiting
      <4>1. m.exec <= lastExec
        BY <1>0, <3>1 DEF Messages, TypeOK
      <4> QED
        BY <1>0, <1>3, <3>1, <4>1 DEF Answer, Messages, TypeOK
    <3>2. CASE m \notin waiting
      BY <1>0, <1>3, <3>2 DEF Answer, Messages
    <3> QED
      BY <3>1, <3>2
  <2> QED
    BY <1>0, <1>3, <2>1 DEF Messages
<1>4. ASSUME sent' \subseteq sent, waiting' \subseteq waiting,
             UNCHANGED <<rowExec, lastExec, answer>>
      PROVE  Messages'
  BY <1>0, <1>4 DEF Messages
<1>5. ASSUME NEW t \in Threads, NEW m \in sent, Record(t, m) PROVE Messages'
  <2>1. m \in Message \cup {NoMsg} /\ sent' \subseteq sent
        /\ UNCHANGED <<waiting, rowExec, lastExec>>
    BY <1>0, <1>5 DEF Record, TypeOK, busVars
  <2>2. CASE Answer(t, m, "error") \/ Answer(t, m, "ok")
    BY <1>3, <2>1, <2>2
  <2>3. CASE UNCHANGED answer
    BY <1>4, <2>1, <2>3
  <2> QED
    BY <1>5, <2>2, <2>3 DEF Record
<1>6. ASSUME NEW t \in Threads, Claim(t) \/ Complete(t) PROVE Messages'
  <2>1. msg[t] \in Message \cup {NoMsg} /\ sent' \subseteq sent
        /\ UNCHANGED <<waiting, rowExec, lastExec>>
    BY <1>0, <1>6 DEF Claim, Complete, TypeOK, busVars
  <2>2. CASE \E a \in {"ok", "error"} : Answer(t, msg[t], a)
    BY <1>3, <2>1, <2>2
  <2>3. CASE UNCHANGED answer
    BY <1>4, <2>1, <2>3
  <2> QED
    BY <1>6, <2>2, <2>3 DEF Claim, Complete
<1>7. ASSUME NEW i \in Invocations, Lapse(i) \/ Age(i) PROVE Messages'
  BY <1>4, <1>7 DEF Lapse, Age, wireVars, busVars
<1>8. ASSUME NEW m \in waiting, Store(m) \/ SenderDies(m) PROVE Messages'
  BY <1>4, <1>8 DEF Store, SenderDies, busVars
<1>9. ASSUME NEW t \in Threads,
             Gate(t) \/ Dispatch(t) \/ \E c \in Calls : AgentCalls(t, c)
      PROVE  Messages'
  BY <1>4, <1>9 DEF Gate, Dispatch, AgentCalls, wireVars, busVars
<1>10. CASE Restart \/ UNCHANGED vars
  BY <1>4, <1>10 DEF Restart, vars, wireVars, busVars
<1> QED
  BY <1>1, <1>2, <1>5, <1>6, <1>7, <1>8, <1>9, <1>10 DEF Next

(***************************************************************************)
(* A row that was ever claimed keeps an execution id.                      *)
(***************************************************************************)
LEMMA ClaimedRowsStay ==
  ASSUME IInv, [Next]_vars, NEW i \in Invocations, rowExec[i] # 0
  PROVE  rowExec'[i] # 0
<1>1. TypeOK
  BY DEF IInv
<1>2. ASSUME NEW j \in Invocations, Approve(j) PROVE rowExec'[i] # 0
  BY <1>1, <1>2, LimitsAssumption DEF Approve, TypeOK
<1>3. ASSUME rowExec' = rowExec PROVE rowExec'[i] # 0
  BY <1>3
<1> QED
  BY <1>2, <1>3 DEF Next, vars, busVars, Reject, Lapse, Age, Store, SenderDies, Record,
     AgentCalls, Claim, Gate, Dispatch, Complete, Restart

LEMMA NextOnRecord == IInv /\ GrantsFit /\ [Next]_vars => OnRecord'
<1> SUFFICES ASSUME IInv, GrantsFit, [Next]_vars, NEW i \in Invocations
             PROVE  /\ grant'[i].approved => grant'[i].present /\ rowExec'[i] # 0
                    /\ grant'[i].claimed => grant'[i].approved
  BY DEF OnRecord, Present
<1>1. GrantMove(i)
  BY GrantMoves
<1>2. ASSUME grant'[i].approved PROVE rowExec[i] # 0
  <2>1. CASE grant[i].approved
    BY <2>1 DEF IInv, OnRecord
  <2>2. CASE ~grant[i].approved
    BY <1>1, <1>2, <2>2 DEF GrantMove, IInv, Messages
  <2> QED
    BY <2>1, <2>2
<1> QED
  BY <1>1, <1>2, ClaimedRowsStay DEF GrantMove

LEMMA NextServing == IInv /\ GrantsFit /\ [Next]_vars => Serving'
<1> SUFFICES ASSUME IInv, GrantsFit, [Next]_vars PROVE Serving'
  OBVIOUS
<1> DEFINE Serves(p, m) ==
      /\ p = "recorded" => m # NoMsg
      /\ p # "idle" /\ m # NoMsg =>
           /\ OnFile(m)
           /\ m.approved /\ grant[m.inv].approved
           /\ p # "recorded" => grant[m.inv].claimed
<1>0. TypeOK /\ \A t \in Threads : Serves(pc[t], msg[t])
  BY DEF IInv, Serving
<1>1. ASSUME NEW m \in Message, OnFile(m), grant[m.inv].approved
      PROVE  OnFile(m)' /\ grant'[m.inv].approved
             /\ (grant[m.inv].claimed => grant'[m.inv].claimed)
  <2>1. m.inv \in Invocations
    BY DEF Message
  <2> QED
    BY <1>1, <2>1, GrantMoves DEF GrantMove, OnFile, Present
<1>2. ASSUME NEW u \in Threads, pc'[u] = pc[u], msg'[u] = msg[u]
      PROVE  Serves(pc[u], msg[u])'
  <2>1. msg[u] \in Message \cup {NoMsg}
    BY <1>0 DEF TypeOK
  <2>2. CASE msg[u] \in Message /\ pc[u] # "idle"
    BY <1>0, <1>1, <1>2, <2>2
  <2>3. CASE msg[u] = NoMsg \/ pc[u] = "idle"
    BY <1>0, <1>2, <2>3
  <2> QED
    BY <2>1, <2>2, <2>3
<1>3. ASSUME NEW u \in Threads, pc'[u] = "idle" PROVE Serves(pc[u], msg[u])'
  BY <1>3
<1>4. ASSUME NEW u \in Threads, pc[u] \in {"gate", "push", "replay"},
             pc'[u] \in {"push", "replay", "over"}, msg'[u] = msg[u]
      PROVE  Serves(pc[u], msg[u])'
  <2>1. msg[u] \in Message \cup {NoMsg}
    BY <1>0 DEF TypeOK
  <2>2. CASE msg[u] \in Message
    BY <1>0, <1>1, <1>4, <2>2
  <2>3. CASE msg[u] = NoMsg
    BY <1>0, <1>4, <2>3
  <2> QED
    BY <2>1, <2>2, <2>3
<1>5. SUFFICES ASSUME NEW u \in Threads PROVE Serves(pc[u], msg[u])'
  BY DEF Serving
<1>6. ASSUME NEW t \in Threads, NEW m \in sent, Record(t, m)
      PROVE  Serves(pc[u], msg[u])'
  <2>1. CASE u # t
    BY <1>0, <1>2, <1>6, <2>1 DEF Record, Answer, TypeOK
  <2>2. CASE u = t /\ (Answer(t, m, "error") \/ Answer(t, m, "ok"))
    BY <1>0, <1>3, <2>2 DEF Answer, TypeOK
  <2>3. CASE /\ u = t /\ m.approved /\ ~(Present(m.inv) /\ ~SameDecision(m))
             /\ pc'  = [pc EXCEPT ![t] = "recorded"]
             /\ msg' = [msg EXCEPT ![t] = m]
    <3>1. pc'[u] = "recorded" /\ msg'[u] = m /\ m \in Message /\ m # NoMsg
      BY <1>0, <2>3, NoMsgAssumption DEF TypeOK
    <3>2. CASE Present(m.inv)
      <4>1. OnFile(m) /\ grant[m.inv].approved
        BY <2>3, <3>2 DEF SameDecision, OnFile
      <4> QED
        BY <1>1, <2>3, <3>1, <4>1
    <3>3. CASE ~Present(m.inv)
      <4>1. grant'[m.inv] = Recorded(m, appended + 1)
        BY <1>0, <1>6, <3>3, RecordAppends DEF TypeOK
      <4> QED
        BY <2>3, <3>1, <4>1 DEF OnFile, Present, Recorded
    <3> QED
      BY <3>2, <3>3
  <2> QED
    BY <1>6, <2>1, <2>2, <2>3 DEF Record
<1>7. ASSUME NEW t \in Threads, Claim(t) PROVE Serves(pc[u], msg[u])'
  <2>1. CASE u # t
    BY <1>0, <1>2, <1>7, <2>1 DEF Claim, Answer, TypeOK
  <2>2. CASE u = t /\ ~Claimable(msg[t])
    BY <1>0, <1>3, <1>7, <2>2 DEF Claim, Answer, TypeOK
  <2>3. CASE u = t /\ Claimable(msg[t])
    <3>1. pc'[u] = "gate" /\ msg'[u] = msg[u] /\ msg[u] \in Message
      BY <1>0, <1>7, <2>3 DEF Claim, TypeOK
    <3>2. OnFile(msg[u]) /\ msg[u].approved /\ grant[msg[u].inv].approved
      BY <1>0, <1>7, <2>3, <3>1, NoMsgAssumption DEF Claim
    <3>3. grant'[msg[u].inv].claimed
      <4>1. grant' = [grant EXCEPT ![msg[t].inv].claimed = TRUE]
            /\ msg[t].inv \in Invocations
        BY <1>7, <2>3, <3>1 DEF Claim, Message
      <4>2. grant[msg[t].inv] \in Grant /\ grant \in [Invocations -> Grant]
        BY <1>0, <4>1 DEF TypeOK
      <4> QED
        BY <2>3, <4>1, <4>2 DEF Grant
    <3> QED
      BY <1>1, <3>1, <3>2, <3>3
  <2> QED
    BY <2>1, <2>2, <2>3
<1>8. ASSUME NEW t \in Threads, Gate(t) \/ Dispatch(t) PROVE Serves(pc[u], msg[u])'
  <2>1. CASE u # t
    BY <1>0, <1>2, <1>8, <2>1 DEF Gate, Consume, Freeze, Push, Outright, Dispatch, TypeOK
  <2>2. CASE u = t
    BY <1>0, <1>4, <1>8, <2>2 DEF Gate, Consume, Freeze, Push, Outright, Dispatch, TypeOK
  <2> QED
    BY <2>1, <2>2
<1>9. ASSUME NEW t \in Threads, Complete(t) PROVE Serves(pc[u], msg[u])'
  BY <1>0, <1>2, <1>3, <1>9 DEF Complete, Answer, TypeOK
<1>10. ASSUME NEW t \in Threads, NEW c \in Calls, AgentCalls(t, c)
       PROVE  Serves(pc[u], msg[u])'
  <2>1. CASE u # t
    BY <1>0, <1>2, <1>10, <2>1 DEF AgentCalls, TypeOK
  <2>2. CASE u = t
    BY <1>0, <1>10, <2>2 DEF AgentCalls, TypeOK
  <2> QED
    BY <2>1, <2>2
<1>11. CASE Restart
  BY <1>3, <1>11 DEF Restart
<1>12. ASSUME UNCHANGED threadVars PROVE Serves(pc[u], msg[u])'
  BY <1>2, <1>12 DEF threadVars
<1> QED
  BY <1>6, <1>7, <1>8, <1>9, <1>10, <1>11, <1>12
  DEF Next, vars, Approve, Reject, Lapse, Age, Store, SenderDies

(***************************************************************************)
(* A run spends a grant: consuming one marks it, and the mark stays.       *)
(***************************************************************************)
LEMMA NextConsumption == IInv /\ GrantsFit /\ [Next]_vars => Consumption' /\ RanOnce'
<1> SUFFICES ASSUME IInv, GrantsFit, [Next]_vars PROVE Consumption' /\ RanOnce'
  OBVIOUS
<1>0. TypeOK /\ Consumption /\ RanOnce /\ OnRecord
  BY DEF IInv
<1>1. ASSUME NEW i \in Invocations, grant[i].consumed, grant[i].approved
      PROVE  grant'[i].consumed /\ grant'[i].approved
  BY <1>0, <1>1, GrantMoves DEF GrantMove, OnRecord, Present
<1>2. ASSUME ran' = ran,
             \A t \in Threads, i \in Invocations : Replays(t, i)' => Replays(t, i),
             \A t \in Threads : pc'[t] = "replay" => pc[t] = "replay" /\ own'[t] = own[t]
      PROVE  Consumption' /\ RanOnce'
  BY <1>0, <1>1, <1>2 DEF Consumption, RanOnce
<1>3. ASSUME NEW t \in Threads, Consume(t), UNCHANGED ran
      PROVE  Consumption' /\ RanOnce'
  <2>1. PICK i \in Invocations :
          /\ grant[i].approved /\ ~grant[i].consumed
          /\ grant' = [grant EXCEPT ![i].consumed = TRUE]
          /\ own' = [own EXCEPT ![t] = {i}]
          /\ pc'  = [pc EXCEPT ![t] = "replay"]
    BY <1>3 DEF Consume, Usable
  <2>2. /\ own'[t] = {i}
        /\ \A u \in Threads : u # t => pc'[u] = pc[u] /\ own'[u] = own[u]
    BY <1>0, <2>1 DEF TypeOK
  <2>3. grant'[i].consumed /\ grant'[i].approved
    <3>1. grant[i] \in Grant /\ grant \in [Invocations -> Grant]
      BY <1>0 DEF TypeOK
    <3> QED
      BY <2>1, <3>1 DEF Grant
  <2>4. ran[i] = 0
    BY <1>0, <2>1 DEF Consumption, RanOnce, TypeOK
  <2>5. \A u \in Threads : ~Replays(u, i)
    BY <1>0, <2>1 DEF Consumption
  <2>6. \A u \in Threads, j \in Invocations :
          Replays(u, j)' => (u = t /\ j = i) \/ (u # t /\ j # i /\ Replays(u, j))
    BY <2>2, <2>5 DEF Replays
  <2>7. \A u \in Threads : pc'[u] = "replay" => \E j \in Invocations : own'[u] = {j}
    BY <1>0, <2>2 DEF Consumption
  <2>8. \A j \in Invocations : ran'[j] > 0 => grant'[j].consumed /\ grant'[j].approved
    BY <1>0, <1>1, <1>3 DEF Consumption
  <2>9. \A u \in Threads, j \in Invocations : Replays(u, j)' =>
          /\ grant'[j].consumed /\ grant'[j].approved
          /\ ran'[j] = 0
    BY <1>0, <1>1, <1>3, <2>3, <2>4, <2>6 DEF Consumption
  <2>10. \A u, v \in Threads, j \in Invocations :
           Replays(u, j)' /\ Replays(v, j)' => u = v
    BY <1>0, <2>6 DEF Consumption
  <2> QED
    BY <1>0, <1>3, <2>7, <2>8, <2>9, <2>10 DEF Consumption, RanOnce
<1>4. ASSUME NEW t \in Threads, Dispatch(t) PROVE Consumption' /\ RanOnce'
  <2>1. PICK i \in Invocations : own[t] = {i}
    BY <1>0, <1>4 DEF Consumption, Dispatch
  <2>2. /\ Replays(t, i) /\ ran[i] = 0
        /\ grant[i].consumed /\ grant[i].approved
    BY <1>0, <1>4, <2>1 DEF Consumption, Dispatch, Replays
  <2>3. /\ pc'[t] = "over" /\ own' = own
        /\ \A u \in Threads : u # t => pc'[u] = pc[u]
    BY <1>0, <1>4 DEF Dispatch, TypeOK
  <2>4. CASE ran' = ran
    BY <1>2, <2>3, <2>4 DEF Replays
  <2>5. CASE ran' = [j \in Invocations |-> IF j \in own[t] THEN ran[j] + 1 ELSE ran[j]]
    <3>1. ran'[i] = 1 /\ \A j \in Invocations : j # i => ran'[j] = ran[j]
      BY <1>0, <2>1, <2>2, <2>5 DEF TypeOK
    <3>2. \A u \in Threads, j \in Invocations : Replays(u, j)' => Replays(u, j) /\ j # i
      BY <1>0, <2>2, <2>3 DEF Replays, Consumption
    <3>3. \A u \in Threads : pc'[u] = "replay" => \E j \in Invocations : own'[u] = {j}
      BY <1>0, <2>3 DEF Consumption
    <3>4. \A j \in Invocations : ran'[j] > 0 => grant'[j].consumed /\ grant'[j].approved
      BY <1>0, <1>1, <2>2, <3>1 DEF Consumption
    <3>5. \A u \in Threads, j \in Invocations : Replays(u, j)' =>
            /\ grant'[j].consumed /\ grant'[j].approved
            /\ ran'[j] = 0
      BY <1>0, <1>1, <3>1, <3>2 DEF Consumption
    <3>6. \A u, v \in Threads, j \in Invocations :
            Replays(u, j)' /\ Replays(v, j)' => u = v
      BY <1>0, <3>2 DEF Consumption
    <3>7. RanOnce'
      BY <1>0, <3>1 DEF RanOnce
    <3> QED
      BY <3>3, <3>4, <3>5, <3>6, <3>7 DEF Consumption
  <2> QED
    BY <1>4, <2>4, <2>5 DEF Dispatch
<1>5. ASSUME NEW t \in Threads, Gate(t) PROVE Consumption' /\ RanOnce'
  <2>1. CASE Consume(t)
    BY <1>3, <1>5, <2>1 DEF Gate
  <2>2. CASE Freeze(t) \/ Push(t) \/ Outright(t)
    <3>1. PICK p \in {"push", "over"} :
            UNCHANGED <<own, ran>> /\ pc' = [pc EXCEPT ![t] = p]
      BY <1>5, <2>2 DEF Gate, Freeze, Push, Outright
    <3> QED
      BY <1>0, <1>2, <3>1 DEF Replays, TypeOK
  <2> QED
    BY <1>5, <2>1, <2>2 DEF Gate
<1>6. ASSUME NEW t \in Threads, NEW m, NEW a, Answer(t, m, a), UNCHANGED ran
      PROVE  Consumption' /\ RanOnce'
  BY <1>0, <1>2, <1>6 DEF Answer, Replays, TypeOK
<1>7. ASSUME NEW t \in Threads, NEW p \in {"recorded", "gate"},
             pc' = [pc EXCEPT ![t] = p], UNCHANGED <<own, ran>>
      PROVE  Consumption' /\ RanOnce'
  BY <1>0, <1>2, <1>7 DEF Replays, TypeOK
<1>8. ASSUME NEW t \in Threads, NEW m \in sent, Record(t, m)
      PROVE  Consumption' /\ RanOnce'
  BY <1>6, <1>7, <1>8 DEF Record
<1>9. ASSUME NEW t \in Threads, Claim(t) PROVE Consumption' /\ RanOnce'
  BY <1>6, <1>7, <1>9 DEF Claim
<1>10. ASSUME NEW t \in Threads, Complete(t) PROVE Consumption' /\ RanOnce'
  BY <1>6, <1>10 DEF Complete
<1>11. ASSUME NEW t \in Threads, NEW c \in Calls, AgentCalls(t, c)
       PROVE  Consumption' /\ RanOnce'
  BY <1>7, <1>11 DEF AgentCalls
<1>12. CASE Restart
  BY <1>2, <1>12 DEF Restart, Replays
<1>13. ASSUME UNCHANGED <<threadVars, ran>> PROVE Consumption' /\ RanOnce'
  BY <1>2, <1>13 DEF threadVars, Replays
<1> QED
  BY <1>4, <1>5, <1>8, <1>9, <1>10, <1>11, <1>12, <1>13
  DEF Next, vars, Approve, Reject, Lapse, Age, Store, SenderDies

LEMMA NextAnswered == IInv /\ GrantsFit /\ [Next]_vars => Answered'
<1> SUFFICES ASSUME IInv, GrantsFit, [Next]_vars PROVE Answered'
  OBVIOUS
<1>0. TypeOK /\ Messages /\ Answered /\ Serving
  BY DEF IInv
<1>1. ASSUME NEW n \in Message, OnFile(n), grant[n.inv].claimed
      PROVE  OnFile(n)' /\ grant'[n.inv].claimed
  <2>1. n.inv \in Invocations
    BY DEF Message
  <2> QED
    BY <1>1, <2>1, GrantMoves DEF GrantMove, OnFile, Present
<1>2. ASSUME waiting' \subseteq waiting, answer' = answer PROVE Answered'
  BY <1>0, <1>1, <1>2 DEF Answered, TypeOK
<1>3. ASSUME NEW t \in Threads, NEW m, NEW a, Answer(t, m, a), waiting' = waiting,
             m \in waiting /\ a = "ok" => OnFile(m) /\ grant[m.inv].claimed
      PROVE  Answered'
  <2>1. ASSUME NEW n \in waiting, answer'[n.exec] = "ok"
        PROVE  OnFile(n) /\ grant[n.inv].claimed
    <3>1. CASE answer[n.exec] = "ok"
      BY <1>0, <3>1 DEF Answered
    <3>2. CASE answer[n.exec] # "ok"
      <4>1. m \in waiting /\ answer' = [answer EXCEPT ![m.exec] = a]
        BY <1>3, <2>1, <3>2 DEF Answer
      <4>2. n.exec = m.exec /\ a = "ok"
        BY <1>0, <2>1, <3>2, <4>1 DEF TypeOK
      <4>3. n = m
        BY <1>0, <4>1, <4>2 DEF Messages
      <4> QED
        BY <1>3, <4>1, <4>2, <4>3
    <3> QED
      BY <3>1, <3>2
  <2> QED
    BY <1>0, <1>1, <1>3, <2>1 DEF Answered, TypeOK
<1>4. ASSUME NEW i \in Invocations, Approve(i) PROVE Answered'
  <2> DEFINE m == [inv |-> i, exec |-> lastExec + 1, approved |-> TRUE]
  <2>1. waiting' = waiting \cup {m} /\ answer' = answer
    BY <1>4 DEF Approve
  <2>2. lastExec + 1 \in Executions
    BY <1>0, <1>4, LimitsAssumption DEF Approve, TypeOK, Executions
  <2>3. answer'[m.exec] = "none"
    BY <1>0, <2>1, <2>2, LimitsAssumption DEF Messages, TypeOK
  <2> QED
    BY <1>0, <1>1, <2>1, <2>3 DEF Answered, TypeOK
<1>5. ASSUME NEW t \in Threads, NEW m \in sent, Record(t, m) PROVE Answered'
  <2>1. CASE Answer(t, m, "error")
    BY <1>3, <1>5, <2>1 DEF Record
  <2>2. CASE ~m.approved /\ Answer(t, m, "ok")
    BY <1>0, <1>3, <1>5, <2>2 DEF Record, Messages
  <2>3. CASE UNCHANGED answer
    BY <1>2, <1>5, <2>3 DEF Record
  <2> QED
    BY <1>5, <2>1, <2>2, <2>3 DEF Record
<1>6. ASSUME NEW t \in Threads, Claim(t) PROVE Answered'
  <2>1. CASE Claimable(msg[t])
    BY <1>2, <1>6, <2>1 DEF Claim
  <2>2. CASE ~Claimable(msg[t])
    <3>1. PICK a \in {"ok", "error"} :
            Answer(t, msg[t], a) /\ (a = "ok" => OnFile(msg[t]))
      BY <1>6, <2>2 DEF Claim
    <3>2. OnFile(msg[t]) => grant[msg[t].inv].claimed
      BY <2>2 DEF Claimable
    <3> QED
      BY <1>3, <1>6, <3>1, <3>2 DEF Claim
  <2> QED
    BY <2>1, <2>2
<1>7. ASSUME NEW t \in Threads, Complete(t) PROVE Answered'
  <2>1. PICK a \in {"ok", "error"} :
          Answer(t, msg[t], a) /\ (a = "ok" => OnFile(msg[t]) /\ msg[t] # NoMsg)
    BY <1>7 DEF Complete
  <2>2. msg[t] # NoMsg => grant[msg[t].inv].claimed
    BY <1>0, <1>7 DEF Serving, Complete
  <2> QED
    BY <1>3, <1>7, <2>1, <2>2 DEF Complete
<1>8. ASSUME NEW m \in waiting, Store(m) \/ SenderDies(m) PROVE Answered'
  BY <1>2, <1>8 DEF Store, SenderDies
<1>9. ASSUME UNCHANGED <<waiting, answer>> PROVE Answered'
  BY <1>2, <1>9
<1> QED
  BY <1>4, <1>5, <1>6, <1>7, <1>8, <1>9
  DEF Next, vars, wireVars, Reject, Lapse, Age, AgentCalls, Gate, Dispatch, Restart

(***************************************************************************)
(* Only Claim starts a thread on a callback, and it finds no mark set.     *)
(***************************************************************************)
LEMMA NextOneResume == IInv /\ [Next]_vars => OneResume'
<1> SUFFICES ASSUME IInv, [Next]_vars PROVE OneResume'
  OBVIOUS
<1> DEFINE Resumes(p, m) == p \notin {"idle", "recorded"} /\ m # NoMsg
<1>0. TypeOK /\ OneResume /\ Serving
  BY DEF IInv
<1>1. ASSUME \A u \in Threads : Resumes(pc'[u], msg'[u]) =>
                                  Resumes(pc[u], msg[u]) /\ msg'[u] = msg[u]
      PROVE  OneResume'
  BY <1>0, <1>1 DEF OneResume
<1>2. ASSUME NEW t \in Threads, Claim(t) PROVE OneResume'
  <2>1. CASE Claimable(msg[t])
    <3>1. /\ \A u \in Threads : msg'[u] = msg[u] /\ (u # t => pc'[u] = pc[u])
          /\ ~grant[msg[t].inv].claimed
      BY <1>0, <1>2, <2>1 DEF Claim, Claimable, TypeOK
    <3>2. \A u \in Threads : u # t /\ Resumes(pc[u], msg[u]) => msg[u].inv # msg[t].inv
      BY <1>0, <3>1 DEF Serving
    <3> QED
      BY <1>0, <3>1, <3>2 DEF OneResume
  <2>2. CASE ~Claimable(msg[t])
    BY <1>0, <1>1, <1>2, <2>2 DEF Claim, Answer, TypeOK
  <2> QED
    BY <2>1, <2>2
<1>3. ASSUME NEW t \in Threads, NEW m \in sent, Record(t, m) PROVE OneResume'
  BY <1>0, <1>1, <1>3 DEF Record, Answer, TypeOK
<1>4. ASSUME NEW t \in Threads,
             Gate(t) \/ Dispatch(t) \/ Complete(t) \/ \E c \in Calls : AgentCalls(t, c)
      PROVE  OneResume'
  BY <1>0, <1>1, <1>4
  DEF Gate, Consume, Freeze, Push, Outright, Dispatch, Complete, Answer, AgentCalls, TypeOK
<1>5. CASE Restart
  BY <1>1, <1>5 DEF Restart
<1>6. ASSUME UNCHANGED threadVars PROVE OneResume'
  BY <1>1, <1>6 DEF threadVars
<1> QED
  BY <1>2, <1>3, <1>4, <1>5, <1>6
  DEF Next, vars, Approve, Reject, Lapse, Age, Store, SenderDies

LEMMA NextExecuted == IInv /\ GrantsFit /\ [Next]_vars => ExecutedIsOnFile'
<1> SUFFICES ASSUME IInv, GrantsFit, [Next]_vars, NEW i \in Invocations,
                    row'[i] = "executed"
             PROVE  /\ grant'[i].approved
                    /\ grant'[i].claimed
                    /\ grant'[i].exec = rowExec'[i]
  BY DEF ExecutedIsOnFile
<1>0. TypeOK /\ Messages /\ OnRecord /\ Answered /\ ExecutedIsOnFile /\ GrantMove(i)
  BY GrantMoves DEF IInv
<1>1. ASSUME grant[i].approved, grant[i].claimed, grant[i].exec = rowExec[i],
             rowExec'[i] = rowExec[i]
      PROVE  /\ grant'[i].approved
             /\ grant'[i].claimed
             /\ grant'[i].exec = rowExec'[i]
  BY <1>0, <1>1 DEF GrantMove, OnRecord, Present
<1>2. CASE row[i] = "executed"
  <2>1. rowExec'[i] = rowExec[i]
    BY <1>0, <1>2 DEF Next, vars, busVars, Approve, Reject, Lapse, Age, Store, SenderDies,
       Record, AgentCalls, Claim, Gate, Dispatch, Complete, Restart, TypeOK
  <2> QED
    BY <1>0, <1>1, <1>2, <2>1 DEF ExecutedIsOnFile
<1>3. CASE row[i] # "executed"
  <2>1. PICK m \in waiting : Store(m)
    BY <1>0, <1>3 DEF Next, vars, busVars, Approve, Reject, Lapse, Age, SenderDies,
       Record, AgentCalls, Claim, Gate, Consume, Freeze, Push, Outright, Dispatch, Complete,
       Restart, TypeOK
  <2>2. /\ i = m.inv /\ Owns(m)
        /\ answer[m.exec] = "ok" /\ rowExec' = rowExec
    BY <1>0, <1>3, <2>1 DEF Store, Outcomes, TypeOK
  <2>3. OnFile(m) /\ grant[m.inv].claimed
    BY <1>0, <2>1, <2>2 DEF Answered
  <2> QED
    BY <1>0, <1>1, <2>2, <2>3 DEF OnFile, Owns, OnRecord
<1> QED
  BY <1>2, <1>3

-----------------------------------------------------------------------------
(* The theorems.                                                           *)

LEMMA InitIInv == Init => IInv
<1> SUFFICES ASSUME Init PROVE IInv
  OBVIOUS
<1>1. TypeOK
  BY InitTypeOK
<1>2. Messages /\ OnRecord /\ Serving /\ Consumption /\ Answered
  BY DEF Init, Messages, OnRecord, Serving, Consumption, Answered, NoGrant, Replays
<1>3. RanOnce /\ OneResume /\ ExecutedIsOnFile
  BY DEF Init, RanOnce, OneResume, ExecutedIsOnFile
<1> QED
  BY <1>1, <1>2, <1>3 DEF IInv

(***************************************************************************)
(* With room for every grant, the inductive invariant always holds.        *)
(***************************************************************************)
THEOREM Invariance == GrantsFit => (Spec => []IInv)
<1> SUFFICES ASSUME GrantsFit PROVE Spec => []IInv
  OBVIOUS
<1>1. IInv /\ [Next]_vars => IInv'
  BY NextTypeOK, NextMessages, NextOnRecord, NextServing, NextConsumption, NextAnswered,
     NextOneResume, NextExecuted DEF IInv
<1> QED
  BY <1>1, InitIInv, PTL DEF Spec

(***************************************************************************)
(* One approval, one run: with room for every grant, the tool runs at most *)
(* once under each, for any number of invocations, calls and threads.      *)
(***************************************************************************)
THEOREM ToolRunsOnce == GrantsFit => (Spec => []RanOnce)
<1>1. IInv => RanOnce
  BY DEF IInv
<1> QED
  BY <1>1, Invariance, PTL

(***************************************************************************)
(* The tool runs only under the grant of an approved, claimed row.         *)
(***************************************************************************)
THEOREM ToolRunsApproved == GrantsFit => (Spec => []RunsAreApproved)
<1>1. IInv => RunsAreApproved
  BY DEF IInv, Consumption, OnRecord, RunsAreApproved
<1> QED
  BY <1>1, Invariance, PTL

(***************************************************************************)
(* No invocation is resumed by two threads.                                *)
(***************************************************************************)
THEOREM ResumedByOne == GrantsFit => (Spec => []OneResume)
<1>1. IInv => OneResume
  BY DEF IInv
<1> QED
  BY <1>1, Invariance, PTL

(***************************************************************************)
(* An executed row and the file name the same execution.                   *)
(***************************************************************************)
THEOREM PlanesAgree == GrantsFit => (Spec => []ExecutedIsOnFile)
<1>1. IInv => ExecutedIsOnFile
  BY DEF IInv
<1> QED
  BY <1>1, Invariance, PTL

=============================================================================
