---------------------------- MODULE PaymentsProofs ----------------------------
(* Proofs about Payments: for any amount, refunds, handlers and faults.    *)
EXTENDS Payments, TLAPS

USE PaymentsAssumption

HandlerInv == OneHandler /\ Handling /\ AcknowledgedIsApplied /\ OpenIsHeld
MoneyInv   == NotYetPaid /\ PaidIsReal /\ Fits /\ Backed /\ RecordedIsReturned

LEMMA Events ==
  /\ \A e \in Event : e.total \in 0..Amount /\ (e.type # "refunded" => e.total = 0)
                      /\ e.type \in Successes \cup {"payment_failed", "expired", "refunded"}
  /\ \A t \in Successes \cup {"payment_failed", "expired"} : [type |-> t, total |-> 0] \in Event
  /\ \A n \in 1..Amount : [type |-> "refunded", total |-> n] \in Event
BY DEF Event

LEMMA FaultTypes ==
  ASSUME TypeOK, Calm \/ Fault
  PROVE  faults' \in 0..MaxFaults
BY DEF TypeOK, Calm, Fault

-----------------------------------------------------------------------------
(* Webhook handlers.                                                       *)

LEMMA GotoTypes ==
  ASSUME TypeOK, NEW h \in Handlers, NEW p \in {"idle", "apply", "complete", "undo"},
         NEW e \in Event \cup {NoEvent}, Goto(h, p, e)
  PROVE  /\ hpc' \in [Handlers -> {"idle", "apply", "complete", "undo"}]
         /\ hev' \in [Handlers -> Event \cup {NoEvent}]
         /\ hpc'[h] = p /\ hev'[h] = e
         /\ \A g \in Handlers \ {h} : hpc'[g] = hpc[g] /\ hev'[g] = hev[g]
BY DEF TypeOK, Goto

(***************************************************************************)
(* A busy handler goes on with the event it has.  It marks its receipt     *)
(* processed only when the event is applied, gives it back only when it    *)
(* lets go of the event, and keeps it open only if the event is orphaned.  *)
(***************************************************************************)
LEMMA HandlerGoesOn ==
  ASSUME TypeOK, HandlerInv, NEW h \in Handlers, hpc[h] # "idle",
         NEW p \in {"idle", "apply", "complete", "undo"},
         Goto(h, p, IF p = "idle" THEN NoEvent ELSE hev[h]),
         receipt' \in [Event -> {"none", "open", "processed"}],
         events' = events, applied \subseteq applied', orphaned \subseteq orphaned',
         p = "complete" => hev[h] \in applied',
         \A e \in Event : e # hev[h] => receipt'[e] = receipt[e],
         receipt'[hev[h]] = "processed" => hev[h] \in applied',
         receipt'[hev[h]] = "none" => p = "idle",
         receipt'[hev[h]] = "open" /\ p = "idle" => hev[h] \in orphaned'
  PROVE  HandlerInv'
<1> DEFINE e == hev[h]
<1>1. e \in Event /\ e # NoEvent /\ e \in events
  BY Events DEF TypeOK, HandlerInv, Handling
<1>2. /\ hpc'[h] = p /\ hev'[h] = (IF p = "idle" THEN NoEvent ELSE e)
      /\ \A g \in Handlers \ {h} : hpc'[g] = hpc[g] /\ hev'[g] = hev[g]
  BY <1>1, GotoTypes DEF TypeOK
<1>3. \A g \in Handlers \ {h} : hev[g] # e
  BY <1>1 DEF HandlerInv, OneHandler
<1>4. OneHandler'
  BY <1>2, <1>3 DEF HandlerInv, OneHandler
<1>5. Handling'
  <2> SUFFICES ASSUME NEW g \in Handlers
               PROVE  /\ hpc'[g] = "idle" <=> hev'[g] = NoEvent
                      /\ hev'[g] # NoEvent => hev'[g] \in events' /\ receipt'[hev'[g]] # "none"
                      /\ hpc'[g] = "complete" => hev'[g] \in applied'
    BY DEF Handling
  <2>1. CASE g = h
    BY <2>1, <1>1, <1>2
  <2>2. CASE g # h
    <3>1. hev[g] \in Event \cup {NoEvent} /\ hev[g] # e
      BY <2>2, <1>3 DEF TypeOK
    <3> QED
      BY <3>1, <2>2, <1>2 DEF HandlerInv, Handling
  <2> QED
    BY <2>1, <2>2
<1>6. AcknowledgedIsApplied'
  BY <1>1 DEF HandlerInv, AcknowledgedIsApplied
<1>7. OpenIsHeld'
  <2> SUFFICES ASSUME NEW d \in Event, receipt'[d] = "open"
               PROVE  d \in orphaned' \/ \E g \in Handlers : hev'[g] = d
    BY DEF OpenIsHeld
  <2>1. CASE d = e
    BY <2>1, <1>2
  <2>2. CASE d # e
    BY <2>2, <1>2, <1>1 DEF HandlerInv, OpenIsHeld
  <2> QED
    BY <2>1, <2>2
<1> QED
  BY <1>4, <1>5, <1>6, <1>7 DEF HandlerInv

(* Who is no handler only adds events.                                     *)
LEMMA HandlersStay ==
  ASSUME HandlerInv, UNCHANGED handlerVars, events \subseteq events'
  PROVE  HandlerInv'
BY DEF HandlerInv, OneHandler, Handling, AcknowledgedIsApplied, OpenIsHeld, handlerVars

LEMMA HandleKeeps ==
  ASSUME TypeOK, HandlerInv, NEW h \in Handlers, Handle(h)
  PROVE  HandlerInv'
<1>1. ASSUME NEW e \in Event, Receive(h, e) PROVE HandlerInv'
  <2>1. /\ e \in events /\ events' = events /\ applied' = applied /\ orphaned' = orphaned
        /\ receipt[e] = "none" /\ hpc[h] = "idle" /\ e # NoEvent
    BY <1>1 DEF Receive, Fresh, Webhook, stripeVars
  <2>2. /\ receipt'[e] = "open"
        /\ \A d \in Event \ {e} : receipt'[d] = receipt[d]
    BY <1>1 DEF Receive, TypeOK
  <2>3. /\ hpc'[h] = "apply" /\ hev'[h] = e
        /\ \A g \in Handlers \ {h} : hpc'[g] = hpc[g] /\ hev'[g] = hev[g]
    BY <1>1, GotoTypes DEF Receive
  <2>4. \A g \in Handlers : hev[g] # e
    BY <2>1 DEF HandlerInv, Handling
  <2>5. OneHandler'
    BY <2>3, <2>4 DEF HandlerInv, OneHandler
  <2>6. Handling'
    <3> SUFFICES ASSUME NEW g \in Handlers
                 PROVE  /\ hpc'[g] = "idle" <=> hev'[g] = NoEvent
                        /\ hev'[g] # NoEvent => hev'[g] \in events' /\ receipt'[hev'[g]] # "none"
                        /\ hpc'[g] = "complete" => hev'[g] \in applied'
      BY DEF Handling
    <3>1. CASE g = h
      BY <3>1, <2>1, <2>2, <2>3
    <3>2. CASE g # h
      <4>1. hev[g] \in Event \cup {NoEvent} /\ hev[g] # e
        BY <2>4 DEF TypeOK
      <4> QED
        BY <4>1, <3>2, <2>1, <2>2, <2>3 DEF HandlerInv, Handling
    <3> QED
      BY <3>1, <3>2
  <2>7. AcknowledgedIsApplied'
    BY <2>1, <2>2 DEF HandlerInv, AcknowledgedIsApplied
  <2>8. OpenIsHeld'
    <3> SUFFICES ASSUME NEW d \in Event, receipt'[d] = "open"
                 PROVE  d \in orphaned' \/ \E g \in Handlers : hev'[g] = d
      BY DEF OpenIsHeld
    <3>1. CASE d = e
      BY <3>1, <2>3
    <3>2. CASE d # e
      <4>1. hev[h] # d
        BY <2>1, <3>2 DEF HandlerInv, Handling
      <4> QED
        BY <4>1, <3>2, <2>1, <2>2, <2>3 DEF HandlerInv, OpenIsHeld
    <3> QED
      BY <3>1, <3>2
  <2> QED
    BY <2>5, <2>6, <2>7, <2>8 DEF HandlerInv
<1>2. hpc[h] # "idle" => hev[h] \in Event /\ receipt[hev[h]] \in {"open", "processed"}
                         /\ (receipt[hev[h]] = "processed" => hev[h] \in applied)
                         /\ (hpc[h] = "complete" => hev[h] \in applied)
  BY DEF TypeOK, HandlerInv, Handling, AcknowledgedIsApplied
<1>3. CASE Apply(h)
  BY <1>2, <1>3, HandlerGoesOn DEF Apply, Applied, Webhook, stripeVars, TypeOK
<1>4. CASE ApplyFails(h)
  BY <1>2, <1>4, HandlerGoesOn DEF ApplyFails, AfterFailedUpdate, Webhook, stripeVars, TypeOK
<1>5. CASE Complete(h)
  BY <1>2, <1>5, HandlerGoesOn DEF Complete, Processed, Webhook, stripeVars, TypeOK
<1>6. CASE CompleteFails(h)
  BY <1>2, <1>6, HandlerGoesOn DEF CompleteFails, Processed, Webhook, stripeVars, TypeOK
<1>7. CASE Undo(h)
  BY <1>2, <1>7, HandlerGoesOn DEF Undo, Release, Webhook, stripeVars, TypeOK
<1>8. CASE HandlerDies(h)
  BY <1>2, <1>8, HandlerGoesOn DEF HandlerDies, Webhook, stripeVars, TypeOK
<1> QED
  BY <1>1, <1>3, <1>4, <1>5, <1>6, <1>7, <1>8 DEF Handle

-----------------------------------------------------------------------------
(* Money.                                                                  *)

Claiming == {"paid", "partially_refunded", "refunded"}

(***************************************************************************)
(* A step keeps what is said before the customer has paid, if whatever it  *)
(* adds that says otherwise comes with an intent that has succeeded.       *)
(***************************************************************************)
LEMMA Unpaid ==
  ASSUME TypeOK, NotYetPaid, PaidIsReal,
         intent = "succeeded" => intent' = "succeeded",
         checkout' \in {"none", "call"} => checkout \in {"none", "call"} /\ intent' = intent,
         status' \in Claiming => status \in Claiming \/ intent' = "succeeded",
         fetched' = "succeeded" => fetched = "succeeded" \/ intent' = "succeeded",
         \A e \in events' : e \in events \/ e.type \in {"payment_failed", "expired"} \/ intent' = "succeeded",
         \A a \in Refunds : rpc'[a] \in {"call", "persist"} =>
                             rpc[a] \in {"call", "persist"} \/ intent' = "succeeded"
  PROVE  NotYetPaid' /\ PaidIsReal'
BY DEF NotYetPaid, PaidIsReal, Claiming

(***************************************************************************)
(* A step keeps what is said of refunds, if those it leaves under way were *)
(* under way and it takes nothing back from Stripe.                        *)
(***************************************************************************)
LEMMA RefundsStay ==
  ASSUME TypeOK, Fits, Backed, RecordedIsReturned,
         UNCHANGED <<returned, keys, refundVars>>,
         \A e \in events' : e \in events \/ e.total = 0,
         refunded' = refunded \/ refunded' <= returned
  PROVE  Fits' /\ Backed' /\ RecordedIsReturned'
<1>1. UNCHANGED <<rpc, base, repeated>>
  BY DEF refundVars
<1>2. \A a \in Refunds : Due(a)' = Due(a)
  BY <1>1 DEF Due, Wanted
<1>3. Fits'
  BY <1>1, <1>2 DEF Fits
<1>4. Backed'
  BY <1>1, <1>2 DEF Backed, TypeOK
<1>5. RecordedIsReturned'
  BY <1>1 DEF RecordedIsReturned
<1> QED
  BY <1>3, <1>4, <1>5

LEMMA StripeKeeps ==
  ASSUME TypeOK, MoneyInv, Process \/ Pay \/ Decline \/ SessionExpires
  PROVE  TypeOK' /\ MoneyInv'
<1>1. /\ UNCHANGED <<rowVars, checkout, returned, keys, handlerVars, refundVars, fetched>>
      /\ faults' \in 0..MaxFaults
      /\ intent \in Open
      /\ intent' \in Open \cup {"succeeded", "canceled"}
      /\ events' \subseteq Event
      /\ \A e \in events' : e \in events \/ e.total = 0
      /\ \A e \in events' : \/ e \in events \/ e.type \in {"payment_failed", "expired"}
                           \/ intent' = "succeeded"
  BY FaultTypes, Events DEF Process, Pay, Decline, SessionExpires, Stripe, Emit, Open, TypeOK
<1>2. TypeOK'
  BY <1>1 DEF TypeOK, rowVars, handlerVars, refundVars
<1>3. NotYetPaid' /\ PaidIsReal'
  BY <1>1, Unpaid DEF MoneyInv, rowVars, refundVars, NotYetPaid, Open
<1>4. Fits' /\ Backed' /\ RecordedIsReturned'
  BY <1>1, RefundsStay DEF MoneyInv, rowVars
<1> QED
  BY <1>2, <1>3, <1>4 DEF MoneyInv

LEMMA CheckoutKeeps ==
  ASSUME TypeOK, MoneyInv,
         \/ InsertPayment \/ CreateSession \/ SessionFails
         \/ UpdatePayment \/ UpdatePaymentFails \/ FailPayment \/ CheckoutDies
  PROVE  TypeOK' /\ MoneyInv'
<1>1. /\ UNCHANGED <<refunded, returned, keys, events, handlerVars, refundVars, fetched>>
      /\ faults' \in 0..MaxFaults
      /\ checkout' \in {"call", "update", "fail", "done"}
      /\ checkout' = "call" => checkout = "none" /\ intent' = intent
      /\ intent' = intent \/ (checkout = "call" /\ intent' \in {"none", "requires_payment_method"})
      /\ status' = status \/ status' \in {"pending", "requires_payment_method", "failed"}
      /\ ref' \in BOOLEAN
  <2>1. CASE InsertPayment
    BY <2>1, FaultTypes DEF InsertPayment, Checkout, TypeOK
  <2>2. CASE CreateSession
    BY <2>2, FaultTypes DEF CreateSession, Checkout, TypeOK
  <2>3. CASE SessionFails
    BY <2>3, FaultTypes DEF SessionFails, Checkout, TypeOK
  <2>4. CASE UpdatePayment
    BY <2>4, FaultTypes DEF UpdatePayment, Checkout, TypeOK
  <2>5. CASE UpdatePaymentFails
    BY <2>5, FaultTypes DEF UpdatePaymentFails, Checkout, TypeOK
  <2>6. CASE FailPayment
    BY <2>6, FaultTypes DEF FailPayment, Checkout, TypeOK
  <2>7. CASE CheckoutDies
    BY <2>7, FaultTypes DEF CheckoutDies, Checkout, TypeOK
  <2> QED
    BY <2>1, <2>2, <2>3, <2>4, <2>5, <2>6, <2>7
<1>2. TypeOK'
  BY <1>1 DEF TypeOK, Statuses, Open, handlerVars, refundVars
<1>3. NotYetPaid' /\ PaidIsReal'
  BY <1>1, Unpaid DEF MoneyInv, NotYetPaid, refundVars, Claiming
<1>4. Fits' /\ Backed' /\ RecordedIsReturned'
  BY <1>1, RefundsStay DEF MoneyInv
<1> QED
  BY <1>2, <1>3, <1>4 DEF MoneyInv

LEMMA WebhookKeeps ==
  ASSUME TypeOK, HandlerInv, MoneyInv, NEW h \in Handlers, Handle(h)
  PROVE  TypeOK' /\ MoneyInv'
<1>1. /\ UNCHANGED <<checkout, stripeVars, refundVars, fetched>>
      /\ faults' \in 0..MaxFaults
  BY FaultTypes DEF Handle, Receive, Apply, ApplyFails, Complete, CompleteFails, Undo, HandlerDies, Webhook
<1>2. hpc[h] # "idle" => hev[h] \in Event /\ hev[h] \in events
  BY DEF HandlerInv, Handling, TypeOK
<1>3. UNCHANGED rowVars \/ (Applied(hev[h]) /\ hpc[h] # "idle")
  BY DEF Handle, Receive, Apply, ApplyFails, Complete, CompleteFails, Undo, HandlerDies
<1>4. /\ status' \in Statuses /\ ref' \in BOOLEAN /\ refunded' \in 0..Amount
      /\ status' \in Claiming => status \in Claiming \/ intent = "succeeded"
      /\ refunded' = refunded \/ refunded' <= returned
  <2>1. CASE UNCHANGED rowVars
    BY <2>1 DEF rowVars, TypeOK
  <2>2. CASE Applied(hev[h]) /\ hpc[h] # "idle"
    <3>1. ref' \in BOOLEAN
      BY <2>2 DEF Applied, TypeOK
    <3>2. status' \in Statuses /\ (status' \in Claiming => hev[h].type \in Successes \cup {"refunded"})
      BY <2>2, <1>2, Events DEF Applied, Statuses, Claiming
    <3>3. hev[h].type \in Successes \cup {"refunded"} => intent = "succeeded"
      BY <2>2, <1>2 DEF MoneyInv, NotYetPaid
    <3>4. hev[h].total \in 0..Amount /\ hev[h].total <= returned
      BY <2>2, <1>2, Events DEF MoneyInv, Backed
    <3>5. refunded' \in 0..Amount /\ (refunded' = refunded \/ refunded' <= returned)
      BY <2>2, <3>4 DEF Applied, RefundedTotal, TypeOK
    <3> QED
      BY <3>1, <3>2, <3>3, <3>5
  <2> QED
    BY <1>3, <2>1, <2>2
<1>5. /\ receipt' \in [Event -> {"none", "open", "processed"}]
      /\ applied' \subseteq Event /\ orphaned' \subseteq Event
      /\ \E p \in {"idle", "apply", "complete", "undo"}, e \in Event \cup {NoEvent} : Goto(h, p, e)
  BY <1>2 DEF Handle, Receive, Apply, ApplyFails, AfterFailedUpdate, Complete, CompleteFails, Undo,
     HandlerDies, Processed, Release, TypeOK
<1>6. /\ hpc' \in [Handlers -> {"idle", "apply", "complete", "undo"}]
      /\ hev' \in [Handlers -> Event \cup {NoEvent}]
  BY <1>5, GotoTypes
<1>7. TypeOK'
  BY <1>1, <1>4, <1>5, <1>6 DEF TypeOK, stripeVars, refundVars
<1>8. NotYetPaid' /\ PaidIsReal'
  BY <1>1, <1>4, Unpaid DEF MoneyInv, stripeVars, refundVars
<1>9. Fits' /\ Backed' /\ RecordedIsReturned'
  BY <1>1, <1>4, RefundsStay DEF MoneyInv, stripeVars
<1> QED
  BY <1>7, <1>8, <1>9 DEF MoneyInv

LEMMA ReconcileKeeps ==
  ASSUME TypeOK, MoneyInv, RetrieveIntent \/ UpdateReconciled
  PROVE  TypeOK' /\ MoneyInv'
<1>1. /\ UNCHANGED <<ref, refunded, checkout, stripeVars, handlerVars, refundVars>>
      /\ faults' \in 0..MaxFaults
      /\ fetched' \in {"none", intent}
      /\ status' \in Statuses
      /\ status' = status \/ (status' = "paid" => fetched = "succeeded")
      /\ status' = status \/ status' \in {"paid", "cancelled", "failed", "processing"}
  BY FaultTypes DEF RetrieveIntent, UpdateReconciled, Reconcile, MapStripePaymentStatus,
     Open, TypeOK, Statuses
<1>2. TypeOK'
  BY <1>1 DEF TypeOK, stripeVars, handlerVars, refundVars
<1>3. NotYetPaid' /\ PaidIsReal'
  BY <1>1, Unpaid DEF MoneyInv, NotYetPaid, stripeVars, refundVars, Claiming
<1>4. Fits' /\ Backed' /\ RecordedIsReturned'
  BY <1>1, RefundsStay DEF MoneyInv, stripeVars
<1> QED
  BY <1>2, <1>3, <1>4 DEF MoneyInv

-----------------------------------------------------------------------------
(* The execution of refunds.                                               *)

RefundPc == {"none", "approved", "call", "persist", "done", "failed"}

LEMMA RefundGoes ==
  ASSUME TypeOK, NEW a \in Refunds, NEW p \in RefundPc, NEW q \in RefundPc, Refund(a, p, q)
  PROVE  /\ UNCHANGED <<checkout, handlerVars, fetched>>
         /\ rpc' \in [Refunds -> RefundPc] /\ rpc[a] = p /\ rpc'[a] = q
         /\ \A b \in Refunds \ {a} : rpc'[b] = rpc[b]
BY DEF TypeOK, Refund, RefundPc

(***************************************************************************)
(* A refund is requested, rejected or let go: what it leaves under way was *)
(* under way.                                                              *)
(***************************************************************************)
LEMMA RefundRests ==
  ASSUME TypeOK, MoneyInv, NEW a \in Refunds, NEW p \in RefundPc,
         NEW q \in {"approved", "failed", "done"}, Refund(a, p, q),
         UNCHANGED <<rowVars, stripeVars, base>>, faults' \in 0..MaxFaults,
         repeated' = repeated \/ repeated' = repeated \cup {a},
         keys[a] # 0 => q # "approved" \/ a \in repeated'
  PROVE  TypeOK' /\ MoneyInv'
<1>1. /\ UNCHANGED <<checkout, handlerVars, fetched>>
      /\ rpc' \in [Refunds -> RefundPc] /\ rpc[a] = p /\ rpc'[a] = q
      /\ \A b \in Refunds \ {a} : rpc'[b] = rpc[b]
  BY RefundGoes DEF RefundPc
<1>2. TypeOK'
  BY <1>1 DEF TypeOK, RefundPc, rowVars, stripeVars, handlerVars
<1>3. \A b \in Refunds : Due(b)' = Due(b)
  BY DEF Due, Wanted
<1>4. NotYetPaid' /\ PaidIsReal'
  BY <1>1, Unpaid DEF MoneyInv, rowVars, stripeVars
<1>5. \A b \in Refunds : rpc'[b] \in {"call", "persist"} => rpc'[b] = rpc[b]
  BY <1>1
<1>6. Fits'
  BY <1>3, <1>5 DEF MoneyInv, Fits
<1>7. \A b \in Refunds : keys[b] # 0 => rpc'[b] \in {"persist", "done", "failed"} \/ b \in repeated'
  BY <1>1 DEF MoneyInv, Backed
<1>8. repeated' = {} => repeated = {}
  OBVIOUS
<1>9. Backed'
  BY <1>3, <1>5, <1>7, <1>8 DEF MoneyInv, Backed, stripeVars
<1>10. RecordedIsReturned'
  BY <1>8 DEF MoneyInv, RecordedIsReturned, rowVars, stripeVars
<1> QED
  BY <1>2, <1>4, <1>6, <1>9, <1>10 DEF MoneyInv

LEMMA ReadPaymentKeeps ==
  ASSUME TypeOK, MoneyInv, NEW a \in Refunds, ReadPayment(a)
  PROVE  TypeOK' /\ MoneyInv'
<1>1. /\ UNCHANGED <<checkout, handlerVars, fetched, rowVars, stripeVars, repeated>>
      /\ rpc' \in [Refunds -> RefundPc] /\ rpc[a] = "approved" /\ rpc'[a] = "call"
      /\ \A b \in Refunds \ {a} : rpc'[b] = rpc[b]
      /\ faults' \in 0..MaxFaults
  BY RefundGoes, FaultTypes DEF ReadPayment, RefundPc
<1>2. /\ base' \in [Refunds -> 0..Amount] /\ base'[a] = refunded
      /\ \A b \in Refunds \ {a} : base'[b] = base[b]
  BY DEF ReadPayment, TypeOK
<1>3. intent = "succeeded"
  BY DEF ReadPayment, Refundable, MoneyInv, PaidIsReal
<1>4. TypeOK'
  BY <1>1, <1>2 DEF TypeOK, RefundPc, rowVars, stripeVars, handlerVars
<1>5. NotYetPaid' /\ PaidIsReal'
  BY <1>1, <1>3, Unpaid DEF MoneyInv, rowVars, stripeVars
<1>6. /\ Due(a)' \in 1..(Amount - base'[a])
      /\ \A b \in Refunds \ {a} : Due(b)' = Due(b)
  BY <1>2 DEF ReadPayment, Affordable, Remaining, Due, Wanted
<1>7. Fits'
  BY <1>1, <1>2, <1>6 DEF MoneyInv, Fits
<1>8. \A b \in Refunds : keys[b] # 0 => rpc'[b] \in {"persist", "done", "failed"} \/ b \in repeated
  BY <1>1 DEF MoneyInv, Backed
<1>9. repeated = {} => base'[a] <= returned
  BY <1>2 DEF MoneyInv, RecordedIsReturned
<1>10. Backed'
  BY <1>1, <1>2, <1>6, <1>8, <1>9 DEF MoneyInv, Backed, stripeVars
<1>11. RecordedIsReturned'
  BY <1>1 DEF MoneyInv, RecordedIsReturned, rowVars, stripeVars
<1> QED
  BY <1>4, <1>5, <1>7, <1>10, <1>11 DEF MoneyInv

(* Stripe makes the refund of a, or has made it, whoever hears the answer. *)
LEMMA StripeAnswers ==
  ASSUME TypeOK, MoneyInv, NEW a \in Refunds, NEW q \in {"persist", "failed"},
         Refund(a, "call", q), Accepts(a), MakeRefund(a),
         UNCHANGED <<rowVars, base, repeated>>, faults' \in 0..MaxFaults
  PROVE  TypeOK' /\ MoneyInv'
<1>1. /\ UNCHANGED <<checkout, handlerVars, fetched>>
      /\ rpc' \in [Refunds -> RefundPc] /\ rpc[a] = "call" /\ rpc'[a] = q
      /\ \A b \in Refunds \ {a} : rpc'[b] = rpc[b]
  BY RefundGoes DEF RefundPc
<1>2. /\ Due(a) \in 1..(Amount - base[a]) /\ base[a] \in 0..Amount
      /\ \A b \in Refunds : Due(b)' = Due(b)
      /\ intent = "succeeded" /\ returned \in 0..Amount
  BY <1>1 DEF MoneyInv, Fits, NotYetPaid, Due, Wanted, TypeOK
<1>3. /\ intent' = intent
      /\ returned' \in returned..Amount
      /\ keys' \in [Refunds -> 0..Amount] /\ \A b \in Refunds \ {a} : keys'[b] = keys[b]
      /\ keys[a] # 0 => returned' = returned
      /\ keys[a] = 0 => returned' = returned + Due(a)
      /\ events' \subseteq Event
      /\ \A e \in events' : e \in events \/ e.total = returned'
  <2>1. CASE keys[a] # 0
    BY <2>1, <1>2 DEF MakeRefund, stripeVars, TypeOK
  <2>2. CASE keys[a] = 0
    <3>1. returned' = returned + Due(a) /\ returned' \in 1..Amount /\ returned' \in returned..Amount
      BY <2>2, <1>2 DEF MakeRefund, Accepts
    <3>2. /\ keys' \in [Refunds -> 0..Amount] /\ \A b \in Refunds \ {a} : keys'[b] = keys[b]
          /\ intent' = intent
          /\ events' = events \cup {[type |-> "refunded", total |-> returned']}
      BY <2>2, <1>2 DEF MakeRefund, Emit, TypeOK
    <3> QED
      BY <2>2, <3>1, <3>2, Events DEF TypeOK
  <2> QED
    BY <2>1, <2>2
<1>4. TypeOK'
  BY <1>1, <1>2, <1>3 DEF TypeOK, RefundPc, rowVars, handlerVars
<1>5. NotYetPaid' /\ PaidIsReal'
  BY <1>1, <1>2, <1>3, Unpaid DEF MoneyInv, rowVars
<1>6. Fits'
  BY <1>1, <1>2 DEF MoneyInv, Fits
<1>7. \A e \in events' : e.total <= returned'
  <2>1. \A e \in events : e.total \in 0..Amount /\ e.total <= returned
    BY Events DEF MoneyInv, Backed, TypeOK
  <2> QED
    BY <1>2, <1>3, <2>1
<1>8. \A b \in Refunds : keys'[b] # 0 => rpc'[b] \in {"persist", "done", "failed"} \/ b \in repeated'
  BY <1>1, <1>3 DEF MoneyInv, Backed
<1>9. ASSUME repeated' = {}, NEW b \in Refunds
      PROVE  /\ rpc'[b] = "call" => base'[b] <= returned'
             /\ rpc'[b] = "persist" => base'[b] + Due(b)' <= returned'
  <2>1. CASE b = a
    <3>1. keys[a] = 0 /\ base[a] <= returned
      BY <1>1, <1>9 DEF MoneyInv, Backed
    <3> QED
      BY <2>1, <3>1, <1>1, <1>2, <1>3
  <2>2. CASE b # a
    <3>1. /\ rpc[b] = "call" => base[b] <= returned
          /\ rpc[b] = "persist" => base[b] + Due(b) <= returned /\ Due(b) \in 1..(Amount - base[b])
          /\ base[b] \in 0..Amount
      BY <1>9 DEF MoneyInv, Backed, Fits, TypeOK
    <3> QED
      BY <2>2, <3>1, <1>1, <1>2, <1>3
  <2> QED
    BY <2>1, <2>2
<1>10. Backed'
  BY <1>7, <1>8, <1>9 DEF Backed
<1>11. RecordedIsReturned'
  BY <1>2, <1>3 DEF MoneyInv, RecordedIsReturned, rowVars, TypeOK
<1> QED
  BY <1>4, <1>5, <1>6, <1>10, <1>11 DEF MoneyInv

LEMMA PersistKeeps ==
  ASSUME TypeOK, MoneyInv, NEW a \in Refunds, Persist(a)
  PROVE  TypeOK' /\ MoneyInv'
<1>1. /\ UNCHANGED <<checkout, handlerVars, fetched, ref, stripeVars, base, repeated>>
      /\ rpc' \in [Refunds -> RefundPc] /\ rpc[a] = "persist" /\ rpc'[a] = "done"
      /\ \A b \in Refunds \ {a} : rpc'[b] = rpc[b]
      /\ faults' \in 0..MaxFaults
  BY RefundGoes, FaultTypes DEF Persist, RefundPc
<1>2. /\ Due(a) \in 1..(Amount - base[a]) /\ base[a] \in 0..Amount
      /\ \A b \in Refunds : Due(b)' = Due(b)
      /\ intent = "succeeded"
      /\ repeated = {} => base[a] + Due(a) <= returned
  BY <1>1 DEF MoneyInv, Fits, Backed, NotYetPaid, Due, Wanted, TypeOK
<1>3. /\ refunded' = refunded \/ refunded' = base[a] + Due(a)
      /\ status' = status \/ status' \in {"refunded", "partially_refunded"}
  BY DEF Persist
<1>4. base[a] + Due(a) \in 0..Amount
  BY <1>2
<1>5. TypeOK'
  BY <1>1, <1>3, <1>4 DEF TypeOK, RefundPc, Statuses, stripeVars, handlerVars
<1>6. NotYetPaid' /\ PaidIsReal'
  BY <1>1, <1>2, Unpaid DEF MoneyInv, stripeVars
<1>7. Fits'
  BY <1>1, <1>2 DEF MoneyInv, Fits
<1>8. \A b \in Refunds : keys[b] # 0 => rpc'[b] \in {"persist", "done", "failed"} \/ b \in repeated
  BY <1>1 DEF MoneyInv, Backed
<1>9. Backed'
  BY <1>1, <1>2, <1>8 DEF MoneyInv, Backed, stripeVars
<1>10. RecordedIsReturned'
  BY <1>1, <1>2, <1>3 DEF MoneyInv, RecordedIsReturned, stripeVars
<1> QED
  BY <1>5, <1>6, <1>7, <1>9, <1>10 DEF MoneyInv

LEMMA ExecuteKeeps ==
  ASSUME TypeOK, MoneyInv, NEW a \in Refunds, Execute(a)
  PROVE  TypeOK' /\ MoneyInv'
<1>1. keys[a] # 0 /\ rpc[a] \in {"none", "approved"} => a \in repeated
  BY DEF MoneyInv, Backed
<1>2. CASE Request(a)
  BY <1>1, <1>2, RefundRests, FaultTypes DEF Request, RefundPc, Refund
<1>3. CASE ReadPayment(a)
  BY <1>3, ReadPaymentKeeps
<1>4. CASE Reject(a)
  BY <1>4, RefundRests, FaultTypes DEF Reject, RefundPc
<1>5. CASE CallStripe(a)
  BY <1>5, StripeAnswers, FaultTypes DEF CallStripe
<1>6. CASE StripeRefuses(a)
  <2>1. CASE Accepts(a) /\ MakeRefund(a) /\ Fault
    BY <1>6, <2>1, StripeAnswers, FaultTypes DEF StripeRefuses
  <2>2. CASE UNCHANGED stripeVars /\ Calm
    BY <1>6, <2>2, RefundRests, FaultTypes DEF StripeRefuses, RefundPc
  <2> QED
    BY <1>6, <2>1, <2>2 DEF StripeRefuses
<1>7. CASE Persist(a)
  BY <1>7, PersistKeeps
<1>8. CASE PersistFails(a)
  BY <1>8, RefundRests, FaultTypes DEF PersistFails, RefundPc
<1>9. CASE ExecutorDies(a)
  BY <1>9, RefundRests, FaultTypes DEF ExecutorDies, RefundPc
<1> QED
  BY <1>2, <1>3, <1>4, <1>5, <1>6, <1>7, <1>8, <1>9 DEF Execute

-----------------------------------------------------------------------------
LEMMA InitIInv ==
  ASSUME Init
  PROVE  IInv
<1>1. TypeOK
  <2>1. 0 \in 0..Amount /\ 0 \in 0..MaxFaults
    OBVIOUS
  <2>2. /\ receipt \in [Event -> {"none", "open", "processed"}]
        /\ hpc \in [Handlers -> {"idle", "apply", "complete", "undo"}]
        /\ hev \in [Handlers -> Event \cup {NoEvent}]
        /\ rpc \in [Refunds -> {"none", "approved", "call", "persist", "done", "failed"}]
    BY DEF Init
  <2>3. keys \in [Refunds -> 0..Amount] /\ base \in [Refunds -> 0..Amount]
    BY <2>1 DEF Init
  <2> QED
    BY <2>1, <2>2, <2>3 DEF Init, TypeOK, Statuses
<1>2. HandlerInv
  BY DEF Init, HandlerInv, OneHandler, Handling, AcknowledgedIsApplied, OpenIsHeld
<1>3. MoneyInv
  BY DEF Init, MoneyInv, NotYetPaid, PaidIsReal, Fits, Backed, RecordedIsReturned
<1> QED
  BY <1>1, <1>2, <1>3 DEF IInv, HandlerInv, MoneyInv

LEMMA NextIInv ==
  ASSUME IInv, [Next]_vars
  PROVE  IInv'
<1> USE DEF IInv
<1>1. TypeOK /\ HandlerInv /\ MoneyInv
  BY DEF HandlerInv, MoneyInv
<1>2. CASE Process \/ Pay \/ Decline \/ SessionExpires
  <2>1. HandlerInv'
    BY <1>1, <1>2, HandlersStay DEF Process, Pay, Decline, SessionExpires, Stripe, Emit
  <2> QED
    BY <1>1, <1>2, <2>1, StripeKeeps DEF HandlerInv, MoneyInv
<1>3. CASE \/ InsertPayment \/ CreateSession \/ SessionFails
           \/ UpdatePayment \/ UpdatePaymentFails \/ FailPayment \/ CheckoutDies
  <2>1. HandlerInv'
    BY <1>1, <1>3, HandlersStay DEF InsertPayment, CreateSession, SessionFails, UpdatePayment,
       UpdatePaymentFails, FailPayment, CheckoutDies, Checkout
  <2> QED
    BY <1>1, <1>3, <2>1, CheckoutKeeps DEF HandlerInv, MoneyInv
<1>4. ASSUME NEW h \in Handlers, Handle(h)
      PROVE  IInv'
  BY <1>1, <1>4, HandleKeeps, WebhookKeeps DEF HandlerInv, MoneyInv
<1>5. ASSUME NEW a \in Refunds, Execute(a)
      PROVE  IInv'
  <2>1. UNCHANGED handlerVars /\ events \subseteq events'
    BY <1>5 DEF Execute, Request, ReadPayment, Reject, CallStripe, StripeRefuses, Persist,
       PersistFails, ExecutorDies, Refund, MakeRefund, Emit, stripeVars
  <2>2. HandlerInv'
    BY <1>1, <2>1, HandlersStay
  <2> QED
    BY <1>1, <1>5, <2>2, ExecuteKeeps DEF HandlerInv, MoneyInv
<1>6. CASE RetrieveIntent \/ UpdateReconciled
  <2>1. HandlerInv'
    BY <1>1, <1>6, HandlersStay DEF RetrieveIntent, UpdateReconciled, Reconcile, stripeVars
  <2> QED
    BY <1>1, <1>6, <2>1, ReconcileKeeps DEF HandlerInv, MoneyInv
<1>7. CASE UNCHANGED vars
  BY <1>7 DEF vars, rowVars, stripeVars, handlerVars, refundVars, TypeOK, OneHandler, Handling,
     AcknowledgedIsApplied, OpenIsHeld, NotYetPaid, PaidIsReal, Fits, Backed, Due, Wanted, RecordedIsReturned
<1> QED
  BY <1>2, <1>3, <1>4, <1>5, <1>6, <1>7 DEF Next

(***************************************************************************)
(* The receipts exclude, the row is backed by what Stripe has received and *)
(* returned, and every write under way is: the invariant that the webhook  *)
(* and the money operations (payments/webhooks, checkout, reconcile,       *)
(* executeFrozenApproval) keep together.                                   *)
(***************************************************************************)
THEOREM Invariance == Spec => []IInv
<1> QED
  BY InitIInv, NextIInv, PTL DEF Spec

(***************************************************************************)
(* However many handlers, refunds and faults there are, the payment's row  *)
(* stays typed: what it records as refunded is never more than its amount. *)
(***************************************************************************)
THEOREM TypeCorrect == Spec => []TypeOK
<1>1. IInv => TypeOK
  BY DEF IInv
<1> QED
  BY <1>1, InitIInv, NextIInv, PTL DEF Spec

(***************************************************************************)
(* Two handlers never work on one event (the receipts of                   *)
(* webhooks/[provider]/route.ts are a lock).                               *)
(***************************************************************************)
THEOREM ReceiptsExclude == Spec => []OneHandler
<1>1. IInv => OneHandler
  BY DEF IInv
<1> QED
  BY <1>1, InitIInv, NextIInv, PTL DEF Spec

(***************************************************************************)
(* No event is answered with 200 before it was written to the payment, and *)
(* none has an open receipt that nobody alive holds unless its handler     *)
(* died or could not give it back.                                         *)
(***************************************************************************)
THEOREM EventsAreNotLost == Spec => [](AcknowledgedIsApplied /\ OpenIsHeld)
<1>1. IInv => AcknowledgedIsApplied /\ OpenIsHeld
  BY DEF IInv
<1> QED
  BY <1>1, InitIInv, NextIInv, PTL DEF Spec

(***************************************************************************)
(* The row claims no money that was not paid, through any order of         *)
(* checkout, events, refunds and reconciliation.                           *)
(***************************************************************************)
THEOREM ClaimsArePaid == Spec => []PaidIsReal
<1>1. IInv => PaidIsReal
  BY DEF IInv
<1> QED
  BY <1>1, InitIInv, NextIInv, PTL DEF Spec

(***************************************************************************)
(* Unless a refund was executed again after a crash, the row claims no     *)
(* refund that was not made.                                               *)
(***************************************************************************)
THEOREM RefundsAreBacked == Spec => []RecordedIsReturned
<1>1. IInv => RecordedIsReturned
  BY DEF IInv
<1> QED
  BY <1>1, InitIInv, NextIInv, PTL DEF Spec

===============================================================================
