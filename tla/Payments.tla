-------------------------------- MODULE Payments --------------------------------
(***************************************************************************)
(* One card payment: its row in payments, the checkout that opens it       *)
(* (src/app/api/payments/checkout/route.ts), the signed webhook with its   *)
(* receipts in payment_events (src/app/api/webhooks/[provider]/route.ts),  *)
(* refunds under approvals (refund/route.ts and executeFrozenApproval in   *)
(* src/lib/agent/approvals.ts) and reconciliation (reconcile/route.ts).    *)
(*                                                                         *)
(* Each of them reads the row, calls Stripe and writes the row in separate *)
(* steps, and none of the writes looks at what the row has become.  Stripe *)
(* is external: it takes the money, refunds no more than was paid and once *)
(* per idempotency key, and sends each event until it is answered with     *)
(* 200, in any order and to several handlers at once.                      *)
(***************************************************************************)
EXTENDS Naturals

CONSTANTS
  Amount,     (* amount_minor of the payment.                              *)
  Refunds,    (* The refunds that the owner may request and approve.       *)
  Asked,      (* Their frozen amount_minor; 0 for all that remains.        *)
  Successes,  (* The types of event by which Stripe reports a payment:     *)
              (* checkout.session.completed, payment_intent.succeeded.     *)
  Handlers,   (* Webhook requests that may be served at once.              *)
  NoEvent,    (* The event of an idle handler.                             *)
  MaxFaults   (* Bound on failed statements, lost answers and processes    *)
              (* that die.                                                 *)

Event == [type : Successes \cup {"payment_failed", "expired"}, total : {0}]
           \cup [type : {"refunded"}, total : 1..Amount]

ASSUME PaymentsAssumption ==
  /\ Amount \in Nat \ {0}
  /\ Asked \in [Refunds -> 0..Amount]
  /\ Successes \cap {"payment_failed", "expired", "refunded"} = {}
  /\ NoEvent \notin Event
  /\ MaxFaults \in Nat

VARIABLES
  status,    (* status of the payment; "none" while there is no row.       *)
  ref,       (* Whether the row has a provider_payment_id.                 *)
  refunded,  (* refunded_amount_minor of the row.                          *)
  checkout,  (* Where the checkout request is.                             *)
  intent,    (* Stripe: status of the payment intent.                      *)
  returned,  (* Stripe: how much was refunded.                             *)
  keys,      (* Stripe: the amount refunded under each idempotency key.    *)
  events,    (* Stripe: the events there have been.                        *)
  receipt,   (* The receipts: "none", "open" or "processed".               *)
  hpc,       (* Where each webhook handler is.                             *)
  hev,       (* The event it is handling.                                  *)
  rpc,       (* Where the execution of each refund is.                     *)
  base,      (* The refunded_amount_minor it has read.                     *)
  fetched,   (* The intent's status reconciliation has read, or "none".    *)
  applied,   (* The events that were written to the row.                   *)
  orphaned,  (* Those whose handler is gone and has left an open receipt.  *)
  repeated,  (* The refunds that were executed again after a crash.        *)
  faults     (* How many faults there have been.                           *)

rowVars     == <<status, ref, refunded>>
stripeVars  == <<intent, returned, keys, events>>
handlerVars == <<receipt, hpc, hev, applied, orphaned>>
refundVars  == <<rpc, base, repeated>>
vars == <<rowVars, checkout, stripeVars, handlerVars, refundVars, fetched, faults>>

Statuses == {"none", "pending", "requires_payment_method", "failed", "paid",
             "processing", "partially_refunded", "refunded", "cancelled"}

Init ==
  /\ status = "none" /\ ref = FALSE /\ refunded = 0
  /\ checkout = "none"
  /\ intent = "none" /\ returned = 0 /\ events = {}
  /\ keys     = [a \in Refunds |-> 0]
  /\ receipt  = [e \in Event |-> "none"]
  /\ hpc      = [h \in Handlers |-> "idle"]
  /\ hev      = [h \in Handlers |-> NoEvent]
  /\ rpc      = [a \in Refunds |-> "none"]
  /\ base     = [a \in Refunds |-> 0]
  /\ fetched  = "none"
  /\ applied  = {} /\ orphaned = {} /\ repeated = {}
  /\ faults   = 0

Calm  == UNCHANGED faults
Fault == faults < MaxFaults /\ faults' = faults + 1

-----------------------------------------------------------------------------
(* Stripe and the customer.                                                *)

Emit(type, total) == events' = events \cup {[type |-> type, total |-> total]}

Stripe == UNCHANGED <<rowVars, checkout, returned, keys, handlerVars, refundVars, fetched>> /\ Calm

Open == {"requires_payment_method", "processing"}

(* The card is being charged, or the customer has to confirm it.           *)
Process == /\ intent = "requires_payment_method"
           /\ intent' = "processing"
           /\ UNCHANGED events
           /\ Stripe

(* Both the session and its intent have an event.                          *)
Pay == /\ intent \in Open
       /\ intent' = "succeeded"
       /\ events' = events \cup [type : Successes, total : {0}]
       /\ Stripe

(* A first card is declined; the session stays open.                       *)
Decline == /\ intent \in Open
           /\ intent' = "requires_payment_method"
           /\ Emit("payment_failed", 0)
           /\ Stripe

SessionExpires == /\ intent = "requires_payment_method"
                  /\ intent' = "canceled"
                  /\ Emit("expired", 0)
                  /\ Stripe

-----------------------------------------------------------------------------
(* createCheckout: insert the row, open the session, update the row.       *)

Checkout(from, to) ==
  /\ checkout = from /\ checkout' = to
  /\ UNCHANGED <<refunded, returned, keys, events, handlerVars, refundVars, fetched>>

InsertPayment == /\ Checkout("none", "call")
                 /\ status' = "pending"
                 /\ UNCHANGED <<ref, intent>> /\ Calm

CreateSession == /\ Checkout("call", "update")
                 /\ intent' = "requires_payment_method"
                 /\ UNCHANGED <<status, ref>> /\ Calm

(* Stripe refuses, or opens the session and its answer is lost.            *)
SessionFails == /\ Checkout("call", "fail")
                /\ intent' \in {"none", "requires_payment_method"}
                /\ UNCHANGED <<status, ref>> /\ Fault

(* The session may or may not name its payment intent yet.                 *)
UpdatePayment == /\ Checkout("update", "done")
                 /\ status' = "requires_payment_method"
                 /\ ref' \in BOOLEAN
                 /\ UNCHANGED intent /\ Calm

UpdatePaymentFails == Checkout("update", "done") /\ UNCHANGED <<status, ref, intent>> /\ Fault

FailPayment == /\ Checkout("fail", "done")
               /\ status' = "failed"
               /\ UNCHANGED <<ref, intent>> /\ Calm

CheckoutDies == /\ checkout \in {"call", "update", "fail"}
                /\ Checkout(checkout, "done")
                /\ UNCHANGED <<status, ref, intent>> /\ Fault

-----------------------------------------------------------------------------
(* handleStripeWebhook.                                                    *)

Webhook == UNCHANGED <<checkout, stripeVars, refundVars, fetched>>

Goto(h, p, e) == hpc' = [hpc EXCEPT ![h] = p] /\ hev' = [hev EXCEPT ![h] = e]

(* Slip: an open receipt does not keep the event from being handled.       *)
FreshUnlessProcessed(e) == receipt[e] # "processed"

(* A receipt that is there is answered with 200 if it is processed and     *)
(* with 503 if it is open; neither changes anything.                       *)
Fresh(e) == receipt[e] = "none"

Receive(h, e) ==
  /\ hpc[h] = "idle" /\ e \in events /\ Fresh(e)
  /\ receipt' = [receipt EXCEPT ![e] = "open"]
  /\ Goto(h, "apply", e)
  /\ UNCHANGED <<rowVars, applied, orphaned>> /\ Webhook /\ Calm

(* Slip: a refund event is taken for the refund of everything.             *)
RefundedInFull(e) == Amount

RefundedTotal(e) == e.total

Applied(e) ==
  /\ status' = CASE e.type \in Successes  -> "paid"
                 [] e.type = "refunded"  -> "refunded"
                 [] OTHER                -> "failed"
  /\ ref' = (ref \/ e.type # "expired")
  /\ refunded' = IF e.type = "refunded" THEN RefundedTotal(e) ELSE refunded

(***************************************************************************)
(* The payment an event names in its metadata, or by its intent, is looked *)
(* up and updated.  The row is there and stays, so that the lookup finds   *)
(* it whenever it is made.                                                 *)
(***************************************************************************)
Apply(h) ==
  /\ hpc[h] = "apply"
  /\ Applied(hev[h])
  /\ applied' = applied \cup {hev[h]}
  /\ Goto(h, "complete", hev[h])
  /\ UNCHANGED <<receipt, orphaned>> /\ Webhook /\ Calm

(* failPaymentEvent: a failed statement gives the receipt back.            *)
AfterFailedUpdate(h) == "undo"

ApplyFails(h) ==
  /\ hpc[h] = "apply"
  /\ Goto(h, AfterFailedUpdate(h), hev[h])
  /\ UNCHANGED <<rowVars, receipt, applied, orphaned>> /\ Webhook /\ Fault

Processed(e) == receipt' = [receipt EXCEPT ![e] = "processed"]

Complete(h) ==
  /\ hpc[h] = "complete"
  /\ Processed(hev[h])
  /\ Goto(h, "idle", NoEvent)
  /\ UNCHANGED <<rowVars, applied, orphaned>> /\ Webhook /\ Calm

(* The completion fails, or only its answer is lost.                       *)
CompleteFails(h) ==
  /\ hpc[h] = "complete"
  /\ UNCHANGED receipt \/ Processed(hev[h])
  /\ Goto(h, "undo", hev[h])
  /\ UNCHANGED <<rowVars, applied, orphaned>> /\ Webhook /\ Fault

(* Slip: the receipt is kept.                                              *)
KeepReceipt(e) == receipt

(* The receipt is deleted unless it is processed.                          *)
Release(e) == IF receipt[e] = "processed" THEN receipt
              ELSE [receipt EXCEPT ![e] = "none"]

Undo(h) ==
  /\ hpc[h] = "undo"
  /\ receipt' = Release(hev[h])
  /\ Goto(h, "idle", NoEvent)
  /\ UNCHANGED <<rowVars, applied, orphaned>> /\ Webhook /\ Calm

(* The handler's process dies, or the deletion fails: nobody has the       *)
(* receipt any more.                                                       *)
HandlerDies(h) ==
  /\ hpc[h] # "idle"
  /\ orphaned' = orphaned \cup {hev[h]}
  /\ Goto(h, "idle", NoEvent)
  /\ UNCHANGED <<rowVars, receipt, applied>> /\ Webhook /\ Fault

-----------------------------------------------------------------------------
(* Refunds.                                                                *)

Refundable == ref /\ status \in {"paid", "partially_refunded"}
Remaining  == Amount - refunded

(* What refund a comes to when r remains.                                  *)
Wanted(a, r) == IF Asked[a] = 0 THEN r ELSE Asked[a]

Refund(a, from, to) ==
  /\ rpc[a] = from /\ rpc' = [rpc EXCEPT ![a] = to]
  /\ UNCHANGED <<checkout, handlerVars, fetched>>

(* requestRefund, and the owner's approval (module Approvals).             *)
Request(a) ==
  /\ Refundable /\ Wanted(a, Remaining) <= Remaining
  /\ Refund(a, "none", "approved")
  /\ UNCHANGED <<rowVars, stripeVars, base, repeated>> /\ Calm

(* Slip: what was refunded already is not looked at.                       *)
AffordableAtAll(a) == Wanted(a, Remaining) \in 1..Amount

Affordable(a) == Wanted(a, Remaining) \in 1..Remaining

ReadPayment(a) ==
  /\ Refundable /\ Affordable(a)
  /\ Refund(a, "approved", "call")
  /\ base' = [base EXCEPT ![a] = refunded]
  /\ UNCHANGED <<rowVars, stripeVars, repeated>> /\ Calm

Reject(a) ==
  /\ ~(Refundable /\ Affordable(a))
  /\ Refund(a, "approved", "failed")
  /\ UNCHANGED <<rowVars, stripeVars, base, repeated>> /\ Calm

Due(a) == Wanted(a, Amount - base[a])

(* Stripe refunds under a new key what has not been refunded yet, and      *)
(* answers a key it knows with the refund made under it.                   *)
Accepts(a) == keys[a] = Due(a) \/ (keys[a] = 0 /\ returned + Due(a) <= Amount)

MakeRefund(a) ==
  IF keys[a] # 0 THEN UNCHANGED stripeVars
  ELSE /\ keys' = [keys EXCEPT ![a] = Due(a)]
       /\ returned' = returned + Due(a)
       /\ Emit("refunded", returned')
       /\ UNCHANGED intent

CallStripe(a) ==
  /\ Accepts(a) /\ MakeRefund(a)
  /\ Refund(a, "call", "persist")
  /\ UNCHANGED <<rowVars, base, repeated>> /\ Calm

(* Stripe refuses, or its answer is lost: the approval reads failed.       *)
StripeRefuses(a) ==
  /\ \/ ~Accepts(a) /\ UNCHANGED stripeVars /\ Calm
     \/ Accepts(a) /\ MakeRefund(a) /\ Fault
  /\ Refund(a, "call", "failed")
  /\ UNCHANGED <<rowVars, base, repeated>>

(* The update asks for the frozen provider_payment_id.                     *)
Persist(a) ==
  /\ Refund(a, "persist", "done")
  /\ IF ref THEN /\ refunded' = base[a] + Due(a)
                 /\ status' = IF refunded' >= Amount THEN "refunded" ELSE "partially_refunded"
            ELSE UNCHANGED <<refunded, status>>
  /\ UNCHANGED <<ref, stripeVars, base, repeated>> /\ Calm

PersistFails(a) ==
  /\ Refund(a, "persist", "failed")
  /\ UNCHANGED <<rowVars, stripeVars, base, repeated>> /\ Fault

(* The executing process dies; the lease of the approval is recovered and  *)
(* the owner approves it again.                                            *)
ExecutorDies(a) ==
  /\ rpc[a] \in {"call", "persist", "done"}
  /\ Refund(a, rpc[a], "approved")
  /\ repeated' = repeated \cup {a}
  /\ UNCHANGED <<rowVars, stripeVars, base>> /\ Fault

-----------------------------------------------------------------------------
(* reconcilePayments.                                                      *)

Reconcile == UNCHANGED <<ref, refunded, checkout, stripeVars, handlerVars, refundVars>> /\ Calm

RetrieveIntent == /\ fetched = "none" /\ ref
                  /\ fetched' = intent
                  /\ UNCHANGED status
                  /\ Reconcile

(* Slip: an intent that was not cancelled is taken for paid.               *)
MapUnlessCancelled(s) == IF s = "canceled" THEN "cancelled" ELSE "paid"

MapStripePaymentStatus(s) ==
  CASE s = "succeeded" -> "paid"
    [] s = "canceled"  -> "cancelled"
    [] s = "requires_payment_method" -> "failed"
    [] OTHER -> s

UpdateReconciled == /\ fetched # "none"
                    /\ status' = MapStripePaymentStatus(fetched)
                    /\ fetched' = "none"
                    /\ Reconcile

-----------------------------------------------------------------------------

Handle(h) == \/ \E e \in Event : Receive(h, e)
             \/ Apply(h) \/ ApplyFails(h) \/ Complete(h) \/ CompleteFails(h)
             \/ Undo(h) \/ HandlerDies(h)

Execute(a) == \/ Request(a) \/ ReadPayment(a) \/ Reject(a)
              \/ CallStripe(a) \/ StripeRefuses(a)
              \/ Persist(a) \/ PersistFails(a) \/ ExecutorDies(a)

Next ==
  \/ Process \/ Pay \/ Decline \/ SessionExpires
  \/ InsertPayment \/ CreateSession \/ SessionFails
  \/ UpdatePayment \/ UpdatePaymentFails \/ FailPayment \/ CheckoutDies
  \/ \E h \in Handlers : Handle(h)
  \/ \E a \in Refunds : Execute(a)
  \/ RetrieveIntent \/ UpdateReconciled

Spec == Init /\ [][Next]_vars

(***************************************************************************)
(* Stripe sends an event until it is answered with 200, and a handler goes *)
(* on as long as its process lives.  Nothing else need ever happen.        *)
(***************************************************************************)
Fairness == /\ \A e \in Event : WF_vars(\E h \in Handlers : Receive(h, e))
            /\ \A h \in Handlers : WF_vars(Apply(h) \/ Complete(h) \/ Undo(h))

FairSpec == Spec /\ Fairness

-----------------------------------------------------------------------------
(* Properties.                                                             *)

TypeOK ==
  /\ status   \in Statuses
  /\ ref      \in BOOLEAN
  /\ refunded \in 0..Amount
  /\ checkout \in {"none", "call", "update", "fail", "done"}
  /\ intent   \in Open \cup {"none", "succeeded", "canceled"}
  /\ returned \in 0..Amount
  /\ keys     \in [Refunds -> 0..Amount]
  /\ events   \subseteq Event
  /\ receipt  \in [Event -> {"none", "open", "processed"}]
  /\ hpc      \in [Handlers -> {"idle", "apply", "complete", "undo"}]
  /\ hev      \in [Handlers -> Event \cup {NoEvent}]
  /\ rpc      \in [Refunds -> {"none", "approved", "call", "persist", "done", "failed"}]
  /\ base     \in [Refunds -> 0..Amount]
  /\ fetched  \in Open \cup {"none", "succeeded", "canceled"}
  /\ applied  \subseteq Event
  /\ orphaned \subseteq Event
  /\ repeated \subseteq Refunds
  /\ faults   \in 0..MaxFaults

(***************************************************************************)
(* An event is handled by one request at a time, however often and to how  *)
(* many handlers at once Stripe sends it, and although failures delete     *)
(* receipts (webhooks/[provider]/route.ts lines 113-137).                  *)
(***************************************************************************)
OneHandler ==
  \A g, h \in Handlers : hev[g] = hev[h] /\ hev[g] # NoEvent => g = h

(***************************************************************************)
(* Stripe is told that an event is done, and stops sending it, only after  *)
(* it was written to the payment (lines 181-186).                          *)
(***************************************************************************)
AcknowledgedIsApplied ==
  \A e \in Event : receipt[e] = "processed" => e \in applied

(***************************************************************************)
(* The row never claims money that was not paid: through late events,      *)
(* stale reconciliations, refunds and checkouts that overtake one another, *)
(* it reads paid or refunded only if the intent has succeeded.             *)
(***************************************************************************)
PaidIsReal ==
  status \in {"paid", "partially_refunded", "refunded"} => intent = "succeeded"

(***************************************************************************)
(* The row never claims a refund that was not made: unless a refund was    *)
(* executed again after a crash, refunded_amount_minor is at most what     *)
(* Stripe has returned, whatever the order of webhooks and of refunds that *)
(* have read the same amount (approvals.ts lines 344-380).                 *)
(***************************************************************************)
RecordedIsReturned == repeated = {} => refunded <= returned

(***************************************************************************)
(* An open receipt, which makes every handler answer 503, belongs to a     *)
(* handler that is still at it, or to one whose process is gone: failed    *)
(* statements delay an event and never lose it (failPaymentEvent, lines    *)
(* 133-137).                                                               *)
(***************************************************************************)
OpenIsHeld ==
  \A e \in Event : receipt[e] = "open" => e \in orphaned \/ \E h \in Handlers : hev[h] = e

-----------------------------------------------------------------------------
(* The inductive invariant.                                                *)

(* A handler has an event that Stripe has sent, and its receipt.           *)
Handling ==
  \A h \in Handlers :
    /\ hpc[h] = "idle" <=> hev[h] = NoEvent
    /\ hev[h] # NoEvent => hev[h] \in events /\ receipt[hev[h]] # "none"
    /\ hpc[h] = "complete" => hev[h] \in applied

(* Before the customer has paid, nothing says so and nothing is refunded.  *)
NotYetPaid ==
  /\ checkout \in {"none", "call"} => intent = "none"
  /\ intent # "succeeded" =>
       /\ \A e \in events : e.type \in {"payment_failed", "expired"}
       /\ fetched # "succeeded"
       /\ \A a \in Refunds : rpc[a] \notin {"call", "persist"}

(* A refund under way fits into what remained when it was read.            *)
Fits ==
  \A a \in Refunds : rpc[a] \in {"call", "persist"} => Due(a) \in 1..(Amount - base[a])

(* What events and refunds are about to record was returned.               *)
Backed ==
  /\ \A e \in events : e.total <= returned
  /\ \A a \in Refunds : keys[a] # 0 => rpc[a] \in {"persist", "done", "failed"} \/ a \in repeated
  /\ repeated = {} =>
       \A a \in Refunds :
         /\ rpc[a] = "call"    => base[a] <= returned
         /\ rpc[a] = "persist" => base[a] + Due(a) <= returned

(***************************************************************************)
(* Why the others hold: a receipt has one handler from its insertion on,   *)
(* and whatever is about to be written to the row is backed by Stripe.     *)
(***************************************************************************)
IInv == /\ TypeOK
        /\ OneHandler /\ Handling /\ AcknowledgedIsApplied /\ OpenIsHeld
        /\ NotYetPaid /\ PaidIsReal
        /\ Fits /\ Backed /\ RecordedIsReturned

-----------------------------------------------------------------------------
(* What the documents say, and the webhook does not keep.                  *)

(***************************************************************************)
(* "Stripe webhook receipts remain retryable until processing completes."  *)
(* (docs/current/ARCHITECTURE.md:105): every event is processed in the     *)
(* end.                                                                    *)
(***************************************************************************)
EventsAreProcessed == \A e \in Event : e \in events ~> receipt[e] = "processed"

=============================================================================
