------------------------------ MODULE Checkout ------------------------------
(***************************************************************************)
(* Checkout with Stripe, around the transactions of Orders: the requests   *)
(* that start a checkout, Stripe's sessions and its webhook events, the    *)
(* sweep of abandoned checkouts, and the administrator's cancel and ship.  *)
(* None of these is one transaction: each reads, calls Stripe and then     *)
(* commits, so their steps interleave with each other and with webhooks,   *)
(* calls fail or are cut off by a crash, and Stripe delivers events late,  *)
(* in any order, more than once or never.                                  *)
(*                                                                         *)
(* A session is Stripe's; it is modelled from the answers the adapter      *)
(* handles.  Time is one flag per order: older than the session lifetime   *)
(* plus the sweep's grace.                                                 *)
(***************************************************************************)
EXTENDS Orders

CONSTANTS
  Subtotal,   \* order total when it is placed, before tax and shipping
  Charge,     \* what Stripe charges for it
  NoOrder     \* no previousOrderId in the request

ASSUME CheckoutAssumption ==
  /\ Subtotal \in Nat /\ Charge \in Nat
  /\ 0 < Charge /\ Subtotal <= Charge /\ Charge <= MaxCents
  /\ NoOrder \notin Order

VARIABLES
  request,        \* where the request that creates each order is
  previous,       \* the previous order it is releasing
  saved,          \* orders.stripe_checkout_session_id is set
  matched,        \* orders.stripe_payment_intent_id is set
  reviewReason,   \* orders.review_reason
  recorded,       \* rows of stripe_events, per order
  admin,          \* where an administrator's request for each order is
  sweep,          \* where the running sweep is with each order of its batch
  aged,           \* created_at is before the sweep's cutoff
  session,        \* Stripe: the checkout session of each order
  emitted         \* Stripe: the events it has to deliver, per order

columns == <<saved, matched, reviewReason>>
stripeVars == <<session, emitted>>
checkoutVars == <<request, previous, saved, matched, reviewReason, recorded,
                  admin, sweep, aged, session, emitted>>
allVars == <<vars, checkoutVars>>

Request == {"idle", "expiringPrevious", "cancellingPrevious", "placing", "creating",
            "saving", "releasing", "served", "failed"}
Admin == {"idle", "expiring", "cancelling", "cancellingUnsaved", "cancellingDisputed",
          "shipping", "shippingReviewed"}
Sweep == {"idle", "checking", "cancelling"}
Session == {"none", "open", "paid", "unpaid", "expired"}
(* needs_review stands for amount_mismatch and outside_shipping_area. *)
ReviewReason == {"none", "needs_review", "paid_after_cancel", "disputed"}

Completed == <<"completed", 0>>
Expired == <<"expired", 0>>
Refunded(n) == <<"refunded", n>>
Disputed == <<"disputed", 0>>
Event == {Completed, Expired, Disputed} \cup {Refunded(n) : n \in 1..Charge}

CheckoutInit ==
  /\ Init
  /\ request = [o \in Order |-> "idle"]
  /\ previous = [o \in Order |-> NoOrder]
  /\ saved = [o \in Order |-> FALSE]
  /\ matched = [o \in Order |-> FALSE]
  /\ reviewReason = [o \in Order |-> "none"]
  /\ recorded = [o \in Order |-> {}]
  /\ admin = [o \in Order |-> "idle"]
  /\ sweep = [o \in Order |-> "idle"]
  /\ aged = [o \in Order |-> FALSE]
  /\ session = [o \in Order |-> "none"]
  /\ emitted = [o \in Order |-> {}]

-----------------------------------------------------------------------------
(* Stripe. *)
Emit(o, e) == emitted' = [emitted EXCEPT ![o] = @ \cup {e}]

CloseSession(o, state, e) ==
  /\ session[o] = "open"
  /\ session' = [session EXCEPT ![o] = state]
  /\ Emit(o, e)

(* The customer pays with the client secret, which only the response to    *)
(* the request that created the session carries.                           *)
Pay(o) ==
  /\ request[o] = "served"
  /\ CloseSession(o, "paid", Completed) \/ CloseSession(o, "unpaid", Completed)
  /\ UNCHANGED <<vars, request, previous, columns, recorded, admin, sweep, aged>>

SessionExpires(o) ==
  /\ CloseSession(o, "expired", Expired)
  /\ UNCHANGED <<vars, request, previous, columns, recorded, admin, sweep, aged>>

(* Refunds and disputes are made at Stripe; a refund event carries the     *)
(* cumulative amount refunded.                                             *)
RefundAtStripe(o, n) ==
  /\ session[o] = "paid"
  /\ \A m \in n..Charge : Refunded(m) \notin emitted[o]
  /\ Emit(o, Refunded(n))
  /\ UNCHANGED <<vars, request, previous, columns, recorded, admin, sweep, aged, session>>

DisputeAtStripe(o) ==
  /\ session[o] = "paid"
  /\ Disputed \notin emitted[o]
  /\ Emit(o, Disputed)
  /\ UNCHANGED <<vars, request, previous, columns, recorded, admin, sweep, aged, session>>

(* expireCheckoutSession: "expired" or "complete" is what became of the    *)
(* session; "error" means Stripe could not be asked, though the session    *)
(* may have been expired.                                                  *)
ExpireSession(o, outcome) ==
  CASE outcome = "expired" ->
         \/ CloseSession(o, "expired", Expired)
         \/ session[o] = "expired" /\ UNCHANGED stripeVars
    [] outcome = "complete" -> session[o] \in {"paid", "unpaid"} /\ UNCHANGED stripeVars
    [] outcome = "error" -> CloseSession(o, "expired", Expired) \/ UNCHANGED stripeVars

(* variant: onlyIfPending left out of the options *)
CancelIfOpen(o) == IF Open(o) THEN CancelOrder(o) ELSE UNCHANGED vars

(* cancelOrder with onlyIfPending: no step on any other status. *)
CancelIfPending(o) == IF status[o] = "pending" THEN CancelOrder(o) ELSE UNCHANGED vars

-----------------------------------------------------------------------------
(* startCheckout: the request that creates order o. *)
StartCheckout(o, p) ==
  /\ request[o] = "idle"
  /\ p # NoOrder => request[p] = "served"
  /\ LET release == p # NoOrder /\ status[p] = "pending" /\ saved[p] IN
     /\ request' = [request EXCEPT ![o] = IF release THEN "expiringPrevious" ELSE "placing"]
     /\ previous' = [previous EXCEPT ![o] = IF release THEN p ELSE NoOrder]
  /\ UNCHANGED <<vars, columns, recorded, admin, sweep, aged, stripeVars>>

(* releasePreviousOrder: expire its session first, and cancel only if that *)
(* worked.                                                                 *)
ExpirePrevious(o) ==
  /\ request[o] = "expiringPrevious"
  /\ \E outcome \in {"expired", "complete", "error"} :
       /\ ExpireSession(previous[o], outcome)
       /\ IF outcome = "expired"
          THEN request' = [request EXCEPT ![o] = "cancellingPrevious"] /\ UNCHANGED previous
          ELSE /\ request' = [request EXCEPT ![o] = "placing"]
               /\ previous' = [previous EXCEPT ![o] = NoOrder]
  /\ UNCHANGED <<vars, columns, recorded, admin, sweep, aged>>

CancelPrevious(o) ==
  /\ request[o] = "cancellingPrevious"
  /\ CancelIfPending(previous[o]) \/ UNCHANGED vars
  /\ request' = [request EXCEPT ![o] = "placing"]
  /\ previous' = [previous EXCEPT ![o] = NoOrder]
  /\ UNCHANGED <<columns, recorded, admin, sweep, aged, stripeVars>>

PlaceCheckoutOrder(o, q) ==
  /\ request[o] = "placing"
  /\ PlaceOrder(o, q, Subtotal)
  /\ request' = [request EXCEPT ![o] = "creating"]
  /\ UNCHANGED <<previous, columns, recorded, admin, sweep, aged, stripeVars>>

(* Stripe's answer arrives, or the call fails; when it fails, or the       *)
(* process dies waiting for it, there may be a session nobody knows of.    *)
SessionMayExist(o) ==
  /\ session' \in {session, [session EXCEPT ![o] = "open"]}
  /\ UNCHANGED emitted

CreateSession(o) ==
  /\ request[o] = "creating"
  /\ \/ /\ session' = [session EXCEPT ![o] = "open"]
        /\ request' = [request EXCEPT ![o] = "saving"]
        /\ UNCHANGED emitted
     \/ /\ SessionMayExist(o)
        /\ request' = [request EXCEPT ![o] = "releasing"]
  /\ UNCHANGED <<vars, previous, columns, recorded, admin, sweep, aged>>

ReleaseAfterFailure(o) ==
  /\ request[o] = "releasing"
  /\ CancelIfPending(o) \/ UNCHANGED vars
  /\ request' = [request EXCEPT ![o] = "failed"]
  /\ UNCHANGED <<previous, columns, recorded, admin, sweep, aged, stripeVars>>

(* The id is saved whatever the order's status is by now; then the client  *)
(* secret is returned, if the response arrives.                            *)
SaveSession(o) ==
  /\ request[o] = "saving"
  /\ saved' = [saved EXCEPT ![o] = TRUE]
  /\ \E end \in {"served", "failed"} : request' = [request EXCEPT ![o] = end]
  /\ UNCHANGED <<vars, previous, matched, reviewReason, recorded, admin, sweep, aged, stripeVars>>

(* The process dies, the database is away, or the cart cannot be placed.   *)
RequestFails(o) ==
  /\ request[o] \notin {"idle", "served", "failed"}
  /\ request' = [request EXCEPT ![o] = "failed"]
  /\ previous' = [previous EXCEPT ![o] = NoOrder]
  /\ IF request[o] = "creating" THEN SessionMayExist(o) ELSE UNCHANGED stripeVars
  /\ UNCHANGED <<vars, columns, recorded, admin, sweep, aged>>

-----------------------------------------------------------------------------
(* handleStripeEvent: the stripe_events row and the effects of the event   *)
(* commit together, so an event is applied once however often it is        *)
(* delivered.  An event that is answered "retry" or refused, or given up   *)
(* after 24 hours, records nothing: no step.                               *)

(* variant: stripe_events is not consulted *)
DeliverAgain(o, e) ==
  /\ e \in emitted[o]
  /\ recorded' = [recorded EXCEPT ![o] = @ \cup {e}]
  /\ UNCHANGED <<request, previous, saved, admin, sweep, aged, stripeVars>>

Deliver(o, e) ==
  /\ e \in emitted[o] \ recorded[o]
  /\ recorded' = [recorded EXCEPT ![o] = @ \cup {e}]
  /\ UNCHANGED <<request, previous, saved, admin, sweep, aged, stripeVars>>

Match(o, reason) ==
  /\ matched' = [matched EXCEPT ![o] = TRUE]
  /\ reviewReason' = [reviewReason EXCEPT ![o] = reason]

(* variant: a payment on a cancelled order is taken for an order unknown *)
PaidAfterCancelIgnored(o) == status[o] = "cancelled" /\ UNCHANGED <<vars, matched, reviewReason>>

(* variant: Stripe's figures are not written on this path *)
PaidAfterCancelAsPlaced(o) ==
  status[o] = "cancelled" /\ UNCHANGED vars /\ Match(o, "paid_after_cancel")

PaidAfterCancel(o) == RecordPaidAfterCancel(o, Charge) /\ Match(o, "paid_after_cancel")

OnCompleted(o) ==
  /\ Deliver(o, Completed)
  /\ \/ /\ session[o] = "paid"
        /\ MarkOrderPaid(o, Charge)
        /\ \E reason \in {"none", "needs_review"} : Match(o, reason)
     \/ session[o] = "paid" /\ PaidAfterCancel(o)
     \/ /\ session[o] = "unpaid" \/ status[o] \notin {"pending", "cancelled"}
        /\ UNCHANGED <<vars, matched, reviewReason>>

OnExpired(o) ==
  /\ Deliver(o, Expired)
  /\ CancelIfPending(o)
  /\ UNCHANGED <<matched, reviewReason>>

(* The order is found by its payment intent. *)
OnRefunded(o, n) ==
  /\ Deliver(o, Refunded(n))
  /\ matched[o]
  /\ RefundAccepted(o, n)
  /\ \/ n = Charge /\ RefundFully(o, n)
     \/ n < Charge /\ RefundPartially(o, n)
     \/ status[o] = "refunded" /\ UNCHANGED vars
  /\ UNCHANGED <<matched, reviewReason>>

OnDispute(o) ==
  /\ Deliver(o, Disputed)
  /\ matched[o]
  /\ reviewReason' = [reviewReason EXCEPT ![o] = "disputed"]
  /\ UNCHANGED <<vars, matched>>

-----------------------------------------------------------------------------
(* The administrator's requests; each begins with an unlocked read, which  *)
(* refuses (no step) or decides how to go on.                              *)
AdminStep(o, from, to) == admin[o] = from /\ admin' = [admin EXCEPT ![o] = to]

RequestCancel(o) ==
  /\ channel[o] = "storefront"
  /\ \/ /\ status[o] = "paid" /\ reviewReason[o] = "disputed"
        /\ AdminStep(o, "idle", "cancellingDisputed")
     \/ /\ status[o] = "pending"
        /\ AdminStep(o, "idle", IF saved[o] THEN "expiring" ELSE "cancellingUnsaved")
  /\ UNCHANGED <<vars, request, previous, columns, recorded, sweep, aged, stripeVars>>

AdminExpires(o) ==
  /\ \E outcome \in {"expired", "complete", "error"} :
       /\ ExpireSession(o, outcome)
       /\ AdminStep(o, "expiring", IF outcome = "expired" THEN "cancelling" ELSE "idle")
  /\ UNCHANGED <<vars, request, previous, columns, recorded, sweep, aged>>

AdminCancels(o) ==
  /\ AdminStep(o, "cancelling", "idle") \/ AdminStep(o, "cancellingUnsaved", "idle")
  /\ CancelIfPending(o)
  /\ UNCHANGED <<request, previous, columns, recorded, sweep, aged, stripeVars>>

(* cancelDisputedOrder looks again under the lock. *)
AdminCancelsDisputed(o) ==
  /\ AdminStep(o, "cancellingDisputed", "idle")
  /\ status[o] = "paid" /\ reviewReason[o] = "disputed"
  /\ CancelOrder(o)
  /\ UNCHANGED <<request, previous, columns, recorded, sweep, aged, stripeVars>>

RequestShip(o) ==
  /\ channel[o] = "storefront"
  /\ \/ reviewReason[o] = "none" /\ AdminStep(o, "idle", "shipping")
     \/ AdminStep(o, "idle", "shippingReviewed")
  /\ UNCHANGED <<vars, request, previous, columns, recorded, sweep, aged, stripeVars>>

(* variant: the unlocked read is trusted *)
ReviewedBefore(o) == admin[o] \in {"shipping", "shippingReviewed"}

Reviewed(o) ==
  \/ admin[o] = "shippingReviewed"
  \/ admin[o] = "shipping" /\ reviewReason[o] = "none"

AdminShips(o) ==
  /\ Reviewed(o)
  /\ FulfillOrder(o)
  /\ admin' = [admin EXCEPT ![o] = "idle"]
  /\ UNCHANGED <<request, previous, columns, recorded, sweep, aged, stripeVars>>

(* The request is refused under the lock, fails, or the process dies. *)
AdminFails(o) ==
  /\ admin[o] # "idle"
  /\ admin' = [admin EXCEPT ![o] = "idle"]
  /\ UNCHANGED <<vars, request, previous, columns, recorded, sweep, aged, stripeVars>>

-----------------------------------------------------------------------------
(* sweepAbandonedCheckouts. *)

(* A request is over well before its order is old: Stripe calls time out   *)
(* after seconds, and the cutoff is session lifetime plus ten minutes.     *)
GrowOld(o) ==
  /\ status[o] = "pending" /\ ~aged[o]
  /\ request[o] \in {"served", "failed"}
  /\ aged' = [aged EXCEPT ![o] = TRUE]
  /\ UNCHANGED <<vars, request, previous, columns, recorded, admin, sweep, stripeVars>>

(* variant: only orders that got a session *)
StaleWithSession(o) == status[o] = "pending" /\ channel[o] = "storefront" /\ aged[o] /\ saved[o]

Stale(o) == status[o] = "pending" /\ channel[o] = "storefront" /\ aged[o]

(* One sweep at a time; it reads its batch, session ids included, at once. *)
StartSweep ==
  /\ \A o \in Order : sweep[o] = "idle"
  /\ \E o \in Order : Stale(o)
  /\ sweep' = [o \in Order |-> IF ~Stale(o) THEN "idle"
                               ELSE IF saved[o] THEN "checking" ELSE "cancelling"]
  /\ UNCHANGED <<vars, request, previous, columns, recorded, admin, aged, stripeVars>>

(* variant: an open session taken for an abandoned one *)
NotPaid(o) == session[o] # "paid"

Abandoned(o) == session[o] \in {"expired", "unpaid"}

SweepStep(o, from, to) == sweep[o] = from /\ sweep' = [sweep EXCEPT ![o] = to]

SweepChecks(o) ==
  /\ SweepStep(o, "checking", IF Abandoned(o) THEN "cancelling" ELSE "idle")
  /\ UNCHANGED <<vars, request, previous, columns, recorded, admin, aged, stripeVars>>

SweepCancels(o) ==
  /\ SweepStep(o, "cancelling", "idle")
  /\ CancelIfPending(o)
  /\ UNCHANGED <<request, previous, columns, recorded, admin, aged, stripeVars>>

(* Stripe or the database cannot be reached, or the process dies. *)
SweepFails(o) ==
  /\ sweep[o] # "idle"
  /\ SweepStep(o, sweep[o], "idle")
  /\ UNCHANGED <<vars, request, previous, columns, recorded, admin, aged, stripeVars>>

(* getCheckoutStatus, what the order page shows for a saved session.       *)
CheckoutStatus(o) ==
  IF status[o] = "pending" \/ reviewReason[o] = "paid_after_cancel" THEN "pending"
  ELSE IF status[o] = "cancelled" THEN "cancelled" ELSE "paid"

-----------------------------------------------------------------------------
RequestStep(o) ==
  \/ ExpirePrevious(o) \/ CancelPrevious(o)
  \/ \E q \in Quantities : PlaceCheckoutOrder(o, q)
  \/ CreateSession(o) \/ ReleaseAfterFailure(o) \/ SaveSession(o)
  \/ RequestFails(o)

WebhookStep(o) ==
  \/ OnCompleted(o) \/ OnExpired(o) \/ OnDispute(o)
  \/ \E n \in 1..Charge : OnRefunded(o, n)

StripeStep(o) ==
  \/ Pay(o) \/ SessionExpires(o) \/ DisputeAtStripe(o)
  \/ \E n \in 1..Charge : RefundAtStripe(o, n)

AdministratorStep(o) ==
  \/ RequestCancel(o) \/ AdminExpires(o) \/ AdminCancels(o) \/ AdminCancelsDisputed(o)
  \/ RequestShip(o) \/ AdminShips(o) \/ AdminFails(o)

SweepingStep(o) == SweepChecks(o) \/ SweepCancels(o) \/ SweepFails(o)

CheckoutNext ==
  \/ StartSweep
  \/ \E o \in Order :
       \/ \E p \in (Order \ {o}) \cup {NoOrder} : StartCheckout(o, p)
       \/ RequestStep(o) \/ WebhookStep(o) \/ StripeStep(o)
       \/ AdministratorStep(o) \/ GrowOld(o) \/ SweepingStep(o)

CheckoutSpec == CheckoutInit /\ [][CheckoutNext]_allVars

(* Requests run to an end and time passes.  The sweep's timer fires again  *)
(* and again; Stripe and the database may be away for any one sweep, but   *)
(* not for every one.  Stripe expires sessions.  Nothing is assumed of     *)
(* webhooks, customers or administrators.                                  *)
CheckoutFairness ==
  /\ WF_allVars(StartSweep)
  /\ \A o \in Order :
       /\ WF_allVars(RequestStep(o))
       /\ WF_allVars(SessionExpires(o))
       /\ WF_allVars(GrowOld(o))
       /\ WF_allVars(SweepingStep(o))
       /\ SF_allVars(SweepChecks(o))
       /\ SF_allVars(SweepCancels(o))

FairCheckoutSpec == CheckoutSpec /\ CheckoutFairness

-----------------------------------------------------------------------------
CheckoutTypeOK ==
  /\ TypeOK
  /\ request \in [Order -> Request]
  /\ previous \in [Order -> Order \cup {NoOrder}]
  /\ saved \in [Order -> BOOLEAN] /\ matched \in [Order -> BOOLEAN]
  /\ reviewReason \in [Order -> ReviewReason]
  /\ recorded \in [Order -> SUBSET Event] /\ emitted \in [Order -> SUBSET Event]
  /\ admin \in [Order -> Admin] /\ sweep \in [Order -> Sweep]
  /\ aged \in [Order -> BOOLEAN]
  /\ session \in [Order -> Session]

(* Money taken is accounted for: once the event of a payment is recorded,  *)
(* the order is known by its payment intent and carries what Stripe        *)
(* charged, it is no longer pending, and if it is cancelled a person has   *)
(* been asked to look at it.                                               *)
PaymentsAccounted ==
  \A o \in Order : session[o] = "paid" /\ Completed \in recorded[o] =>
    /\ matched[o]
    /\ totalCents[o] = Charge
    /\ status[o] \notin {"none", "pending"}
    /\ status[o] = "cancelled" => reviewReason[o] \in {"paid_after_cancel", "disputed"}

(* No refund of Stripe's is refused by the rules of refundOrderTx once the *)
(* order can be found: the figure fits under the recorded total, also on   *)
(* orders paid after they were cancelled, and the order is not pending.    *)
RefundsApplicable ==
  \A o \in Order, n \in 1..Charge : Refunded(n) \in emitted[o] /\ matched[o] =>
    RefundAccepted(o, n) /\ status[o] # "pending"

(* Of all who cancel - the sweep, a new checkout, a failed one, the        *)
(* expired webhook, administrators - nobody cancels a paid order, unless   *)
(* it is disputed: its stock stays held until it ships or is refunded.     *)
PaidOrdersKeepTheirStock ==
  [][\A o \in Order : status[o] = "paid" /\ status'[o] = "cancelled" =>
       reviewReason[o] = "disputed"]_allVars

(* The customer can pay for this order, now or when the session that is    *)
(* being made for it arrives.                                              *)
MayBePaid(o) ==
  \/ session[o] = "paid"
  \/ session[o] \in {"none", "open"} /\ request[o] \in {"creating", "saving", "served"}

(* Stock is released only when nobody can pay for it any more (Expire      *)
(* FIRST, checkout.service.ts:55), whoever releases it.  The exception is  *)
(* the administrator who read the order before its session id was saved:   *)
(* see CancelledOrdersAreNotPaid.                                          *)
Released(o) == status[o] = "pending" /\ status'[o] = "cancelled"

ReleasedMeansUnpayable ==
  [][\A o \in Order : Released(o) /\ admin[o] # "cancellingUnsaved" => ~MayBePaid(o)']_allVars

(* As the comment on cancelPendingOrder has it (admin-orders.service.ts:   *)
(* 195), the session is expired first, "so the customer cannot pay for     *)
(* stock this is about to release": no order is cancelled and then paid.   *)
CancelledOrdersAreNotPaid ==
  \A o \in Order : session[o] = "paid" /\ status[o] = "cancelled" => reviewReason[o] = "disputed"

(* A flagged order ships only if the administrator said it was reviewed,   *)
(* also when the flag was raised between the read and the lock.            *)
FlaggedShipsOnlyReviewed ==
  [][\A o \in Order : status[o] = "paid" /\ status'[o] = "fulfilled" /\ reviewReason[o] # "none" =>
       admin[o] = "shippingReviewed"]_allVars

(* A dispute stays on the order: no event, repeated or late, takes the     *)
(* flag away or turns it into another.                                     *)
DisputesStay ==
  [][\A o \in Order : reviewReason[o] = "disputed" => reviewReason'[o] = "disputed"]_allVars

(* As the comment in getCheckoutStatus has it (checkout.service.ts:166), a *)
(* payment that landed on a cancelled order "is money taken": the page     *)
(* that said it is being confirmed does not change to cancelled.           *)
ConfirmingIsNotCancelled ==
  [][\A o \in Order : saved[o] /\ status[o] = "cancelled" /\ CheckoutStatus(o) = "pending" =>
       CheckoutStatus(o)' # "cancelled"]_allVars

(* The sweep is a backstop for every webhook: an order nobody has paid for *)
(* does not hold stock for ever, if no webhook ever arrives, whatever      *)
(* failed or crashed when it was placed.                                   *)
AbandonedOrdersAreReleased ==
  \A o \in Order : status[o] = "pending" ~> status[o] # "pending" \/ session[o] = "paid"
=============================================================================
