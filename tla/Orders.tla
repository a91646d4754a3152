------------------------------- MODULE Orders -------------------------------
(***************************************************************************)
(* Orders and stock of the core service: the tables orders (status,        *)
(* channel, lines, money) and inventory (on_hand, reserved,                *)
(* walmart_allocation), and every transaction of the service that writes   *)
(* them.  Each action is one committed transaction: all of them lock the   *)
(* order row before they read its status, and all stock writes are guarded *)
(* UPDATEs under the inventory row's lock, so committed transactions       *)
(* behave as if they ran one at a time (module StockLocks looks inside     *)
(* them).  A transaction that throws rolls back: it is the absence of a    *)
(* step.  What happens between transactions is in module Checkout.         *)
(*                                                                         *)
(* Definitions marked "variant" are not the code's: each takes the place   *)
(* of the definition after it to see that a property notices.              *)
(***************************************************************************)
EXTENDS Holds

CONSTANTS
  MaxOnHand,      \* bound on the figure an administrator may set
  MaxCents,       \* bound on an order total and on a refund figure
  NoAllocation    \* walmart_allocation IS NULL: both channels share the stock

ASSUME OrdersAssumption ==
  /\ MaxOnHand \in Nat /\ MaxCents \in Nat
  /\ NoAllocation \notin Int

VARIABLES
  status,         \* orders.status; "none" before the row exists
  channel,        \* orders.channel
  lines,          \* order_lines, as a quantity per variant
  totalCents,     \* orders.total_cents
  refundedCents,  \* orders.refunded_cents
  onHand,         \* inventory.on_hand
  reserved,       \* inventory.reserved
  allocation      \* inventory.walmart_allocation

stockVars == <<onHand, reserved, allocation>>
moneyVars == <<totalCents, refundedCents>>
vars == <<status, channel, lines, totalCents, refundedCents, onHand, reserved, allocation>>

Status == {"none", "pending", "paid", "fulfilled", "cancelled", "refunded"}
Channel == {"none", "storefront", "walmart"}
Cents == 0..MaxCents

(* No order has a row yet; the shelves have been counted, and no variant   *)
(* has an allocation, as in a new inventory row.                           *)
Init ==
  /\ status = [o \in Order |-> "none"]
  /\ channel = [o \in Order |-> "none"]
  /\ lines = [o \in Order |-> [v \in Variant |-> 0]]
  /\ totalCents = [o \in Order |-> 0]
  /\ refundedCents = [o \in Order |-> 0]
  /\ onHand \in [Variant -> 0..MaxOnHand]
  /\ reserved = [v \in Variant |-> 0]
  /\ allocation = [v \in Variant |-> NoAllocation]

-----------------------------------------------------------------------------
(* COALESCE(walmart_allocation, 0) *)
Coalesce(a) == IF a = NoAllocation THEN 0 ELSE a

Ordered(q) == {v \in Variant : q[v] > 0}

Free(v) == onHand[v] - reserved[v]

StorefrontSellable(v) ==
  LET left == Free(v) - Coalesce(allocation[v]) IN IF left > 0 THEN left ELSE 0

WalmartSellable(v) ==
  LET free == IF Free(v) > 0 THEN Free(v) ELSE 0 IN
  IF allocation[v] = NoAllocation \/ free < allocation[v] THEN free ELSE allocation[v]

(* An order that holds a reservation. *)
Open(o) == status[o] \in {"pending", "paid"}

(* variant: the allocation left out of the WHERE clause *)
CoversFromSharedStock(q) == \A v \in Ordered(q) : Free(v) >= q[v]

(* variant: the last sellable unit is refused *)
CoversAllButLast(q) ==
  \A v \in Ordered(q) : Free(v) - Coalesce(allocation[v]) > q[v]

(* The WHERE clauses that decide whether a channel's order can reserve. *)
StorefrontCovers(q) ==
  \A v \in Ordered(q) : Free(v) - Coalesce(allocation[v]) >= q[v]

WalmartCovers(q) ==
  \A v \in Ordered(q) :
    /\ Free(v) >= q[v]
    /\ allocation[v] # NoAllocation => allocation[v] >= q[v]

-----------------------------------------------------------------------------
(* placeOrder: an order for published variants, each line reserved only if *)
(* the storefront's share of the stock covers it.                          *)
PlaceOrder(o, q, total) ==
  /\ status[o] = "none"
  /\ Ordered(q) # {}
  /\ StorefrontCovers(q)
  /\ status' = [status EXCEPT ![o] = "pending"]
  /\ channel' = [channel EXCEPT ![o] = "storefront"]
  /\ lines' = [lines EXCEPT ![o] = q]
  /\ totalCents' = [totalCents EXCEPT ![o] = total]
  /\ reserved' = [v \in Variant |-> reserved[v] + q[v]]
  /\ UNCHANGED <<refundedCents, onHand, allocation>>

(* ingestWalmartOrder: a marketplace order is paid when it arrives; it     *)
(* consumes the allocation, if there is one, as it reserves.               *)
IngestWalmartOrder(o, q, total) ==
  /\ status[o] = "none"
  /\ Ordered(q) # {}
  /\ WalmartCovers(q)
  /\ status' = [status EXCEPT ![o] = "paid"]
  /\ channel' = [channel EXCEPT ![o] = "walmart"]
  /\ lines' = [lines EXCEPT ![o] = q]
  /\ totalCents' = [totalCents EXCEPT ![o] = total]
  /\ reserved' = [v \in Variant |-> reserved[v] + q[v]]
  /\ allocation' = [v \in Variant |-> IF allocation[v] = NoAllocation THEN NoAllocation
                                      ELSE allocation[v] - q[v]]
  /\ UNCHANGED <<refundedCents, onHand>>

(* markOrderPaidTx, with the figures Stripe charged. *)
MarkOrderPaid(o, total) ==
  /\ status[o] = "pending"
  /\ status' = [status EXCEPT ![o] = "paid"]
  /\ totalCents' = [totalCents EXCEPT ![o] = total]
  /\ UNCHANGED <<channel, lines, refundedCents, stockVars>>

(* onCompleted on a cancelled order: only the money is recorded. *)
RecordPaidAfterCancel(o, total) ==
  /\ status[o] = "cancelled"
  /\ channel[o] = "storefront"
  /\ totalCents' = [totalCents EXCEPT ![o] = total]
  /\ UNCHANGED <<status, channel, lines, refundedCents, stockVars>>

(* variant: a shipped order can be shipped again *)
FulfillAgain(o) ==
  /\ status[o] \in {"paid", "fulfilled"}
  /\ \A v \in Ordered(lines[o]) : reserved[v] >= lines[o][v] /\ onHand[v] >= lines[o][v]
  /\ status' = [status EXCEPT ![o] = "fulfilled"]
  /\ onHand' = [v \in Variant |-> onHand[v] - lines[o][v]]
  /\ reserved' = [v \in Variant |-> reserved[v] - lines[o][v]]
  /\ UNCHANGED <<channel, lines, moneyVars, allocation>>

(* fulfillOrder: the units leave the building and the hold with them.  A   *)
(* line the guarded UPDATE does not match is an inventory_conflict.        *)
FulfillOrder(o) ==
  /\ status[o] = "paid"
  /\ \A v \in Ordered(lines[o]) : reserved[v] >= lines[o][v] /\ onHand[v] >= lines[o][v]
  /\ status' = [status EXCEPT ![o] = "fulfilled"]
  /\ onHand' = [v \in Variant |-> onHand[v] - lines[o][v]]
  /\ reserved' = [v \in Variant |-> reserved[v] - lines[o][v]]
  /\ UNCHANGED <<channel, lines, moneyVars, allocation>>

(* variant: unsold Walmart units are not returned to the allocation *)
ReleaseToSharedStock(o) ==
  /\ \A v \in Ordered(lines[o]) : reserved[v] >= lines[o][v]
  /\ reserved' = [v \in Variant |-> reserved[v] - lines[o][v]]
  /\ UNCHANGED <<onHand, allocation>>

(* releaseReservation: the hold of o is dropped; unsold Walmart units go   *)
(* back to the allocation, if there is one now.                            *)
ReleaseReservation(o) ==
  /\ \A v \in Ordered(lines[o]) : reserved[v] >= lines[o][v]
  /\ reserved' = [v \in Variant |-> reserved[v] - lines[o][v]]
  /\ allocation' = [v \in Variant |->
                      IF channel[o] # "walmart" \/ allocation[v] = NoAllocation
                      THEN allocation[v] ELSE allocation[v] + lines[o][v]]
  /\ UNCHANGED onHand

(* cancelOrderTx.  Callers that pass onlyIfPending take this step on a     *)
(* pending order only.                                                     *)
CancelOrder(o) ==
  /\ Open(o)
  /\ ReleaseReservation(o)
  /\ status' = [status EXCEPT ![o] = "cancelled"]
  /\ UNCHANGED <<channel, lines, moneyVars>>

(* refundOrderTx: amount is Stripe's cumulative figure, full says whether  *)
(* it covers the charge.  Figures may arrive out of order.                 *)
RefundAccepted(o, amount) ==
  /\ status[o] # "none"
  /\ channel[o] = "storefront"
  /\ amount <= totalCents[o]

(* variant: the figures taken for amounts, and added up *)
SummedFigure(o, amount) == refundedCents[o] + amount

(* variant: the last event wins *)
LatestFigure(o, amount) == amount

RefundedFigure(o, amount) == IF amount > refundedCents[o] THEN amount ELSE refundedCents[o]

RefundPartially(o, amount) ==
  /\ RefundAccepted(o, amount)
  /\ status[o] # "refunded"
  /\ refundedCents' = [refundedCents EXCEPT ![o] = RefundedFigure(o, amount)]
  /\ UNCHANGED <<status, channel, lines, totalCents, stockVars>>

(* variant: refunding a cancelled order releases its hold a second time *)
HeldUntilRefund(o) == status[o] \in {"paid", "cancelled"}

HeldAtRefund(o) == status[o] = "paid"

RefundFully(o, amount) ==
  /\ RefundAccepted(o, amount)
  /\ status[o] \in {"paid", "fulfilled", "cancelled"}
  /\ IF HeldAtRefund(o) THEN ReleaseReservation(o) ELSE UNCHANGED stockVars
  /\ status' = [status EXCEPT ![o] = "refunded"]
  /\ refundedCents' = [refundedCents EXCEPT ![o] = RefundedFigure(o, amount)]
  /\ UNCHANGED <<channel, lines, totalCents>>

(* refundInTx, for a Walmart return: stock is not touched, an operator     *)
(* inspects the box first.                                                 *)
RefundWalmartReturn(o) ==
  /\ status[o] = "fulfilled"
  /\ channel[o] = "walmart"
  /\ status' = [status EXCEPT ![o] = "refunded"]
  /\ UNCHANGED <<channel, lines, moneyVars, stockVars>>

(* variant: the count is checked without looking at reservations *)
StockCovers(v, figure, alloc) == figure >= Coalesce(alloc)

ReservedAndAllocatedFit(v, figure, alloc) ==
  /\ figure >= reserved[v]
  /\ reserved[v] + Coalesce(alloc) <= figure

(* setStock: an absolute figure and an allocation, either of which may be  *)
(* the current one.  expectedOnHand only refuses more.                     *)
SetStock(v, figure, alloc) ==
  /\ ReservedAndAllocatedFit(v, figure, alloc)
  /\ onHand' = [onHand EXCEPT ![v] = figure]
  /\ allocation' = [allocation EXCEPT ![v] = alloc]
  /\ UNCHANGED <<status, channel, lines, moneyVars, reserved>>

Next ==
  \/ \E o \in Order :
       \/ \E q \in Quantities, total \in Cents :
            PlaceOrder(o, q, total) \/ IngestWalmartOrder(o, q, total)
       \/ \E total \in Cents : MarkOrderPaid(o, total) \/ RecordPaidAfterCancel(o, total)
       \/ FulfillOrder(o)
       \/ CancelOrder(o)
       \/ \E amount \in Cents : RefundPartially(o, amount) \/ RefundFully(o, amount)
       \/ RefundWalmartReturn(o)
  \/ \E v \in Variant, figure \in 0..MaxOnHand, alloc \in (0..MaxOnHand) \cup {NoAllocation} :
       SetStock(v, figure, alloc)

Spec == Init /\ [][Next]_vars

-----------------------------------------------------------------------------
TypeOK ==
  /\ status \in [Order -> Status]
  /\ channel \in [Order -> Channel]
  /\ lines \in [Order -> Quantities]
  /\ totalCents \in [Order -> Cents]
  /\ refundedCents \in [Order -> Cents]
  /\ onHand \in [Variant -> Nat]
  /\ reserved \in [Variant -> Nat]
  /\ allocation \in [Variant -> Nat \cup {NoAllocation}]

(* The stock as module StockPromises sees it: lines are promised while the *)
(* order is open.                                                          *)
Life == [o \in Order |-> IF status[o] = "none" THEN "new"
                         ELSE IF Open(o) THEN "promised" ELSE "settled"]

Promises == INSTANCE StockPromises WITH stock <- onHand, life <- Life, promise <- lines

(* The invariant the schema states for the inventory table "kept by every  *)
(* writer": reserved + COALESCE(walmart_allocation, 0) <= on_hand.         *)
StockInvariant ==
  \A v \in Variant : reserved[v] + Coalesce(allocation[v]) <= onHand[v]

(* The counter reserved, kept by six transactions of two channels, is      *)
(* exactly what open orders hold: nothing is released twice, and nothing   *)
(* is stranded by an order that has been settled.                          *)
OpenOrders == {o \in Order : Open(o)}

ReservedIsHeld == \A v \in Variant : reserved[v] = HoldCount(OpenOrders, lines, v)

(* The guarded UPDATEs of fulfillOrder and releaseReservation never match  *)
(* zero rows, so inventory_conflict is never thrown: an open order can     *)
(* always be shipped once paid, and always be released.                    *)
NoInventoryConflict ==
  \A o \in Order : Open(o) =>
    \A v \in Ordered(lines[o]) : reserved[v] >= lines[o][v] /\ onHand[v] >= lines[o][v]

(* An order is accepted exactly when it is within what the channel is told *)
(* it may sell (allocation.ts computes that apart from the WHERE clauses), *)
(* and two orders that the channels would each accept, of variants with an *)
(* allocation, never need the same unit.                                   *)
FiguresAgreeWithGuards ==
  \A q \in Quantities :
    /\ StorefrontCovers(q) <=> \A v \in Variant : q[v] <= StorefrontSellable(v)
    /\ WalmartCovers(q) <=> \A v \in Variant : q[v] <= WalmartSellable(v)
    /\ StorefrontCovers(q) =>
         \A r \in Quantities, v \in Variant :
           WalmartCovers(r) /\ allocation[v] # NoAllocation => q[v] + r[v] <= Free(v)

(* While a variant has an allocation, whatever happens to the orders of    *)
(* one channel leaves what the other channel may sell unchanged: Walmart's *)
(* units stay Walmart's, sold, cancelled or shipped (spec 5.1).            *)
Moved(c) == \E o \in Order : status'[o] # status[o] /\ channel'[o] = c

ChannelsIsolated ==
  [][\A v \in Variant : allocation[v] # NoAllocation =>
       /\ Moved("walmart") => StorefrontSellable(v)' = StorefrontSellable(v)
       /\ Moved("storefront") => WalmartSellable(v)' = WalmartSellable(v)]_vars

(* Refund events arrive in any order: a smaller cumulative figure never    *)
(* lowers the amount, and nothing takes an order out of refunded.          *)
RefundsOnlyGrow ==
  [][\A o \in Order :
       /\ refundedCents'[o] >= refundedCents[o]
       /\ status[o] = "refunded" => status'[o] = "refunded"]_vars

(* Every transaction on orders and stock is a step of StockPromises, or    *)
(* leaves promises and stock alone: no oversell, for all interleavings of  *)
(* the two channels, refunds and stock counts.                             *)
ImplementsStockPromises == Promises!Spec
=============================================================================
