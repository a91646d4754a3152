---------------------------- MODULE WalmartOrders ----------------------------
(***************************************************************************)
(* The life of Walmart purchase orders in the service: ingested by a       *)
(* webhook or by the polling sweep, shipped or cancelled by the operator,  *)
(* refunded when a return is seen; and the calls to Walmart that each of   *)
(* these owes, queued in the transaction that decides it (module Outbox).  *)
(* Walmart's side is the environment: it places orders, cancels them for   *)
(* the buyer, opens and refunds returns, and what it sends may be lost,    *)
(* repeated or old.  Stock is in modules Orders and StockLocks; here an    *)
(* order that cannot be ingested is "blocked".                             *)
(*                                                                         *)
(* Definitions marked "variant" are not the code's (see Outbox).           *)
(***************************************************************************)
EXTENDS Outbox

CONSTANTS
  PO, Return,
  Of,          \* the purchase order of each return
  PageSize,    \* orders on a page of the polling sweep (100)
  MaxPages,    \* MAX_ORDER_POLL_PAGES
  Orphaned,    \* purchase orders with a dead ack job from another version
  Stuck,       \* bound: purchase orders that are placed, and stay as they are, blocked
  MaxFaults    \* bound on failed calls, aborted sweeps and deaths together

ASSUME WalmartAssumption ==
  /\ Of \in [Return -> PO] /\ Stuck \subseteq PO /\ Orphaned \subseteq PO
  /\ PageSize \in Nat \ {0} /\ MaxPages \in Nat \ {0} /\ MaxFaults \in Nat
  /\ Work = {"ack", "ship", "cancel"} \X PO

VARIABLES
  placed,    \* at Walmart: "no", "open", "cancelled" (by the buyer)
  blocked,   \* purchase orders whose SKU is not listed or not in stock
  recent,    \* purchase orders created in the polled window of 7 days
  returned,  \* at Walmart: "no", "open", "refunded"
  told,      \* calls that Walmart took
  order,     \* orders.status, "none" without a row
  events,    \* purchase orders with an order_created event
  event,     \* the amount in each return_created event, "none" without one
  sent,      \* the handler of the worker's job has made its call
  poll,      \* pollWalmartOrders
  retPoll,   \* pollWalmartReturns: returns to be ingested, with the order as read
  faults

envVars == <<placed, blocked, recent, returned>>
vars == <<jobs, worker, envVars, told, order, events, event, sent, poll, retPoll, faults>>

IdlePoll == [at |-> "idle", todo |-> {}, page |-> {}, n |-> 0]

(* A dead ack job without its order may be left over from another version. *)
OrphanedAck(po) == [NewRow(<<"ack", po>>, FALSE) EXCEPT !.status = "dead"]

Init ==
  /\ \E old \in {FreeRow} \cup {OrphanedAck(po) : po \in Orphaned} :
       jobs = [j \in JobId |-> IF \A i \in JobId : j <= i THEN old ELSE FreeRow]
  /\ worker = IdleWorker
  /\ placed = [po \in PO |-> "no"]
  /\ blocked \in SUBSET PO /\ Stuck \subseteq blocked
  /\ recent = {}
  /\ returned = [r \in Return |-> "no"]
  /\ told = {}
  /\ order = [po \in PO |-> "none"]
  /\ events = {}
  /\ event = [r \in Return |-> "none"]
  /\ sent = FALSE
  /\ poll = IdlePoll /\ retPoll = {}
  /\ faults = 0

Fault == faults < MaxFaults /\ faults' = faults + 1

-----------------------------------------------------------------------------
(* Walmart and the catalog *)

Place(po) ==
  /\ placed[po] = "no"
  /\ placed' = [placed EXCEPT ![po] = "open"]
  /\ recent' = recent \cup {po}
  /\ UNCHANGED <<jobs, worker, blocked, returned, told, order, events, event, sent,
                 poll, retPoll, faults>>

BuyerCancels(po) ==
  /\ placed[po] = "open" /\ po \notin Stuck
  /\ placed' = [placed EXCEPT ![po] = "cancelled"]
  /\ UNCHANGED <<jobs, worker, blocked, recent, returned, told, order, events, event,
                 sent, poll, retPoll, faults>>

(* The SKU is listed, or stock comes in. *)
Unblock(po) ==
  /\ po \in blocked \ Stuck
  /\ blocked' = blocked \ {po}
  /\ UNCHANGED <<jobs, worker, placed, recent, returned, told, order, events, event,
                 sent, poll, retPoll, faults>>

(* Seven days hold hundreds of sweeps: what leaves the window without      *)
(* having been ingested has been blocked (or cancelled, and is skipped).   *)
LeaveWindow(po) ==
  /\ po \in (recent \cap blocked) \ Stuck
  /\ recent' = recent \ {po}
  /\ UNCHANGED <<jobs, worker, placed, blocked, returned, told, order, events, event, sent,
                 poll, retPoll, faults>>

OpenReturn(r) ==
  /\ returned[r] = "no" /\ placed[Of[r]] # "no"
  /\ returned' = [returned EXCEPT ![r] = "open"]
  /\ UNCHANGED <<jobs, worker, placed, blocked, recent, told, order, events, event,
                 sent, poll, retPoll, faults>>

(* By Walmart, or asked for by the operator with issueWalmartRefund. *)
RefundReturn(r) ==
  /\ returned[r] = "open"
  /\ returned' = [returned EXCEPT ![r] = "refunded"]
  /\ UNCHANGED <<jobs, worker, placed, blocked, recent, told, order, events, event,
                 sent, poll, retPoll, faults>>

-----------------------------------------------------------------------------
(* ingestWalmartOrder, with the payload saying whether the buyer cancelled *)

Ingestible(po, cancelled) == po \notin events /\ ~cancelled /\ po \notin blocked

(* The order, its event and its ack job commit together; everything else   *)
(* (known already, cancelled in full, unknown SKU, no stock) writes        *)
(* nothing, so that a later delivery can still succeed.                    *)
Ingest(po, cancelled) ==
  IF Ingestible(po, cancelled)
  THEN /\ RoomFor(<<"ack", po>>)
       /\ order' = [order EXCEPT ![po] = "paid"]
       /\ events' = events \cup {po}
       /\ jobs' = EnqueuedOnce(<<"ack", po>>)
  ELSE UNCHANGED <<order, events, jobs>>

(* The webhook carries the order as it was when it was placed, and Walmart *)
(* may send it late, again, or never.                                      *)
Webhook(po) ==
  /\ placed[po] # "no"
  /\ Ingestible(po, FALSE)
  /\ Ingest(po, FALSE)
  /\ UNCHANGED <<worker, envVars, told, event, sent, poll, retPoll, faults>>

-----------------------------------------------------------------------------
(* pollWalmartOrders *)

Payload(po) == [po |-> po, cancelled |-> placed[po] = "cancelled"]

StartPoll ==
  /\ poll.at = "idle"
  /\ poll' = [IdlePoll EXCEPT !.at = "fetch", !.todo = recent]
  /\ UNCHANGED <<jobs, worker, envVars, told, order, events, event, sent, retPoll, faults>>

(* A page of orders, as they are now. *)
FetchPage ==
  /\ poll.at = "fetch"
  /\ \E P \in SUBSET poll.todo :
       /\ Cardinality(P) <= PageSize /\ (P = poll.todo \/ Cardinality(P) = PageSize)
       /\ poll' = [at |-> "page", todo |-> poll.todo \ P,
                   page |-> {Payload(po) : po \in P}, n |-> poll.n + 1]
  /\ UNCHANGED <<jobs, worker, envVars, told, order, events, event, sent, retPoll, faults>>

(* variant: a bad order ends the sweep *)
StopAtBadOrder(p) ==
  IF p.po \in blocked \ events /\ ~p.cancelled THEN IdlePoll ELSE [poll EXCEPT !.page = @ \ {p}]

(* An order that cannot be ingested is logged, and the sweep goes on. *)
AfterOrder(p) == [poll EXCEPT !.page = @ \ {p}]

PollOrder(p) ==
  /\ poll.at = "page" /\ p \in poll.page
  /\ Ingest(p.po, p.cancelled)
  /\ poll' = AfterOrder(p)
  /\ UNCHANGED <<worker, envVars, told, event, sent, retPoll, faults>>

(* No next cursor, or too many pages: the rest waits for another sweep. *)
NextPage ==
  /\ poll.at = "page" /\ poll.page = {}
  /\ poll' = IF poll.todo = {} \/ poll.n >= MaxPages THEN IdlePoll ELSE [poll EXCEPT !.at = "fetch"]
  /\ UNCHANGED <<jobs, worker, envVars, told, order, events, event, sent, retPoll, faults>>

(* Any other error, of the call or of the database, ends the sweep. *)
AbortPoll ==
  /\ poll.at # "idle" /\ Fault
  /\ poll' = IdlePoll
  /\ UNCHANGED <<jobs, worker, envVars, told, order, events, event, sent, retPoll>>

-----------------------------------------------------------------------------
(* pollWalmartReturns and ingestWalmartReturn *)

Seen(r) == [ret |-> r, refunded |-> returned[r] = "refunded", read |-> "unread"]

(* A return that is on file is passed over; it stays on file, and only     *)
(* this poll files returns.                                                *)
FetchReturns ==
  /\ retPoll = {}
  /\ retPoll' = {Seen(r) : r \in {s \in Return : returned[s] # "no" /\ event[s] = "none"}}
  /\ retPoll' # {}
  /\ UNCHANGED <<jobs, worker, envVars, told, order, events, event, sent, poll, faults>>

AsRead(p) == [p EXCEPT !.read = IF order[Of[p.ret]] = "fulfilled" THEN "fulfilled" ELSE "other"]

(* One return after the other: its transaction begins with a read of the   *)
(* order, without a lock.                                                  *)
ReadOrder(p) ==
  /\ p \in retPoll /\ \A q \in retPoll : q.read = "unread"
  /\ retPoll' = (retPoll \ {p}) \cup {AsRead(p)}
  /\ UNCHANGED <<jobs, worker, envVars, told, order, events, event, sent, poll, faults>>

(* variant: the shipment must have reached Walmart *)
RefundsToldOrders(p) ==
  /\ p.refunded /\ p.read = "fulfilled" /\ order[Of[p.ret]] = "fulfilled"
  /\ <<"ship", Of[p.ret]>> \in told

(* refundInTx: decided on what was read, and written only if the order is  *)
(* still so.                                                               *)
RefundsOrder(p) == p.refunded /\ p.read = "fulfilled" /\ order[Of[p.ret]] = "fulfilled"

(* The transaction goes on and commits: the return is recorded, whatever   *)
(* the state of the order, and the order is refunded if Walmart has        *)
(* already refunded something and it was shipped when it was read.         *)
RecordReturn(p) ==
  /\ p \in retPoll /\ p.read # "unread"
  /\ retPoll' = retPoll \ {p}
  /\ event' = [event EXCEPT ![p.ret] = IF p.refunded THEN "refunded" ELSE "open"]
  /\ order' = IF RefundsOrder(p) THEN [order EXCEPT ![Of[p.ret]] = "refunded"] ELSE order
  /\ UNCHANGED <<jobs, worker, envVars, told, events, sent, poll, faults>>

AbortReturns ==
  /\ retPoll # {} /\ Fault
  /\ retPoll' = {}
  /\ UNCHANGED <<jobs, worker, envVars, told, order, events, event, sent, poll>>

-----------------------------------------------------------------------------
(* The operator: recordChannelShipment and cancelChannelOrder *)

RecordShipment(po) ==
  /\ order[po] = "paid" /\ RoomFor(<<"ship", po>>)
  /\ order' = [order EXCEPT ![po] = "fulfilled"]
  /\ jobs' = EnqueuedOnce(<<"ship", po>>)
  /\ UNCHANGED <<worker, envVars, told, events, event, sent, poll, retPoll, faults>>

(* variant: a shipped order can still be cancelled *)
CancelShippedToo(po) ==
  /\ order[po] \in {"paid", "fulfilled"} /\ RoomFor(<<"cancel", po>>)
  /\ order' = [order EXCEPT ![po] = "cancelled"]
  /\ jobs' = EnqueuedOnce(<<"cancel", po>>)
  /\ UNCHANGED <<worker, envVars, told, events, event, sent, poll, retPoll, faults>>

CancelOrder(po) ==
  /\ order[po] = "paid" /\ RoomFor(<<"cancel", po>>)
  /\ order' = [order EXCEPT ![po] = "cancelled"]
  /\ jobs' = EnqueuedOnce(<<"cancel", po>>)
  /\ UNCHANGED <<worker, envVars, told, events, event, sent, poll, retPoll, faults>>

-----------------------------------------------------------------------------
(* The drain *)

StartDrain ==
  /\ StartBatch
  /\ UNCHANGED <<envVars, told, order, events, event, sent, poll, retPoll, faults>>

PickUpJob ==
  /\ \E j \in JobId : PickUp(j)
  /\ UNCHANGED <<envVars, told, order, events, event, sent, poll, retPoll, faults>>

Call == jobs[worker.job].work

(* Walmart takes the call. *)
Tell ==
  /\ worker.job # NoJob /\ ~sent
  /\ told' = told \cup {Call}
  /\ sent' = TRUE
  /\ UNCHANGED <<jobs, worker, envVars, order, events, event, poll, retPoll, faults>>

(* variant: the job is marked done when it is picked up *)
FinishUnsent ==
  /\ worker.job # NoJob
  /\ Finished /\ sent' = FALSE
  /\ UNCHANGED <<envVars, told, order, events, event, poll, retPoll, faults>>

FinishJob ==
  /\ worker.job # NoJob /\ sent
  /\ Finished /\ sent' = FALSE
  /\ UNCHANGED <<envVars, told, order, events, event, poll, retPoll, faults>>

(* The call fails, its answer is lost, or Walmart refuses it because the   *)
(* buyer has cancelled.                                                    *)
FailJob ==
  /\ worker.job # NoJob
  /\ \/ Fault
     \/ ~sent /\ placed[Call[2]] = "cancelled" /\ UNCHANGED faults
  /\ Failed /\ sent' = FALSE
  /\ UNCHANGED <<envVars, told, order, events, event, poll, retPoll>>

RetryDue ==
  /\ \E j \in JobId : BackOffEnds(j)
  /\ UNCHANGED <<envVars, told, order, events, event, sent, poll, retPoll, faults>>

Crash ==
  /\ <<worker, poll, retPoll>> # <<IdleWorker, IdlePoll, {}>> /\ Fault
  /\ WorkerGone /\ sent' = FALSE
  /\ poll' = IdlePoll /\ retPoll' = {}
  /\ UNCHANGED <<envVars, told, order, events, event>>

-----------------------------------------------------------------------------
Environment ==
  \/ \E po \in PO : Place(po) \/ BuyerCancels(po) \/ Unblock(po) \/ LeaveWindow(po)
  \/ \E r \in Return : OpenReturn(r) \/ RefundReturn(r)

Poll == StartPoll \/ FetchPage \/ (\E p \in poll.page : PollOrder(p)) \/ NextPage

PollReturns == FetchReturns \/ \E p \in retPoll : ReadOrder(p) \/ RecordReturn(p)

Drain == StartDrain \/ PickUpJob \/ Tell \/ FinishJob

Next ==
  \/ Environment
  \/ \E po \in PO : Webhook(po) \/ RecordShipment(po) \/ CancelOrder(po)
  \/ Poll \/ AbortPoll
  \/ PollReturns \/ AbortReturns
  \/ Drain \/ FailJob \/ RetryDue
  \/ Crash

Spec == Init /\ [][Next]_vars

(* The worker's timers: each of its tasks runs again and goes on. *)
Fairness ==
  /\ WF_vars(Poll) /\ WF_vars(PollReturns)
  /\ WF_vars(Drain) /\ WF_vars(RetryDue)

FairSpec == Spec /\ Fairness

-----------------------------------------------------------------------------
TypeOK ==
  /\ OutboxTypeOK
  /\ placed \in [PO -> {"no", "open", "cancelled"}]
  /\ blocked \subseteq PO /\ recent \subseteq PO
  /\ returned \in [Return -> {"no", "open", "refunded"}]
  /\ told \subseteq Work
  /\ order \in [PO -> {"none", "paid", "fulfilled", "cancelled", "refunded"}]
  /\ events \subseteq PO
  /\ event \in [Return -> {"none", "open", "refunded"}]
  /\ sent \in BOOLEAN
  /\ poll \in [at : {"idle", "fetch", "page"}, todo : SUBSET PO,
               page : SUBSET [po : PO, cancelled : BOOLEAN], n : 0..MaxPages]
  /\ retPoll \subseteq [ret : Return, refunded : BOOLEAN, read : {"unread", "fulfilled", "other"}]
  /\ faults \in 0..MaxFaults

(* Decided: what the service has decided about an order and owes Walmart. *)
Decided(po) ==
  (IF po \in events THEN {<<"ack", po>>} ELSE {})
  \cup (IF order[po] \in {"fulfilled", "refunded"} THEN {<<"ship", po>>} ELSE {})
  \cup (IF order[po] = "cancelled" THEN {<<"cancel", po>>} ELSE {})

(* Every decision has its job, through crashes and redeliveries, and a job *)
(* that is done was taken by Walmart.                                      *)
DecisionsAreQueued ==
  \A po \in PO : \A w \in Decided(po) :
    \E j \in Holders(w) : jobs[j].status = "done" => w \in told

(* Walmart is never told of a shipment or of a cancellation that the       *)
(* service did not commit, nor of both for one order.                      *)
ToldOnlyDecisions == \A w \in told : w[1] = "ack" \/ w \in Decided(w[2])

Dead(w) == \E j \in Holders(w) : jobs[j].status = "dead"

(* Once the operator is done, every decision has reached Walmart or its    *)
(* job is dead-lettered.                                                   *)
DecisionsReachWalmart ==
  <>[](\A po \in PO : \A w \in Decided(po) : w \in told \/ Dead(w))

(* An order whose webhook is lost is ingested by the sweep before it       *)
(* leaves the window, unless the buyer cancels it or it is blocked all the *)
(* time; other orders that are blocked do not keep it from being seen.     *)
MissedOrdersAreIngested ==
  <>[](\A po \in PO : placed[po] = "open" /\ po \in recent \ blocked => po \in events)

(* A return that the poll has still to read as it is now: not on file, not *)
(* fetched before its refund, its order not read before the shipment.      *)
ToBeSeen(r) ==
  /\ event[r] = "none"
  /\ \A p \in retPoll : p.ret = r => p.refunded /\ p.read \in {"unread", "fulfilled"}

(* A refund made by Walmart before its return is first seen, for an order  *)
(* shipped by then, refunds the order, through failed polls and deaths.    *)
RefundsReachOrders ==
  \A r \in Return :
    (returned[r] = "refunded" /\ order[Of[r]] = "fulfilled" /\ ToBeSeen(r))
      ~> (order[Of[r]] = "refunded")
=============================================================================
