------------------------- MODULE WalmartOrdersProofs -------------------------
(***************************************************************************)
(* What holds of Walmart orders for any purchase orders, returns, jobs and *)
(* limits, through crashes, failed calls and redeliveries: every decision  *)
(* has its job, and Walmart is told of nothing that was not decided.       *)
(***************************************************************************)
EXTENDS WalmartOrders, OutboxProofs

(* The part of the types that is not the job table's. *)
RestTyped ==
  /\ placed \in [PO -> {"no", "open", "cancelled"}]
  /\ blocked \subseteq PO /\ recent \subseteq PO
  /\ returned \in [Return -> {"no", "open", "refunded"}]
  /\ order \in [PO -> {"none", "paid", "fulfilled", "cancelled", "refunded"}]
  /\ events \subseteq PO
  /\ event \in [Return -> {"none", "open", "refunded"}]
  /\ retPoll \subseteq [ret : Return, refunded : BOOLEAN, read : {"unread", "fulfilled", "other"}]
  /\ faults \in 0..MaxFaults

(* A page is asked for only while the sweep may still take one. *)
PollTyped ==
  /\ poll \in [at : {"idle", "fetch", "page"}, todo : SUBSET PO,
               page : SUBSET [po : PO, cancelled : BOOLEAN], n : 0..MaxPages]
  /\ poll.at = "fetch" => poll.n < MaxPages

(* Jobs of orders keep their keys for ever: a done job still keeps its     *)
(* work from being queued again.  What is done, or being recorded as done, *)
(* Walmart took.                                                           *)
JobsKeepKeys ==
  /\ told \subseteq Work /\ sent \in BOOLEAN
  /\ \A j \in Queued : jobs[j].held /\ ~jobs[j].recurring
  /\ \A j \in Queued : jobs[j].status = "done" => jobs[j].work \in told
  /\ sent => worker.job # NoJob /\ Call \in told

(* Orders and the jobs about them. *)
OrdersMatchJobs ==
  /\ \A po \in PO : order[po] # "none" => po \in events
  /\ \A j \in Queued, po \in PO :
       jobs[j].work[1] # "ack" /\ jobs[j].work[2] = po => jobs[j].work \in Decided(po)
  /\ \A po \in PO : \A w \in Decided(po) : Holders(w) # {}

IInv == OutboxInv /\ RestTyped /\ PollTyped /\ JobsKeepKeys /\ OrdersMatchJobs /\ ToldOnlyDecisions

-----------------------------------------------------------------------------
(* The four ways an order changes and a job is queued in one transaction. *)
Queues(w) ==
  /\ RoomFor(w) /\ jobs' = EnqueuedOnce(w)
  /\ UNCHANGED <<worker, sent, told, event, retPoll>>

NewOrder(po) ==
  /\ po \notin events
  /\ order' = [order EXCEPT ![po] = "paid"] /\ events' = events \cup {po}
  /\ Queues(<<"ack", po>>)

Ships(po) ==
  /\ order[po] = "paid" /\ order' = [order EXCEPT ![po] = "fulfilled"] /\ UNCHANGED events
  /\ Queues(<<"ship", po>>)

Cancels(po) ==
  /\ order[po] = "paid" /\ order' = [order EXCEPT ![po] = "cancelled"] /\ UNCHANGED events
  /\ Queues(<<"cancel", po>>)

Refunds(p) ==
  /\ order[Of[p.ret]] = "fulfilled" /\ order' = [order EXCEPT ![Of[p.ret]] = "refunded"]
  /\ UNCHANGED <<events, jobs, worker, sent, told>>

Worker == StartDrain \/ PickUpJob \/ Tell \/ FinishJob \/ FailJob \/ RetryDue \/ Crash

(* What a step does to orders and jobs. *)
LEMMA Steps ==
  ASSUME RestTyped, PollTyped, [Next]_vars
  PROVE  \/ UNCHANGED <<order, events, jobs, worker, sent, told>>
         \/ \E po \in PO : NewOrder(po) \/ Ships(po) \/ Cancels(po)
         \/ \E p \in retPoll : Refunds(p)
         \/ Worker /\ UNCHANGED <<order, events>>
<1>1. ASSUME NEW po \in PO, Webhook(po)
      PROVE  NewOrder(po)
  BY <1>1 DEF Webhook, Ingest, Ingestible, NewOrder, Queues
<1>2. ASSUME NEW p \in poll.page, PollOrder(p)
      PROVE  \/ UNCHANGED <<order, events, jobs, worker, sent, told>>
             \/ \E po \in PO : NewOrder(po)
  <2>1. p.po \in PO
    BY DEF PollTyped
  <2>2. CASE Ingestible(p.po, p.cancelled)
    <3>1. NewOrder(p.po)
      BY <1>2, <2>2 DEF PollOrder, Ingest, Ingestible, NewOrder, Queues
    <3>2. QED
      BY <2>1, <3>1
  <2>3. QED
    BY <1>2, <2>2 DEF PollOrder, Ingest
<1>3. ASSUME NEW po \in PO, RecordShipment(po)
      PROVE  Ships(po)
  BY <1>3 DEF RecordShipment, Ships, Queues
<1>4. ASSUME NEW po \in PO, CancelOrder(po)
      PROVE  Cancels(po)
  BY <1>4 DEF CancelOrder, Cancels, Queues
<1>5. ASSUME NEW p \in retPoll, RecordReturn(p)
      PROVE  UNCHANGED <<order, events, jobs, worker, sent, told>> \/ Refunds(p)
  BY <1>5 DEF RecordReturn, RefundsOrder, Refunds
<1>6. CASE Worker
  BY <1>6 DEF Worker, StartDrain, PickUpJob, Tell, FinishJob, FailJob, RetryDue, Crash
<1>7. CASE \/ Environment \/ StartPoll \/ FetchPage \/ NextPage \/ AbortPoll \/ FetchReturns
           \/ (\E p \in retPoll : ReadOrder(p)) \/ AbortReturns \/ UNCHANGED vars
  BY <1>7 DEF Environment, Place, BuyerCancels, Unblock, LeaveWindow, OpenReturn, RefundReturn,
     StartPoll, FetchPage, NextPage, AbortPoll, FetchReturns, ReadOrder, AbortReturns, vars
<1>8. QED
  BY <1>1, <1>2, <1>3, <1>4, <1>5, <1>6, <1>7 DEF Next, Poll, PollReturns, Drain, Worker

-----------------------------------------------------------------------------
(* What a poll of returns reads is typed. *)
LEMMA SeenTyped == \A r \in Return : Seen(r) \in [ret : Return, refunded : BOOLEAN, read : {"unread", "fulfilled", "other"}]
BY Zenon DEF Seen

(* What a poll of orders reads is typed. *)
LEMMA PayloadTyped == \A po \in PO : Payload(po) \in [po : PO, cancelled : BOOLEAN]
BY Zenon DEF Payload

(* Every step, for the types outside the job table. *)
LEMMA RestStep ==
  ASSUME IInv, [Next]_vars
  PROVE  RestTyped'
<1> USE DEF IInv, RestTyped
<1>1. /\ placed' \in [PO -> {"no", "open", "cancelled"}]
      /\ blocked' \subseteq PO /\ recent' \subseteq PO
      /\ returned' \in [Return -> {"no", "open", "refunded"}]
  <2>1. CASE Environment
    BY <2>1 DEF Environment, Place, BuyerCancels, Unblock, LeaveWindow, OpenReturn, RefundReturn
  <2>2. CASE ~Environment
    BY <2>2 DEF Next, Webhook, RecordShipment, CancelOrder, Poll, StartPoll, FetchPage, PollOrder,
       NextPage, AbortPoll, PollReturns, FetchReturns, ReadOrder, RecordReturn, AbortReturns, Drain, StartDrain,
       PickUpJob, Tell, FinishJob, FailJob, RetryDue, Crash, vars, envVars
  <2>3. QED
    BY <2>1, <2>2
<1>2. order' \in [PO -> {"none", "paid", "fulfilled", "cancelled", "refunded"}] /\ events' \subseteq PO
  BY Steps DEF NewOrder, Ships, Cancels, Refunds
<1>3. faults' \in 0..MaxFaults
  <2>1. CASE Fault
    BY <2>1, WalmartAssumption DEF Fault
  <2>2. CASE UNCHANGED faults
    BY <2>2
  <2>3. QED
    BY <2>1, <2>2 DEF Next, Environment, Place, BuyerCancels, Unblock, LeaveWindow, OpenReturn,
       RefundReturn, Webhook, RecordShipment, CancelOrder, Poll, StartPoll, FetchPage, PollOrder,
       NextPage, AbortPoll, PollReturns, FetchReturns, ReadOrder, RecordReturn, AbortReturns, Drain, StartDrain,
       PickUpJob, Tell, FinishJob, FailJob, RetryDue, Crash, vars
<1>4. event' \in [Return -> {"none", "open", "refunded"}]
  <2>1. ASSUME NEW p \in retPoll, RecordReturn(p)
        PROVE  event' \in [Return -> {"none", "open", "refunded"}]
    BY <2>1 DEF RecordReturn
  <2>2. (\E p \in retPoll : RecordReturn(p)) \/ UNCHANGED event
    BY DEF Next, Environment, Place, BuyerCancels, Unblock, LeaveWindow, OpenReturn,
       RefundReturn, Webhook, RecordShipment, CancelOrder, Poll, StartPoll, FetchPage, PollOrder,
       NextPage, AbortPoll, PollReturns, FetchReturns, ReadOrder, AbortReturns, Drain, StartDrain,
       PickUpJob, Tell, FinishJob, FailJob, RetryDue, Crash, vars
  <2>3. QED
    BY <2>1, <2>2
<1>5. retPoll' \subseteq [ret : Return, refunded : BOOLEAN, read : {"unread", "fulfilled", "other"}]
  <2>1. CASE FetchReturns
    BY <2>1, SeenTyped DEF FetchReturns
  <2>2. ASSUME NEW p \in retPoll, ReadOrder(p)
        PROVE  retPoll' \subseteq [ret : Return, refunded : BOOLEAN, read : {"unread", "fulfilled", "other"}]
    <3>1. AsRead(p) \in [ret : Return, refunded : BOOLEAN, read : {"unread", "fulfilled", "other"}]
      BY DEF AsRead
    <3>2. QED
      BY <2>2, <3>1 DEF ReadOrder
  <2>3. CASE ~FetchReturns /\ ~ \E p \in retPoll : ReadOrder(p)
    BY <2>3 DEF Next, Environment, Place, BuyerCancels, Unblock, LeaveWindow, OpenReturn,
       RefundReturn, Webhook, RecordShipment, CancelOrder, Poll, StartPoll, FetchPage, PollOrder,
       NextPage, AbortPoll, PollReturns, RecordReturn, AbortReturns, Drain, StartDrain,
       PickUpJob, Tell, FinishJob, FailJob, RetryDue, Crash, vars
  <2>4. QED
    BY <2>1, <2>2, <2>3
<1>6. QED
  BY <1>1, <1>2, <1>3, <1>4, <1>5

(* Every step, for the polling sweep and its page cap. *)
LEMMA PollStep ==
  ASSUME IInv, [Next]_vars
  PROVE  PollTyped'
<1> USE DEF IInv, RestTyped, PollTyped
<1>1. IdlePoll.at = "idle" /\ IdlePoll \in [at : {"idle", "fetch", "page"}, todo : SUBSET PO,
               page : SUBSET [po : PO, cancelled : BOOLEAN], n : 0..MaxPages]
  BY WalmartAssumption DEF IdlePoll
<1>2. CASE StartPoll
  <2>1. poll' = [at |-> "fetch", todo |-> recent, page |-> {}, n |-> 0]
    BY <1>2 DEF StartPoll, IdlePoll
  <2>2. QED
    BY <2>1, WalmartAssumption
<1>3. CASE FetchPage
  <2>1. PICK P \in SUBSET poll.todo :
          poll' = [at |-> "page", todo |-> poll.todo \ P,
                   page |-> {Payload(po) : po \in P}, n |-> poll.n + 1]
    BY <1>3 DEF FetchPage
  <2>2. {Payload(po) : po \in P} \subseteq [po : PO, cancelled : BOOLEAN]
    BY <2>1, PayloadTyped
  <2>3. poll.n + 1 \in 0..MaxPages
    BY <1>3, WalmartAssumption DEF FetchPage
  <2>4. QED
    BY <2>1, <2>2, <2>3
<1>4. ASSUME NEW p \in poll.page, PollOrder(p)
      PROVE  PollTyped'
  BY <1>4 DEF PollOrder, AfterOrder
<1>5. CASE NextPage
  BY <1>1, <1>5, WalmartAssumption DEF NextPage
<1>6. CASE AbortPoll \/ Crash
  BY <1>1, <1>6 DEF AbortPoll, Crash
<1>7. \/ StartPoll \/ FetchPage \/ (\E p \in poll.page : PollOrder(p)) \/ NextPage
      \/ AbortPoll \/ Crash \/ UNCHANGED poll
  BY DEF Next, Environment, Place, BuyerCancels, Unblock, LeaveWindow, OpenReturn,
     RefundReturn, Webhook, RecordShipment, CancelOrder, Poll,
     PollReturns, FetchReturns, ReadOrder, RecordReturn, AbortReturns, Drain, StartDrain,
     PickUpJob, Tell, FinishJob, FailJob, RetryDue, vars
<1>8. QED
  BY <1>2, <1>3, <1>4, <1>5, <1>6, <1>7

-----------------------------------------------------------------------------
(* A ship or cancel job, once decided, stays decided; an ack job too.      *)
LEMMA DecidedStays ==
  ASSUME IInv, [Next]_vars, NEW po \in PO
  PROVE  Decided(po) \subseteq Decided(po)'
<1> USE DEF IInv, RestTyped, OrdersMatchJobs
<1>1. ASSUME NEW q \in PO, NewOrder(q)
      PROVE  Decided(po) \subseteq Decided(po)'
  <2>1. order[q] = "none"
    BY <1>1 DEF NewOrder
  <2>2. QED
    BY <1>1, <2>1 DEF NewOrder, Decided
<1>2. ASSUME NEW q \in PO, Ships(q) \/ Cancels(q)
      PROVE  Decided(po) \subseteq Decided(po)'
  BY <1>2 DEF Ships, Cancels, Decided
<1>3. ASSUME NEW p \in retPoll, Refunds(p)
      PROVE  Decided(po) \subseteq Decided(po)'
  BY <1>3 DEF Refunds, Decided
<1>4. CASE UNCHANGED <<order, events>>
  BY <1>4 DEF Decided
<1>5. QED
  BY <1>1, <1>2, <1>3, <1>4, Steps

(* Queueing keeps what is known of the jobs. *)
LEMMA QueueKeeps ==
  ASSUME IInv, NEW w \in Work, Queues(w)
  PROVE  OutboxInv' /\ JobsKeepKeys' /\ JobsStay /\ Holders(w)' # {}
<1> USE DEF IInv, JobsKeepKeys
<1>1. /\ OutboxInv' /\ JobsStay /\ Holders(w)' # {}
      /\ \A j \in JobId :
           \/ jobs'[j] = jobs[j]
           \/ /\ j \notin Queued \/ j \in Holders(w)
              /\ jobs'[j].work = w /\ jobs'[j].held /\ jobs'[j].status = "pending"
              /\ jobs'[j].recurring => j \in Queued /\ jobs[j].recurring
  BY EnqueueKeeps DEF Queues
<1>2. ASSUME NEW j \in Queued'
      PROVE  /\ jobs'[j].held /\ ~jobs'[j].recurring
             /\ jobs'[j].status = "done" => jobs'[j].work \in told
  <2>1. j \in JobId
    BY DEF Queued
  <2>2. CASE jobs'[j] = jobs[j]
    BY <2>1, <2>2 DEF Queued
  <2>3. CASE /\ jobs'[j].work = w /\ jobs'[j].held /\ jobs'[j].status = "pending"
             /\ jobs'[j].recurring => j \in Queued /\ jobs[j].recurring
    BY <2>1, <2>3
  <2>4. QED
    BY <1>1, <2>1, <2>2, <2>3
<1>3. sent' => worker'.job # NoJob /\ Call' \in told
  <2>1. worker.job # NoJob => worker.job \in Queued
    BY DEF OutboxInv, OutboxTypeOK, WorkerSafe, Queued
  <2>2. QED
    BY <1>1, <2>1 DEF Queues, Call, JobsStay
<1>4. QED
  BY <1>1, <1>2, <1>3 DEF Queues

(* The worker neither adds jobs nor takes their keys, and tells Walmart    *)
(* only what a job says.                                                   *)
LEMMA WorkerKeeps ==
  ASSUME IInv, Worker
  PROVE  /\ OutboxInv' /\ JobsKeepKeys' /\ JobsStay
         /\ \A j \in Queued' : j \in Queued
         /\ \A w \in told' : w \in told \/ \E j \in Queued : w = jobs[j].work
<1> USE DEF IInv, JobsKeepKeys
<1>1. /\ worker.job # NoJob => worker.job \in Queued /\ jobs[worker.job].status = "pending"
      /\ \A j \in Queued : j \in JobId /\ jobs[j] \in Row
  BY DEF OutboxInv, OutboxTypeOK, WorkerSafe, Queued
<1>2. CASE StartDrain
  <2>1. OutboxInv' /\ JobsStay
    BY <1>2, BatchKeeps DEF StartDrain
  <2>2. UNCHANGED <<jobs, told, sent>> /\ ~sent
    BY <1>2 DEF StartDrain, StartBatch, IdleWorker
  <2>3. QED
    BY <2>1, <2>2 DEF Queued
<1>3. CASE Crash
  <2>1. OutboxInv' /\ JobsStay
    BY <1>3, BatchKeeps DEF Crash
  <2>2. UNCHANGED <<jobs, told>> /\ sent' = FALSE
    BY <1>3 DEF Crash, WorkerGone
  <2>3. QED
    BY <2>1, <2>2 DEF Queued
<1>4. CASE Tell
  <2>1. OutboxInv' /\ JobsStay
    BY <1>4, BatchKeeps DEF Tell
  <2>2. /\ UNCHANGED <<jobs, worker>> /\ worker.job # NoJob
        /\ told' = told \cup {Call} /\ sent' = TRUE
    BY <1>4 DEF Tell
  <2>3. Call \in Work
    BY <1>1, <2>2 DEF Call, Row
  <2>4. QED
    BY <1>1, <2>1, <2>2, <2>3 DEF Queued, Call
<1>5. CASE PickUpJob
  <2>1. PICK j \in JobId : PickUp(j)
    BY <1>5 DEF PickUpJob
  <2>2. /\ OutboxInv' /\ JobsStay /\ jobs'[j] = AtPickup(jobs[j])
        /\ \A i \in JobId : i # j => jobs'[i] = jobs[i]
    BY <2>1, PickUpKeeps
  <2>3. j \in Queued
    BY <2>1 DEF PickUp, OutboxInv, WorkerSafe, Queued
  <2>4. \A i \in JobId : jobs'[i] = jobs[i]
    BY <2>2, <2>3 DEF AtPickup
  <2>5. UNCHANGED <<told, sent>> /\ ~sent
    BY <1>5, <2>1 DEF PickUpJob, PickUp
  <2>6. QED
    BY <2>2, <2>4, <2>5 DEF Queued
<1>6. CASE FinishJob
  <2> DEFINE j == worker.job
  <2>1. /\ OutboxInv' /\ JobsStay /\ jobs'[j] = [jobs[j] EXCEPT !.status = "done"]
        /\ \A i \in JobId : i # j => jobs'[i] = jobs[i]
    BY <1>6, FinishedKeeps DEF FinishJob
  <2>2. j \in Queued /\ jobs[j].work \in told /\ UNCHANGED told /\ sent' = FALSE
    BY <1>1, <1>6 DEF FinishJob, Call
  <2>3. jobs'[j].held /\ ~jobs'[j].recurring /\ jobs'[j].work = jobs[j].work
    BY <1>1, <2>1, <2>2 DEF Row
  <2>4. \A i \in Queued' : i \in Queued
    BY <2>1, <2>2 DEF Queued
  <2>5. QED
    BY <1>1, <2>1, <2>2, <2>3, <2>4
<1>7. CASE FailJob
  <2> DEFINE j == worker.job
  <2>1. /\ OutboxInv' /\ JobsStay
        /\ jobs'[j].status \in {"dead", "pending"}
        /\ jobs'[j].held = jobs[j].held /\ jobs'[j].recurring = jobs[j].recurring
        /\ \A i \in JobId : i # j => jobs'[i] = jobs[i]
    BY <1>7, FailedKeeps DEF FailJob
  <2>2. j \in Queued /\ UNCHANGED told /\ sent' = FALSE
    BY <1>1, <1>7 DEF FailJob
  <2>3. \A i \in Queued' : i \in Queued
    BY <2>1, <2>2 DEF Queued
  <2>4. QED
    BY <1>1, <2>1, <2>2, <2>3
<1>8. CASE RetryDue
  <2>1. PICK j \in JobId : BackOffEnds(j)
    BY <1>8 DEF RetryDue
  <2>2. /\ OutboxInv' /\ JobsStay /\ jobs'[j] = [jobs[j] EXCEPT !.waiting = FALSE]
        /\ \A i \in JobId : i # j => jobs'[i] = jobs[i]
    BY <2>1, BackOffKeeps
  <2>3. j \in Queued
    BY <2>1 DEF BackOffEnds, Queued
  <2>4. /\ jobs'[j].held /\ ~jobs'[j].recurring /\ jobs'[j].work = jobs[j].work
        /\ jobs'[j].status = jobs[j].status
    BY <1>1, <2>2, <2>3 DEF Row
  <2>5. UNCHANGED <<told, sent, worker>>
    BY <1>8, <2>1 DEF RetryDue, BackOffEnds
  <2>6. \A i \in Queued' : i \in Queued
    BY <2>2, <2>3 DEF Queued
  <2>7. sent' => worker'.job # NoJob /\ Call' \in told'
    BY <1>1, <2>2, <2>5 DEF Call, JobsStay
  <2>8. QED
    BY <1>1, <2>2, <2>3, <2>4, <2>5, <2>6, <2>7
<1>9. QED
  BY <1>2, <1>3, <1>4, <1>5, <1>6, <1>7, <1>8 DEF Worker

-----------------------------------------------------------------------------
(* Every step, for the jobs. *)
LEMMA JobsStep ==
  ASSUME IInv, [Next]_vars
  PROVE  OutboxInv' /\ JobsKeepKeys' /\ JobsStay
<1>1. ASSUME NEW po \in PO, NewOrder(po) \/ Ships(po) \/ Cancels(po)
      PROVE  OutboxInv' /\ JobsKeepKeys' /\ JobsStay
  <2>1. PICK w \in Work : Queues(w)
    BY <1>1, WalmartAssumption DEF NewOrder, Ships, Cancels
  <2>2. QED
    BY <2>1, QueueKeeps
<1>2. CASE UNCHANGED <<jobs, worker, sent, told>>
  BY <1>2, BatchKeeps DEF IInv, JobsKeepKeys, Queued, Call
<1>3. QED
  BY <1>1, <1>2, WorkerKeeps, Steps DEF IInv, Refunds

(* Every step, for the orders: what is decided gets its job in the same    *)
(* step, and keeps it.                                                     *)
LEMMA OrdersStep ==
  ASSUME IInv, [Next]_vars
  PROVE  OrdersMatchJobs' /\ ToldOnlyDecisions'
<1> USE DEF IInv, RestTyped
<1>1. ASSUME NEW w \in Work PROVE Holders(w) \subseteq Holders(w)'
  BY JobsStep DEF Holders, JobsStay, JobsKeepKeys
<1>2. \A po \in PO : Decided(po) \subseteq Decided(po)'
  BY DecidedStays
<1>3. \A po \in PO : order'[po] # "none" => po \in events'
  <2>1. ASSUME NEW po \in PO, NewOrder(po) \/ Ships(po) \/ Cancels(po)
        PROVE  \A q \in PO : order'[q] # "none" => q \in events'
    BY <2>1 DEF NewOrder, Ships, Cancels, OrdersMatchJobs
  <2>2. ASSUME NEW p \in retPoll, Refunds(p)
        PROVE  \A q \in PO : order'[q] # "none" => q \in events'
    BY <2>2 DEF Refunds, OrdersMatchJobs
  <2>3. CASE UNCHANGED <<order, events>>
    BY <2>3 DEF OrdersMatchJobs
  <2>4. QED
    BY <2>1, <2>2, <2>3, Steps
<1>4. ASSUME NEW po \in PO, NEW w \in Decided(po)', w \notin Decided(po)
      PROVE  w \in Work /\ Queues(w) /\ w[2] = po
  <2>1. ASSUME NEW q \in PO, NewOrder(q)
        PROVE  w \in Work /\ Queues(w) /\ w[2] = po
    <3>1. w = <<"ack", q>> /\ q = po
      BY <1>4, <2>1 DEF NewOrder, Decided
    <3>2. QED
      BY <2>1, <3>1, WalmartAssumption DEF NewOrder
  <2>2. ASSUME NEW q \in PO, Ships(q)
        PROVE  w \in Work /\ Queues(w) /\ w[2] = po
    <3>1. w = <<"ship", q>> /\ q = po
      BY <1>4, <2>2 DEF Ships, Decided
    <3>2. QED
      BY <2>2, <3>1, WalmartAssumption DEF Ships
  <2>3. ASSUME NEW q \in PO, Cancels(q)
        PROVE  w \in Work /\ Queues(w) /\ w[2] = po
    <3>1. w = <<"cancel", q>> /\ q = po
      BY <1>4, <2>3 DEF Cancels, Decided
    <3>2. QED
      BY <2>3, <3>1, WalmartAssumption DEF Cancels
  <2>4. ASSUME NEW p \in retPoll, Refunds(p)
        PROVE  FALSE
    BY <1>4, <2>4 DEF Refunds, Decided
  <2>5. CASE UNCHANGED <<order, events>>
    BY <1>4, <2>5 DEF Decided
  <2>6. QED
    BY <2>1, <2>2, <2>3, <2>4, <2>5, Steps
<1>5. ASSUME NEW po \in PO, NEW w \in Decided(po)'
      PROVE  Holders(w)' # {}
  <2>1. w \in Work
    BY WalmartAssumption DEF Decided
  <2>2. CASE w \in Decided(po)
    BY <1>1, <2>1, <2>2 DEF OrdersMatchJobs
  <2>3. CASE w \notin Decided(po)
    BY <1>4, <2>3, QueueKeeps
  <2>4. QED
    BY <2>2, <2>3
<1>6. ASSUME NEW j \in Queued', NEW po \in PO, jobs'[j].work[1] # "ack", jobs'[j].work[2] = po
      PROVE  jobs'[j].work \in Decided(po)'
  <2>1. CASE j \in Queued
    <3>1. jobs'[j].work = jobs[j].work
      BY <2>1, JobsStep DEF JobsStay
    <3>2. QED
      BY <1>2, <1>6, <2>1, <3>1 DEF OrdersMatchJobs
  <2>2. CASE j \notin Queued
    <3>1. PICK q \in PO : NewOrder(q) \/ Ships(q) \/ Cancels(q)
      BY <2>2, Steps, WorkerKeeps DEF Refunds, Queued
    <3>2. PICK w \in Work : Queues(w) /\ w[2] = q /\ (w[1] = "ack" \/ w \in Decided(q)')
      BY <3>1, WalmartAssumption DEF NewOrder, Ships, Cancels, Decided
    <3>3. jobs'[j].work = w
      BY <2>2, <3>2, EnqueueKeeps DEF Queues, Queued
    <3>4. QED
      BY <1>6, <3>2, <3>3
  <2>3. QED
    BY <2>1, <2>2
<1>7. ToldOnlyDecisions'
  <2>1. ASSUME NEW w \in told'
        PROVE  w \in told \/ \E j \in Queued : w = jobs[j].work
    BY Steps, WorkerKeeps DEF NewOrder, Ships, Cancels, Queues, Refunds
  <2>2. ASSUME NEW w \in told'
        PROVE  w[1] = "ack" \/ w \in Decided(w[2])
    <3>1. \A j \in Queued : jobs[j].work[2] \in PO
      BY WalmartAssumption DEF OutboxInv, OutboxTypeOK, Queued, Row
    <3>2. QED
      BY <2>1, <2>2, <3>1 DEF ToldOnlyDecisions, OrdersMatchJobs
  <2>3. \A w \in told' : w[2] \in PO
    BY JobsStep, WalmartAssumption DEF JobsKeepKeys
  <2>4. QED
    BY <1>2, <2>2, <2>3 DEF ToldOnlyDecisions
<1>8. QED
  BY <1>3, <1>5, <1>6, <1>7 DEF OrdersMatchJobs

-----------------------------------------------------------------------------
(* Whatever crashes, fails or comes twice: the invariant that carries the  *)
(* three properties below.                                                 *)
THEOREM IInvHolds == Spec => []IInv
<1>1. Init => IInv
  <2> SUFFICES ASSUME Init PROVE IInv
    OBVIOUS
  <2> USE DEF Init
  <2>1. ASSUME NEW r \in Row
        PROVE  LET old == [r EXCEPT !.status = "dead"] IN
               /\ old \in Row /\ old.status = "dead"
               /\ old.held = r.held /\ old.recurring = r.recurring /\ old.work = r.work
    BY DEF Row
  <2>2. ASSUME NEW po \in PO
        PROVE  LET old == OrphanedAck(po) IN
               /\ old \in Row /\ old.status = "dead" /\ old.held /\ ~old.recurring
               /\ old.work = <<"ack", po>>
    <3>1. <<"ack", po>> \in Work
      BY WalmartAssumption
    <3>2. LET new == NewRow(<<"ack", po>>, FALSE) IN
          new \in Row /\ new.held /\ ~new.recurring /\ new.work = <<"ack", po>>
      BY <3>1, NewRowTyped
    <3>3. QED
      BY <2>1, <3>2, Zenon DEF OrphanedAck
  <2>3. FreeRow \in Row /\ FreeRow.status = "free"
    BY FreeRowTyped, FreeRowFields
  <2>4. PICK old \in Row : /\ jobs = [j \in JobId |-> IF \A i \in JobId : j <= i THEN old ELSE FreeRow]
                           /\ \/ old.status = "free"
                              \/ /\ old.status = "dead" /\ old.held /\ ~old.recurring
                                 /\ \E po \in PO : old.work = <<"ack", po>>
    <3>1. PICK old \in {FreeRow} \cup {OrphanedAck(po) : po \in Orphaned} :
            jobs = [j \in JobId |-> IF \A i \in JobId : j <= i THEN old ELSE FreeRow]
      OBVIOUS
    <3>2. old = FreeRow \/ \E po \in PO : old = OrphanedAck(po)
      BY WalmartAssumption
    <3>3. QED
      BY <2>2, <2>3, <3>1, <3>2
  <2>5. jobs \in [JobId -> Row] /\ \A j \in Queued : jobs[j] = old /\ \A i \in JobId : j <= i
    BY <2>3, <2>4 DEF Queued
  <2>6. worker.batch = {} /\ worker.job = NoJob /\ worker \in [batch : SUBSET JobId, job : JobId \cup {NoJob}]
    BY DEF IdleWorker
  <2>7. OutboxInv
    <3>1. OneHolder
      BY <2>5, OutboxAssumption DEF OneHolder, Holders, Queued
    <3>2. \A j \in JobId : jobs[j].status # "pending"
      BY <2>3, <2>4
    <3>3. QED
      BY <2>5, <2>6, <3>1, <3>2 DEF OutboxInv, OutboxTypeOK, WorkerSafe
  <2>8. RestTyped /\ PollTyped
    BY WalmartAssumption DEF RestTyped, PollTyped, IdlePoll
  <2>9. /\ told = {} /\ sent = FALSE /\ events = {}
        /\ order = [po \in PO |-> "none"]
    OBVIOUS
  <2> HIDE DEF Init
  <2>10. \A j \in Queued : /\ jobs[j].held /\ ~jobs[j].recurring
                          /\ jobs[j].status # "done" /\ jobs[j].work[1] = "ack"
    BY <2>4, <2>5 DEF Queued
  <2>11. JobsKeepKeys
    BY <2>9, <2>10 DEF JobsKeepKeys
  <2>12. OrdersMatchJobs /\ ToldOnlyDecisions
    BY <2>9, <2>10 DEF OrdersMatchJobs, ToldOnlyDecisions, Decided
  <2>13. QED
    BY <2>7, <2>8, <2>11, <2>12 DEF IInv
<1>2. IInv /\ [Next]_vars => IInv'
  BY RestStep, PollStep, JobsStep, OrdersStep DEF IInv
<1>3. QED
  BY <1>1, <1>2, PTL DEF Spec

(* Types, and that a dedupe key has one holder. *)
THEOREM WalmartOrdersTypeCorrect == Spec => []TypeOK
<1>1. IInv => TypeOK
  BY DEF IInv, TypeOK, OutboxInv, RestTyped, PollTyped, JobsKeepKeys
<1>2. QED
  BY <1>1, IInvHolds, PTL

(* What the service decides about an order reaches the queue, and a job    *)
(* that is done was taken by Walmart, through crashes between the call and *)
(* its record.                                                             *)
THEOREM DecisionsStayQueued == Spec => []DecisionsAreQueued
<1>1. IInv => DecisionsAreQueued
  <2> SUFFICES ASSUME IInv, NEW po \in PO, NEW w \in Decided(po)
               PROVE  \E j \in Holders(w) : jobs[j].status = "done" => w \in told
    BY DEF DecisionsAreQueued
  <2>1. PICK j \in Holders(w) : TRUE
    BY DEF IInv, OrdersMatchJobs
  <2>2. QED
    BY <2>1 DEF IInv, JobsKeepKeys, Holders
<1>2. QED
  BY <1>1, IInvHolds, PTL

(* Walmart hears of shipments and cancellations only once committed. *)
THEOREM OnlyDecisionsAreTold == Spec => []ToldOnlyDecisions
<1>1. IInv => ToldOnlyDecisions
  BY DEF IInv
<1>2. QED
  BY <1>1, IInvHolds, PTL

=============================================================================
