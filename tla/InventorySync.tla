---------------------------- MODULE InventorySync ----------------------------
(***************************************************************************)
(* Keeping Walmart's stock figures right.  A transaction that changes a    *)
(* variant's stock commits, and only then queues a push; the push reads    *)
(* the figure when it runs, sends it, and records it.  Once an hour every  *)
(* live listing is pushed anyway, by a second task of the worker that does *)
(* not wait for the first.  Pushes may fail before or after Walmart took   *)
(* the figure, the worker may die, and a process may die between its       *)
(* commit and its enqueue.                                                 *)
(*                                                                         *)
(* Definitions marked "variant" are not the code's (see Outbox).           *)
(***************************************************************************)
EXTENDS Outbox

CONSTANTS
  Variant, Figure,
  Enqueuer,     \* requests and tasks that change stock, each one at a time
  Unknown,      \* Walmart has no figure yet
  Refused,      \* variants whose calls Walmart refuses every time
  Traded,       \* bound on the variants whose stock or listing changes
  MaxChanges,   \* bound on the stock transactions
  MaxFaults     \* bound on failed pushes, deaths and lost enqueues together

ASSUME InventoryAssumption ==
  /\ Unknown \notin Figure /\ Figure # {}
  /\ Refused \subseteq Variant /\ Traded \subseteq Variant
  /\ MaxChanges \in Nat /\ MaxFaults \in Nat
  /\ Work = Variant      \* the key is inv:<variant>

VARIABLES
  figure,     \* walmartSellable of the variant's inventory row
  listing,    \* channel_listings.status, "none" without a row
  walmart,    \* the figure Walmart has
  request,    \* per enqueuer: what it does after its commit
  push,       \* the handler that the drain runs
  sweep,      \* reconcileAllInventory
  pushedBy,   \* history: the task whose figure Walmart took last
  dropped,    \* history: a change was lost since the drain last read
  changes, faults

vars == <<jobs, worker, figure, listing, walmart, request, push, sweep,
          pushedBy, dropped, changes, faults>>
history == <<pushedBy, dropped>>

Listing == {"none", "draft", "submitted", "live", "rejected"}
Pushable(v) == listing[v] \in {"live", "submitted"}

NoVariant == CHOOSE v \in Variant : TRUE
IdleRequest == [at |-> "idle", v |-> NoVariant, retried |-> FALSE, old |-> NoJob]
IdlePush == [at |-> "idle", fig |-> Unknown]
IdleSweep == [at |-> "idle", todo |-> {}, v |-> NoVariant, fig |-> Unknown]

(* A row of a version that did not mark recurring jobs may still hold its  *)
(* key: done, dead, or pending for a variant whose stock does not change.  *)
OldRows == {FreeRow} \cup
  {[NewRow(v, FALSE) EXCEPT !.status = "done"] : v \in Traded} \cup
  {[NewRow(v, FALSE) EXCEPT !.status = "dead"] : v \in Traded} \cup
  {NewRow(v, FALSE) : v \in Variant \ Traded}

Init ==
  /\ \E old \in OldRows :
       jobs = [j \in JobId |-> IF \A i \in JobId : j <= i THEN old ELSE FreeRow]
  /\ worker = IdleWorker
  /\ figure = [v \in Variant |-> CHOOSE q \in Figure : TRUE]   \* figures have no order here
  /\ listing \in [Variant -> {"none", "live"}]
  /\ \A v \in Variant \ Traded : listing[v] = "live"
  /\ walmart = [v \in Variant |-> IF listing[v] = "live" THEN figure[v] ELSE Unknown]
  /\ request = [e \in Enqueuer |-> IdleRequest]
  /\ push = IdlePush /\ sweep = IdleSweep
  /\ pushedBy = [v \in Variant |-> "none"]
  /\ dropped = [v \in Variant |-> FALSE]
  /\ changes = 0 /\ faults = 0

Fault == faults < MaxFaults /\ faults' = faults + 1

(* A call about v goes wrong: by bad luck, or because Walmart refuses it. *)
CallFails(v) == IF v \in Refused THEN UNCHANGED faults ELSE Fault

-----------------------------------------------------------------------------
(* Requests *)

(* An order, a stock count or an ingest commits. *)
ChangeStock(e, v, q) ==
  /\ request[e].at = "idle" /\ changes < MaxChanges
  /\ q # figure[v]
  /\ figure' = [figure EXCEPT ![v] = q]
  /\ request' = [request EXCEPT ![e] = [IdleRequest EXCEPT !.at = "count", !.v = v]]
  /\ changes' = changes + 1
  /\ UNCHANGED <<jobs, worker, listing, walmart, push, sweep, history, faults>>

(* enqueueInventoryPush: nothing to push without a listing. *)
CountListings(e) ==
  LET r == request[e] IN
  /\ r.at = "count"
  /\ request' = [request EXCEPT ![e] =
                   IF listing[r.v] = "none" THEN IdleRequest ELSE [r EXCEPT !.at = "insert"]]
  /\ UNCHANGED <<jobs, worker, figure, listing, walmart, push, sweep, history, changes, faults>>

(* createJob: the insert, or a unique violation, the second of which is    *)
(* taken as somebody else's job being pending.                             *)
InsertJob(e) ==
  LET r == request[e] IN
  /\ r.at = "insert"
  /\ \/ /\ Holders(r.v) = {} /\ RoomFor(r.v)
        /\ jobs' = Inserted(r.v, TRUE)
        /\ request' = [request EXCEPT ![e] = IdleRequest]
     \/ /\ Holders(r.v) # {}
        /\ request' = [request EXCEPT ![e] =
                         IF r.retried THEN IdleRequest ELSE [r EXCEPT !.at = "find"]]
        /\ UNCHANGED jobs
  /\ UNCHANGED <<worker, figure, listing, walmart, push, sweep, history, changes, faults>>

(* variant: whoever holds the key, the work is taken to be queued *)
TrustHolder(e) ==
  /\ request[e].at = "find"
  /\ request' = [request EXCEPT ![e] = IdleRequest]
  /\ UNCHANGED <<jobs, worker, figure, listing, walmart, push, sweep, history, changes, faults>>

(* Its holder is looked up: only one that has left pending gives way. *)
FindHolder(e) ==
  LET r == request[e] IN
  /\ r.at = "find"
  /\ \/ \E j \in Holders(r.v) :
          /\ jobs[j].status # "pending"
          /\ request' = [request EXCEPT ![e] = [r EXCEPT !.at = "release", !.old = j]]
     \/ /\ \A j \in Holders(r.v) : jobs[j].status = "pending"
        /\ request' = [request EXCEPT ![e] = IdleRequest]
  /\ UNCHANGED <<jobs, worker, figure, listing, walmart, push, sweep, history, changes, faults>>

ReleaseKey(e) ==
  LET r == request[e] IN
  /\ r.at = "release"
  /\ jobs' = [jobs EXCEPT ![r.old].held = FALSE]
  /\ request' = [request EXCEPT ![e] = [r EXCEPT !.at = "insert", !.retried = TRUE]]
  /\ UNCHANGED <<worker, figure, listing, walmart, push, sweep, history, changes, faults>>

(* The process dies, or the database fails, after the stock has committed. *)
LoseEnqueue(e) ==
  /\ request[e].at # "idle" /\ Fault
  /\ dropped' = [dropped EXCEPT ![request[e].v] = TRUE]
  /\ request' = [request EXCEPT ![e] = IdleRequest]
  /\ UNCHANGED <<jobs, worker, figure, listing, walmart, push, sweep, pushedBy, changes>>

-----------------------------------------------------------------------------
(* Listings: created as a draft, submitted whatever their status, and made *)
(* live or rejected by any answer to a feed they were in, be it an old one.*)

Created(old, new) == old = "none" /\ new = "draft"
Submitted(old, new) == old # "none" /\ new = "submitted"
Answered(old, new) == old \in {"submitted", "live", "rejected"} /\ new \in {"live", "rejected"}

(* A listing that starts to be pushed may have missed changes. *)
MoveListing(v, s) ==
  /\ s # listing[v]
  /\ Created(listing[v], s) \/ Submitted(listing[v], s) \/ Answered(listing[v], s)
  /\ listing' = [listing EXCEPT ![v] = s]
  /\ dropped' = [dropped EXCEPT ![v] = @ \/ ~Pushable(v)]
  /\ UNCHANGED <<jobs, worker, figure, walmart, request, push, sweep, pushedBy, changes, faults>>

-----------------------------------------------------------------------------
(* The drain: pushInventoryForVariant as a job's handler *)

Drained == jobs[worker.job].work

StartDrain ==
  /\ StartBatch
  /\ UNCHANGED <<figure, listing, walmart, request, push, sweep, history, changes, faults>>

PickUpJob ==
  /\ \E j \in JobId : PickUp(j)
  /\ push' = [IdlePush EXCEPT !.at = "read"]
  /\ UNCHANGED <<figure, listing, walmart, request, sweep, history, changes, faults>>

(* A listing that is not pushable is no failure: the job is done. *)
ReadFigure ==
  LET v == Drained IN
  /\ push.at = "read"
  /\ \/ /\ Pushable(v)
        /\ push' = [at |-> "put", fig |-> figure[v]]
        /\ dropped' = [dropped EXCEPT ![v] = FALSE]
     \/ /\ ~Pushable(v)
        /\ push' = [IdlePush EXCEPT !.at = "done"]
        /\ UNCHANGED dropped
  /\ UNCHANGED <<jobs, worker, figure, listing, walmart, request, sweep, pushedBy, changes, faults>>

Take(v, fig, by) ==
  /\ walmart' = [walmart EXCEPT ![v] = fig]
  /\ pushedBy' = [pushedBy EXCEPT ![v] = by]

PutFigure ==
  /\ push.at = "put" /\ Drained \notin Refused
  /\ Take(Drained, push.fig, "drain")
  /\ push' = [IdlePush EXCEPT !.at = "done"]
  /\ UNCHANGED <<jobs, worker, figure, listing, request, sweep, dropped, changes, faults>>

(* The job is marked done. *)
FinishJob ==
  /\ push.at = "done"
  /\ Finished
  /\ push' = IdlePush
  /\ UNCHANGED <<figure, listing, walmart, request, sweep, history, changes, faults>>

(* The call fails, or what follows it does: Walmart may have the figure. A *)
(* dead job's change is lost.                                              *)
FailJob ==
  /\ \/ push.at = "put" /\ CallFails(Drained)
     \/ push.at = "done" /\ Fault
  /\ Failed
  /\ \/ push.at = "put" /\ Drained \notin Refused /\ Take(Drained, push.fig, "drain")
     \/ UNCHANGED <<walmart, pushedBy>>
  /\ dropped' = [dropped EXCEPT ![Drained] = @ \/ LastAttempt(worker.job)]
  /\ push' = IdlePush
  /\ UNCHANGED <<figure, listing, request, sweep, changes>>

RetryDue ==
  /\ \E j \in JobId : BackOffEnds(j)
  /\ UNCHANGED <<figure, listing, walmart, request, push, sweep, history, changes, faults>>

-----------------------------------------------------------------------------
(* The hourly sweep: reconcileAllInventory *)

LiveListings == {v \in Variant : listing[v] = "live"}

StartSweep ==
  /\ sweep.at = "idle" /\ LiveListings # {}
  /\ sweep' = [IdleSweep EXCEPT !.at = "read", !.todo = LiveListings]
  /\ UNCHANGED <<jobs, worker, figure, listing, walmart, request, push, history, changes, faults>>

(* What is left of the sweep after one listing. *)
Swept(s) == IF s.todo = {} THEN IdleSweep ELSE [IdleSweep EXCEPT !.at = "read", !.todo = s.todo]

SweepRead(v) ==
  /\ sweep.at = "read" /\ v \in sweep.todo
  /\ sweep' = IF Pushable(v)
              THEN [at |-> "put", todo |-> sweep.todo \ {v}, v |-> v, fig |-> figure[v]]
              ELSE Swept([sweep EXCEPT !.todo = @ \ {v}])
  /\ UNCHANGED <<jobs, worker, figure, listing, walmart, request, push, history, changes, faults>>

SweepPut ==
  /\ sweep.at = "put" /\ sweep.v \notin Refused
  /\ Take(sweep.v, sweep.fig, "sweep")
  /\ sweep' = Swept(sweep)
  /\ UNCHANGED <<jobs, worker, figure, listing, request, push, dropped, changes, faults>>

(* variant: one listing that fails ends the sweep *)
SweepAborts ==
  /\ sweep.at = "put" /\ CallFails(sweep.v)
  /\ sweep' = IdleSweep
  /\ UNCHANGED <<jobs, worker, figure, listing, walmart, request, push, history, changes>>

(* A listing that fails is logged and the sweep goes on. *)
SweepFails ==
  /\ sweep.at = "put" /\ CallFails(sweep.v)
  /\ sweep' = Swept(sweep)
  /\ UNCHANGED <<jobs, worker, figure, listing, walmart, request, push, history, changes>>

(* The worker dies: both tasks start afresh. *)
Crash ==
  /\ <<worker, push, sweep>> # <<IdleWorker, IdlePush, IdleSweep>> /\ Fault
  /\ WorkerGone
  /\ push' = IdlePush /\ sweep' = IdleSweep
  /\ UNCHANGED <<figure, listing, walmart, request, history, changes>>

-----------------------------------------------------------------------------
Enqueue(e) == CountListings(e) \/ InsertJob(e) \/ FindHolder(e) \/ ReleaseKey(e)

Drain == StartDrain \/ PickUpJob \/ ReadFigure \/ PutFigure \/ FailJob \/ FinishJob

Sweep == StartSweep \/ (\E v \in Variant : SweepRead(v)) \/ SweepPut \/ SweepFails

Next ==
  \/ \E e \in Enqueuer :
       \/ \E v \in Traded, q \in Figure : ChangeStock(e, v, q)
       \/ Enqueue(e)
       \/ LoseEnqueue(e)
  \/ \E v \in Traded, s \in Listing : MoveListing(v, s)
  \/ Drain \/ RetryDue
  \/ Sweep
  \/ Crash

Spec == Init /\ [][Next]_vars

(* The worker's timers keep firing, an enqueuer that does not die goes on, *)
(* and time passes.  A call succeeds once the bounded faults are used up.  *)
Fairness ==
  /\ WF_vars(Drain) /\ WF_vars(RetryDue) /\ WF_vars(Sweep)
  /\ \A e \in Enqueuer : WF_vars(Enqueue(e))

FairSpec == Spec /\ Fairness

-----------------------------------------------------------------------------
TypeOK ==
  /\ OutboxTypeOK
  /\ figure \in [Variant -> Figure]
  /\ listing \in [Variant -> Listing]
  /\ walmart \in [Variant -> Figure \cup {Unknown}]
  /\ request \in [Enqueuer -> [at : {"idle", "count", "insert", "find", "release"},
                               v : Variant, retried : BOOLEAN, old : JobId \cup {NoJob}]]
  /\ push \in [at : {"idle", "read", "put", "done"}, fig : Figure \cup {Unknown}]
  /\ sweep \in [at : {"idle", "read", "put"}, todo : SUBSET Variant, v : Variant,
                fig : Figure \cup {Unknown}]
  /\ pushedBy \in [Variant -> {"none", "drain", "sweep"}]
  /\ dropped \in [Variant -> BOOLEAN]
  /\ changes \in 0..MaxChanges /\ faults \in 0..MaxFaults

(* Somebody is still going to send the figure of v as it is now: a request *)
(* that has not queued its push, a job that has not read yet, or one that  *)
(* has read the figure as it is.                                           *)
Owed(v) ==
  \/ \E e \in Enqueuer : request[e].at # "idle" /\ request[e].v = v
  \/ \E j \in JobId :
       /\ jobs[j].status = "pending" /\ jobs[j].work = v
       /\ j = worker.job => push.at = "read" \/ push = [at |-> "put", fig |-> figure[v]]

(* No change of stock slips between a push's read and the next enqueue: a  *)
(* figure Walmart got from the queue is right or about to be replaced,     *)
(* unless the change was dropped by a fault.                               *)
StaleIsOwed ==
  \A v \in Variant :
    Pushable(v) /\ walmart[v] # figure[v] /\ ~dropped[v] /\ pushedBy[v] # "sweep"
      => Owed(v)

(* Whatever fails and in whatever order the two tasks' calls arrive, once  *)
(* stock stops changing the figure of a listing that stays live becomes    *)
(* right and stays so: one that Walmart refuses does not keep it from the  *)
(* others.                                                                 *)
LiveFiguresSettle ==
  \A v \in Variant \ Refused :
    <>[](listing[v] = "live") => <>[](walmart[v] = figure[v])
=============================================================================
