------------------------- MODULE InventorySyncProofs -------------------------
(***************************************************************************)
(* No change of stock slips between a push's read and the next enqueue,    *)
(* for any number of variants, requests and jobs: whatever Walmart got     *)
(* from the queue is right, or somebody is about to send the figure anew.  *)
(***************************************************************************)
EXTENDS InventorySync, OutboxProofs

RequestRow == [at : {"idle", "count", "insert", "find", "release"},
               v : Variant, retried : BOOLEAN, old : JobId \cup {NoJob}]

(* The part of the types that is not the job table's. *)
SyncTyped ==
  /\ figure \in [Variant -> Figure]
  /\ listing \in [Variant -> Listing]
  /\ walmart \in [Variant -> Figure \cup {Unknown}]
  /\ request \in [Enqueuer -> RequestRow]
  /\ push \in [at : {"idle", "read", "put", "done"}, fig : Figure \cup {Unknown}]
  /\ sweep \in [at : {"idle", "read", "put"}, todo : SUBSET Variant, v : Variant,
                fig : Figure \cup {Unknown}]
  /\ pushedBy \in [Variant -> {"none", "drain", "sweep"}]
  /\ dropped \in [Variant -> BOOLEAN]
  /\ changes \in 0..MaxChanges /\ faults \in 0..MaxFaults

(* At most one row is left from before jobs were marked recurring, and it  *)
(* is over if its variant's stock may change; a recurring job that holds   *)
(* its key has not been picked up.                                         *)
OldJobs ==
  /\ \A i, j \in Queued : ~jobs[i].recurring /\ ~jobs[j].recurring => i = j
  /\ \A j \in Queued :
       ~jobs[j].recurring /\ jobs[j].work \in Traded => jobs[j].status \in {"done", "dead"}
  /\ \A j \in Queued : jobs[j].recurring /\ jobs[j].held =>
       jobs[j].status = "pending" /\ j # worker.job

(* What a request knows of the holder it found: only that old row ever has *)
(* to give way, and after that a key is held by a recurring job.           *)
Knows(r) ==
  /\ r.at # "idle" => r.v \in Traded
  /\ r.at = "release" => r.old \in Queued /\ ~jobs[r.old].recurring /\ jobs[r.old].work = r.v
  /\ r.retried => \A j \in Holders(r.v) : jobs[j].recurring

RequestsKnow == \A e \in Enqueuer : Knows(request[e])

HandlerRuns == push.at # "idle" <=> worker.job # NoJob

(* A job that will still read the figure, or has read it as it is. *)
Unread(j) ==
  /\ jobs[j].status = "pending"
  /\ j = worker.job => push.at = "read" \/ (push.at = "put" /\ push.fig = figure[jobs[j].work])

(* Owed, and not by a request that is about to leave it to a job that has  *)
(* been picked up meanwhile: such requests would vouch for each other.     *)
Sure(v) ==
  \/ \E e \in Enqueuer :
       request[e].v = v /\ request[e].at \in {"count", "insert", "release"}
  \/ \E e \in Enqueuer :
       /\ request[e].v = v /\ request[e].at = "find"
       /\ \E j \in Holders(v) : jobs[j].status # "pending"
  \/ \E j \in JobId : jobs[j].work = v /\ Unread(j)

(* Walmart's figure is wrong, or the drain is about to make it wrong. *)
Debt(v) ==
  /\ Pushable(v) /\ ~dropped[v]
  /\ \/ walmart[v] # figure[v] /\ pushedBy[v] # "sweep"
     \/ push.at = "put" /\ Drained = v /\ push.fig # figure[v]

DebtsAreSure == \A v \in Variant : Debt(v) => Sure(v)

IInv ==
  OutboxInv /\ SyncTyped /\ OldJobs /\ RequestsKnow /\ HandlerRuns /\ DebtsAreSure

-----------------------------------------------------------------------------
(* A fault is counted, whoever suffers it. *)
LEMMA FaultTyped ==
  ASSUME SyncTyped, Fault \/ UNCHANGED faults \/ \E v \in Variant : CallFails(v)
  PROVE  faults' \in 0..MaxFaults
BY InventoryAssumption DEF SyncTyped, Fault, CallFails

(* Every step, for the types. *)
LEMMA TypedStep ==
  ASSUME OutboxInv, SyncTyped, HandlerRuns, [Next]_vars
  PROVE  SyncTyped'
<1> USE DEF SyncTyped, history
<1>0. NoVariant \in Variant /\ IdleRequest \in RequestRow
  BY OutboxAssumption, InventoryAssumption DEF NoVariant, IdleRequest, RequestRow
<1>1. ASSUME NEW e \in Enqueuer, NEW v \in Traded, NEW q \in Figure, ChangeStock(e, v, q)
      PROVE  SyncTyped'
  <2>1. [IdleRequest EXCEPT !.at = "count", !.v = v] \in RequestRow
    BY <1>0, InventoryAssumption DEF RequestRow
  <2>2. changes' \in 0..MaxChanges
    BY <1>1, InventoryAssumption DEF ChangeStock
  <2>3. QED
    BY <1>1, <2>1, <2>2 DEF ChangeStock
<1>2. ASSUME NEW e \in Enqueuer, Enqueue(e)
      PROVE  SyncTyped'
  <2> DEFINE r == request[e]
  <2>1. /\ [r EXCEPT !.at = "insert"] \in RequestRow /\ [r EXCEPT !.at = "find"] \in RequestRow
        /\ [r EXCEPT !.at = "insert", !.retried = TRUE] \in RequestRow
        /\ \A j \in JobId : [r EXCEPT !.at = "release", !.old = j] \in RequestRow
    <3>1. r \in RequestRow
      OBVIOUS
    <3>2. QED
      BY <3>1, Zenon DEF RequestRow
  <2>2. \A j \in Holders(r.v) : j \in JobId
    BY DEF Holders, Queued
  <2>3. PICK new \in RequestRow : request' = [request EXCEPT ![e] = new]
    <3>1. CASE CountListings(e)
      BY <1>0, <2>1, <3>1 DEF CountListings
    <3>2. CASE InsertJob(e)
      BY <1>0, <2>1, <3>2 DEF InsertJob
    <3>3. CASE FindHolder(e)
      BY <1>0, <2>1, <2>2, <3>3 DEF FindHolder
    <3>4. CASE ReleaseKey(e)
      BY <2>1, <3>4 DEF ReleaseKey
    <3>5. QED
      BY <1>2, <3>1, <3>2, <3>3, <3>4 DEF Enqueue
  <2>4. QED
    BY <1>2, <2>3 DEF Enqueue, CountListings, InsertJob, FindHolder, ReleaseKey
<1>3. ASSUME NEW e \in Enqueuer, LoseEnqueue(e)
      PROVE  SyncTyped'
  <2>1. faults' \in 0..MaxFaults
    BY <1>3, FaultTyped DEF LoseEnqueue
  <2>2. QED
    BY <1>0, <1>3, <2>1 DEF LoseEnqueue
<1>4. ASSUME NEW v \in Traded, NEW s \in Listing, MoveListing(v, s)
      PROVE  SyncTyped'
  BY <1>4 DEF MoveListing
<1>5. CASE Drain
  <2>1. worker.job # NoJob => Drained \in Variant
    BY InventoryAssumption DEF OutboxInv, OutboxTypeOK, Row, Drained
  <2>2. CASE StartDrain
    BY <2>2 DEF StartDrain
  <2>3. CASE PickUpJob
    BY <2>3 DEF PickUpJob, IdlePush
  <2>4. CASE ReadFigure
    <3>1. Drained \in Variant
      BY <2>1, <2>4 DEF ReadFigure, HandlerRuns
    <3>2. push' \in [at : {"idle", "read", "put", "done"}, fig : Figure \cup {Unknown}]
      BY <2>4, <3>1 DEF ReadFigure, IdlePush
    <3>3. dropped' \in [Variant -> BOOLEAN]
      BY <2>4, Zenon DEF ReadFigure
    <3>4. QED
      BY <2>4, <3>2, <3>3 DEF ReadFigure
  <2>5. CASE PutFigure
    BY <2>1, <2>5 DEF PutFigure, Take, IdlePush, HandlerRuns
  <2>6. CASE FailJob
    <3>1. Drained \in Variant
      BY <2>1, <2>6 DEF FailJob, HandlerRuns
    <3>2. faults' \in 0..MaxFaults
      BY <2>6, <3>1, FaultTyped DEF FailJob
    <3>3. /\ walmart' \in [Variant -> Figure \cup {Unknown}]
          /\ pushedBy' \in [Variant -> {"none", "drain", "sweep"}]
      BY <2>6 DEF FailJob, Take
    <3>4. dropped' \in [Variant -> BOOLEAN]
      BY <2>6, Zenon DEF FailJob, LastAttempt
    <3>5. QED
      BY <2>6, <3>2, <3>3, <3>4 DEF FailJob, IdlePush
  <2>7. CASE FinishJob
    BY <2>7 DEF FinishJob, IdlePush
  <2>8. QED
    BY <1>5, <2>2, <2>3, <2>4, <2>5, <2>6, <2>7 DEF Drain
<1>6. CASE RetryDue
  BY <1>6 DEF RetryDue
<1>7. CASE Sweep
  <2>1. /\ Swept(sweep) \in [at : {"idle", "read", "put"}, todo : SUBSET Variant, v : Variant,
                             fig : Figure \cup {Unknown}]
        /\ \A v \in Variant : Swept([sweep EXCEPT !.todo = @ \ {v}]) \in
             [at : {"idle", "read", "put"}, todo : SUBSET Variant, v : Variant,
              fig : Figure \cup {Unknown}]
    BY <1>0 DEF Swept, IdleSweep
  <2>2. CASE StartSweep
    BY <1>0, <2>2 DEF StartSweep, IdleSweep, LiveListings
  <2>3. ASSUME NEW v \in Variant, SweepRead(v)
        PROVE  SyncTyped'
    BY <2>1, <2>3 DEF SweepRead
  <2>4. CASE SweepPut
    BY <2>1, <2>4 DEF SweepPut, Take
  <2>5. CASE SweepFails
    <3>1. faults' \in 0..MaxFaults
      BY <2>5, FaultTyped DEF SweepFails
    <3>2. QED
      BY <2>1, <2>5, <3>1 DEF SweepFails
  <2>6. QED
    BY <1>7, <2>2, <2>3, <2>4, <2>5 DEF Sweep
<1>8. CASE Crash
  <2>1. faults' \in 0..MaxFaults
    BY <1>8, FaultTyped DEF Crash
  <2>2. QED
    BY <1>0, <1>8, <2>1 DEF Crash, IdlePush, IdleSweep
<1>9. CASE UNCHANGED vars
  BY <1>9 DEF vars
<1>10. QED
  BY <1>1, <1>2, <1>3, <1>4, <1>5, <1>6, <1>7, <1>8, <1>9 DEF Next

-----------------------------------------------------------------------------
(* The steps of the drain that change a row. *)
RowStep(j) ==
  /\ j \in Queued /\ jobs[j].status = "pending"
  /\ \A i \in JobId : i # j => jobs'[i] = jobs[i]
  /\ jobs'[j].work = jobs[j].work /\ jobs'[j].recurring = jobs[j].recurring
  /\ jobs'[j].held => jobs[j].held
  /\ jobs'[j].status # "free"

PickedUp(j) ==
  /\ RowStep(j) /\ worker.job = NoJob /\ worker'.job = j
  /\ jobs'[j].status = "pending" /\ (jobs'[j].recurring => ~jobs'[j].held)

Left(j) == RowStep(j) /\ worker.job = j /\ worker'.job = NoJob

Waited(j) == RowStep(j) /\ UNCHANGED worker /\ jobs'[j].status = "pending"

(* What the worker runs is a row that is pending. *)
LEMMA Running ==
  ASSUME OutboxInv
  PROVE  /\ worker.job # NoJob => worker.job \in Queued /\ jobs[worker.job].status = "pending"
         /\ \A j \in Queued : j \in JobId /\ j # NoJob /\ jobs[j] \in Row
         /\ \A j \in JobId : jobs[j].status # "free" <=> j \in Queued
BY OutboxAssumption DEF OutboxInv, OutboxTypeOK, WorkerSafe, Queued, NoJob

(* Each of those steps is of one of the three kinds. *)
LEMMA DrainRows ==
  ASSUME OutboxInv, HandlerRuns
  PROVE  /\ PickUpJob => OutboxInv' /\ JobsStay /\ \E j \in Queued : PickedUp(j)
         /\ FinishJob => OutboxInv' /\ JobsStay /\ Left(worker.job)
         /\ FailJob => /\ OutboxInv' /\ JobsStay /\ Left(worker.job)
                       /\ jobs'[worker.job].status = IF LastAttempt(worker.job) THEN "dead" ELSE "pending"
         /\ RetryDue => OutboxInv' /\ JobsStay /\ \E j \in Queued : Waited(j)
<1> USE Running
<1>1. ASSUME PickUpJob
      PROVE  OutboxInv' /\ JobsStay /\ \E j \in Queued : PickedUp(j)
  <2>1. PICK j \in JobId : PickUp(j)
    BY <1>1 DEF PickUpJob
  <2>2. /\ OutboxInv' /\ JobsStay
        /\ worker'.job = j /\ jobs'[j] = AtPickup(jobs[j])
        /\ \A i \in JobId : i # j => jobs'[i] = jobs[i]
    BY <2>1, PickUpKeeps
  <2>3. worker.job = NoJob /\ jobs[j].status = "pending" /\ j \in Queued
    BY <2>1 DEF PickUp, OutboxInv, WorkerSafe
  <2>4. /\ AtPickup(jobs[j]).work = jobs[j].work /\ AtPickup(jobs[j]).status = jobs[j].status
        /\ AtPickup(jobs[j]).recurring = jobs[j].recurring
        /\ AtPickup(jobs[j]).held => jobs[j].held
        /\ jobs[j].recurring => ~AtPickup(jobs[j]).held
    BY <2>3 DEF AtPickup, Row
  <2>5. QED
    BY <2>2, <2>3, <2>4 DEF PickedUp, RowStep
<1>2. ASSUME FinishJob
      PROVE  OutboxInv' /\ JobsStay /\ Left(worker.job)
  <2>1. worker.job # NoJob
    BY <1>2 DEF FinishJob, HandlerRuns
  <2>2. /\ OutboxInv' /\ JobsStay
        /\ worker'.job = NoJob
        /\ jobs'[worker.job] = [jobs[worker.job] EXCEPT !.status = "done"]
        /\ \A i \in JobId : i # worker.job => jobs'[i] = jobs[i]
    BY <1>2, <2>1, FinishedKeeps DEF FinishJob
  <2>3. /\ jobs'[worker.job].work = jobs[worker.job].work
        /\ jobs'[worker.job].recurring = jobs[worker.job].recurring
        /\ jobs'[worker.job].held = jobs[worker.job].held
        /\ jobs'[worker.job].status = "done"
    BY <2>1, <2>2 DEF Row
  <2>4. QED
    BY <2>1, <2>2, <2>3 DEF Left, RowStep
<1>3. ASSUME FailJob
      PROVE  /\ OutboxInv' /\ JobsStay /\ Left(worker.job)
             /\ jobs'[worker.job].status = IF LastAttempt(worker.job) THEN "dead" ELSE "pending"
  <2>1. worker.job # NoJob
    BY <1>3 DEF FailJob, HandlerRuns
  <2>2. /\ OutboxInv' /\ JobsStay
        /\ worker'.job = NoJob
        /\ jobs'[worker.job].status = IF LastAttempt(worker.job) THEN "dead" ELSE "pending"
        /\ jobs'[worker.job].held = jobs[worker.job].held
        /\ jobs'[worker.job].recurring = jobs[worker.job].recurring
        /\ \A i \in JobId : i # worker.job => jobs'[i] = jobs[i]
    BY <1>3, <2>1, FailedKeeps DEF FailJob
  <2>3. jobs'[worker.job].work = jobs[worker.job].work
    BY <2>1, <2>2 DEF JobsStay
  <2>4. QED
    BY <2>1, <2>2, <2>3 DEF Left, RowStep
<1>4. ASSUME RetryDue
      PROVE  OutboxInv' /\ JobsStay /\ \E j \in Queued : Waited(j)
  <2>1. PICK j \in JobId : BackOffEnds(j)
    BY <1>4 DEF RetryDue
  <2>2. /\ OutboxInv' /\ JobsStay
        /\ jobs'[j] = [jobs[j] EXCEPT !.waiting = FALSE]
        /\ \A i \in JobId : i # j => jobs'[i] = jobs[i]
    BY <2>1, BackOffKeeps
  <2>3. jobs[j].status = "pending" /\ j \in Queued /\ UNCHANGED worker
    BY <2>1 DEF BackOffEnds
  <2>4. /\ jobs'[j].work = jobs[j].work /\ jobs'[j].recurring = jobs[j].recurring
        /\ jobs'[j].held = jobs[j].held /\ jobs'[j].status = "pending"
    BY <2>2, <2>3 DEF Row
  <2>5. QED
    BY <2>2, <2>3, <2>4 DEF Waited, RowStep
<1>5. QED
  BY <1>1, <1>2, <1>3, <1>4

(* They keep what is known of rows and holders. *)
LEMMA RowStepKeeps ==
  ASSUME IInv, NEW j \in Queued, PickedUp(j) \/ Left(j) \/ Waited(j), UNCHANGED request
  PROVE  OldJobs' /\ RequestsKnow'
<1> USE Running DEF IInv
<1>1. /\ RowStep(j) /\ j \in JobId
      /\ \A i \in JobId : i # j => jobs'[i] = jobs[i]
  BY DEF PickedUp, Left, Waited, RowStep
<1>2. Queued' = Queued
  BY <1>1 DEF RowStep, Queued
<1>3. \A i \in Queued : /\ jobs'[i].recurring = jobs[i].recurring /\ jobs'[i].work = jobs[i].work
                        /\ jobs'[i].held => jobs[i].held
  BY <1>1 DEF RowStep
<1>4. ASSUME NEW i \in Queued, ~jobs[i].recurring, jobs[i].work \in Traded
      PROVE  jobs'[i] = jobs[i] /\ jobs[i].status \in {"done", "dead"}
  BY <1>1, <1>4 DEF OldJobs, RowStep
<1>5. ASSUME NEW i \in Queued, jobs'[i].recurring, jobs'[i].held
      PROVE  jobs'[i].status = "pending" /\ i # worker'.job
  <2>1. jobs[i].status = "pending" /\ i # worker.job
    BY <1>3, <1>5 DEF OldJobs
  <2>2. CASE PickedUp(j)
    BY <1>1, <1>5, <2>1, <2>2 DEF PickedUp
  <2>3. CASE Left(j)
    BY <1>1, <2>1, <2>3 DEF Left
  <2>4. CASE Waited(j)
    BY <1>1, <2>1, <2>4 DEF Waited
  <2>5. QED
    BY <2>2, <2>3, <2>4
<1>6. OldJobs'
  <2>1. \A i, k \in Queued' : ~jobs'[i].recurring /\ ~jobs'[k].recurring => i = k
    BY <1>2, <1>3 DEF OldJobs
  <2>2. \A i \in Queued' : ~jobs'[i].recurring /\ jobs'[i].work \in Traded =>
          jobs'[i].status \in {"done", "dead"}
    BY <1>2, <1>3, <1>4
  <2>3. QED
    BY <1>2, <1>5, <2>1, <2>2 DEF OldJobs
<1>7. \A v : \A i \in Holders(v)' : i \in Holders(v) /\ jobs'[i].recurring = jobs[i].recurring
  BY <1>2, <1>3 DEF Holders
<1>8. RequestsKnow'
  BY <1>2, <1>3, <1>7 DEF RequestsKnow, Knows
<1>9. QED
  BY <1>6, <1>8

(* Steps that leave the rows alone. *)
LEMMA QuietKeeps ==
  ASSUME IInv, UNCHANGED jobs, worker'.job = worker.job \/ worker'.job = NoJob
  PROVE  OldJobs' /\ (UNCHANGED request => RequestsKnow')
<1> USE Running DEF IInv
<1>1. Queued' = Queued /\ \A v : Holders(v)' = Holders(v)
  BY DEF Queued, Holders
<1>2. QED
  BY <1>1 DEF OldJobs, RequestsKnow, Knows

(* What one request comes to know, while the rows stay as they are. *)
LEMMA RequestMoves ==
  ASSUME IInv, UNCHANGED jobs, NEW e \in Enqueuer, NEW new,
         request' = [request EXCEPT ![e] = new],
         new.at # "idle" => new.v \in Traded,
         new.at = "release" =>
           /\ new.old \in Queued /\ ~jobs[new.old].recurring
           /\ jobs[new.old].work = new.v,
         new.retried => request[e].retried /\ new.v = request[e].v
  PROVE  RequestsKnow'
<1>1. /\ \A d \in Enqueuer : Knows(request[d])
      /\ \A d \in Enqueuer : request'[d] = IF d = e THEN new ELSE request[d]
  BY DEF IInv, RequestsKnow, SyncTyped
<1>2. Queued' = Queued /\ \A v : Holders(v)' = Holders(v)
  BY DEF Queued, Holders
<1>3. Knows(new)
  BY <1>1 DEF Knows
<1>4. \A d \in Enqueuer : Knows(request[d])'
  BY <1>1, <1>2, <1>3 DEF Knows
<1>5. QED
  BY <1>4 DEF RequestsKnow

(* The fields of a request after a step of its own. *)
LEMMA RequestFields ==
  ASSUME NEW r \in RequestRow
  PROVE  /\ IdleRequest.at = "idle" /\ ~IdleRequest.retried
         /\ \A v : /\ [IdleRequest EXCEPT !.at = "count", !.v = v].at = "count"
                  /\ [IdleRequest EXCEPT !.at = "count", !.v = v].v = v
                  /\ ~[IdleRequest EXCEPT !.at = "count", !.v = v].retried
         /\ \A s : /\ [r EXCEPT !.at = s].at = s /\ [r EXCEPT !.at = s].v = r.v
                  /\ [r EXCEPT !.at = s].retried = r.retried
         /\ \A j : /\ [r EXCEPT !.at = "release", !.old = j].at = "release"
                  /\ [r EXCEPT !.at = "release", !.old = j].old = j
                  /\ [r EXCEPT !.at = "release", !.old = j].v = r.v
                  /\ [r EXCEPT !.at = "release", !.old = j].retried = r.retried
         /\ [r EXCEPT !.at = "insert", !.retried = TRUE].at = "insert"
         /\ [r EXCEPT !.at = "insert", !.retried = TRUE].v = r.v
BY Zenon DEF RequestRow, IdleRequest

(* A pending holder of a request's key has not been read. *)
LEMMA HolderUnread ==
  ASSUME IInv, NEW e \in Enqueuer, request[e].at # "idle",
         NEW j \in Holders(request[e].v)
  PROVE  /\ j \in Queued /\ jobs[j].work = request[e].v /\ j \in JobId
         /\ jobs[j].status = "pending" => jobs[j].recurring /\ Unread(j)
         /\ jobs[j].recurring => jobs[j].status = "pending"
<1> USE Running DEF IInv
<1>1. j \in Queued /\ jobs[j].held /\ jobs[j].work = request[e].v /\ request[e].v \in Traded
  BY DEF Holders, RequestsKnow, Knows
<1>2. jobs[j].status = "pending" => jobs[j].recurring
  BY <1>1 DEF OldJobs
<1>3. jobs[j].recurring => jobs[j].status = "pending" /\ j # worker.job
  BY <1>1 DEF OldJobs
<1>4. QED
  BY <1>1, <1>2, <1>3 DEF Unread

(* A push that is inserted. *)
LEMMA PushRow ==
  ASSUME NEW w \in Work
  PROVE  /\ NewRow(w, TRUE) \in Row
         /\ NewRow(w, TRUE).work = w /\ NewRow(w, TRUE).held /\ NewRow(w, TRUE).recurring
         /\ NewRow(w, TRUE).status = "pending" /\ NewRow(w, TRUE).attempts = 0
<1>1. FreeRow \in Row
  BY FreeRowTyped
<1>2. NewRow(w, TRUE) \in Row
  BY <1>1 DEF NewRow, Row
<1>3. QED
  BY <1>1, FreeRowFields DEF NewRow, Row

(* The insert that succeeds, for the rows and the requests. *)
LEMMA InsertStep ==
  ASSUME IInv, NEW e \in Enqueuer, InsertJob(e), Holders(request[e].v) = {}
  PROVE  /\ OutboxInv' /\ OldJobs' /\ RequestsKnow'
         /\ NextJob \in JobId /\ NextJob \notin Queued /\ NextJob # worker'.job
         /\ jobs'[NextJob].work = request[e].v /\ jobs'[NextJob].status = "pending"
         /\ \A j \in JobId : j # NextJob => jobs'[j] = jobs[j]
<1> USE Running DEF IInv
<1> DEFINE r == request[e]
<1>1. r \in RequestRow /\ r.v \in Work
  BY InventoryAssumption DEF SyncTyped, RequestRow
<1>2. /\ RoomFor(r.v) /\ jobs' = Inserted(r.v, TRUE) /\ UNCHANGED worker
      /\ request' = [request EXCEPT ![e] = IdleRequest]
  BY DEF InsertJob
<1>3. PICK new \in Row : /\ new.work = r.v /\ new.held /\ new.recurring
                         /\ new.status = "pending" /\ new.attempts = 0
                         /\ jobs' = [jobs EXCEPT ![NextJob] = new]
  BY <1>1, <1>2, PushRow, Zenon DEF Inserted
<1>4. (\E j \in JobId : IsNext(j)) /\ NextJob \in JobId /\ NextJob \notin Queued
  BY <1>2, NextJobIsFree DEF RoomFor
<1>5. /\ OutboxInv' /\ JobsStay
      /\ NextJob \in Queued' \ Queued
      /\ jobs'[NextJob] = new
      /\ \A j \in JobId : j # NextJob => jobs'[j] = jobs[j]
  BY <1>1, <1>2, <1>3, <1>4, InsertKeeps
<1>6. NextJob # worker'.job
  <2>1. NextJob # NoJob /\ worker'.job = worker.job
    BY <1>2, <1>4, OutboxAssumption DEF NoJob
  <2>2. QED
    BY <1>4, <2>1
<1>7. \A j \in Queued' : j # NextJob => j \in Queued /\ jobs'[j] = jobs[j]
  BY <1>5 DEF Queued
<1>8. OldJobs'
  <2>1. \A j \in Queued' : ~jobs'[j].recurring => j \in Queued /\ jobs'[j] = jobs[j]
    BY <1>3, <1>5, <1>7
  <2>2. \A j \in Queued' : jobs'[j].recurring /\ jobs'[j].held =>
          jobs'[j].status = "pending" /\ j # worker'.job
    <3>1. \A j \in Queued : jobs[j].recurring /\ jobs[j].held =>
            jobs[j].status = "pending" /\ j # worker'.job
      BY <1>2 DEF OldJobs
    <3>2. jobs'[NextJob].status = "pending"
      BY <1>3, <1>5
    <3>3. QED
      BY <1>6, <1>7, <3>1, <3>2
  <2>3. QED
    BY <2>1, <2>2 DEF OldJobs
<1>9. RequestsKnow'
  <2>1. \A d \in Enqueuer : Knows(request[d])
                            /\ request'[d] = IF d = e THEN IdleRequest ELSE request[d]
    BY <1>2 DEF RequestsKnow, SyncTyped
  <2>2. \A j \in Queued : j \in Queued' /\ jobs'[j] = jobs[j]
    BY <1>4, <1>5 DEF JobsStay
  <2>3. \A v : \A j \in Holders(v)' : (j \in Holders(v) /\ jobs'[j] = jobs[j]) \/ jobs'[j].recurring
    BY <1>3, <1>5, <1>7 DEF Holders
  <2>4. \A d \in Enqueuer : Knows(request[d])'
    <3>1. Knows(request[e])'
      BY <1>1, <2>1, RequestFields DEF Knows
    <3>2. ASSUME NEW d \in Enqueuer, d # e
          PROVE  Knows(request[d])'
      BY <2>1, <2>2, <2>3, <3>2 DEF Knows
    <3>3. QED
      BY <3>1, <3>2
  <2>5. QED
    BY <2>4 DEF RequestsKnow
<1>10. QED
  BY <1>3, <1>4, <1>5, <1>6, <1>8, <1>9

(* The old row gives its key up. *)
LEMMA ReleaseStep ==
  ASSUME IInv, NEW e \in Enqueuer, ReleaseKey(e)
  PROVE  /\ OutboxInv' /\ OldJobs' /\ RequestsKnow'
         /\ \A j \in JobId : /\ jobs'[j].work = jobs[j].work /\ jobs'[j].status = jobs[j].status
                             /\ jobs[j].work # request[e].v => jobs'[j] = jobs[j]
<1> USE Running DEF IInv
<1> DEFINE r == request[e]
<1> DEFINE new == [r EXCEPT !.at = "insert", !.retried = TRUE]
<1>1. /\ r \in RequestRow /\ r.at = "release" /\ r.v \in Traded
      /\ r.old \in Queued /\ ~jobs[r.old].recurring /\ jobs[r.old].work = r.v
  BY DEF SyncTyped, RequestsKnow, Knows, ReleaseKey
<1>2. /\ OutboxInv' /\ JobsStay
      /\ jobs'[r.old] = [jobs[r.old] EXCEPT !.held = FALSE]
      /\ \A j \in JobId : j # r.old => jobs'[j] = jobs[j]
      /\ UNCHANGED worker
      /\ request' = [request EXCEPT ![e] = new]
  BY <1>1, ReleaseKeeps DEF ReleaseKey
<1>3. /\ jobs'[r.old].work = jobs[r.old].work /\ jobs'[r.old].status = jobs[r.old].status
      /\ jobs'[r.old].recurring = jobs[r.old].recurring /\ ~jobs'[r.old].held
  BY <1>1, <1>2 DEF Row
<1>4. Queued' = Queued
  BY <1>2, <1>3 DEF Queued
<1>5. \A j \in Queued : /\ jobs'[j].recurring = jobs[j].recurring /\ jobs'[j].work = jobs[j].work
                        /\ jobs'[j].status = jobs[j].status /\ (jobs'[j].held => jobs[j].held)
  BY <1>2, <1>3
<1>6. OldJobs'
  BY <1>2, <1>4, <1>5 DEF OldJobs
<1>7. \A v : \A j \in Holders(v)' : j \in Holders(v) /\ jobs'[j].recurring = jobs[j].recurring
  BY <1>4, <1>5 DEF Holders
<1>8. \A j \in Holders(r.v)' : jobs'[j].recurring
  <2>1. SUFFICES ASSUME NEW j \in Holders(r.v)', ~jobs'[j].recurring
                 PROVE  FALSE
    OBVIOUS
  <2>2. j \in Queued /\ ~jobs[j].recurring /\ jobs'[j].held
    BY <1>4, <1>5, <2>1 DEF Holders
  <2>3. j = r.old
    BY <1>1, <2>2 DEF OldJobs
  <2>4. QED
    BY <1>3, <2>2, <2>3
<1>9. RequestsKnow'
  <2>1. \A d \in Enqueuer : Knows(request[d]) /\ request'[d] = IF d = e THEN new ELSE request[d]
    BY <1>2 DEF RequestsKnow, SyncTyped
  <2>2. new.at = "insert" /\ new.v = r.v
    BY <1>1, RequestFields
  <2> HIDE DEF new
  <2>3. Knows(request[e])'
    BY <1>1, <1>8, <2>1, <2>2 DEF Knows
  <2>4. ASSUME NEW d \in Enqueuer, d # e
        PROVE  Knows(request[d])'
    BY <1>4, <1>5, <1>7, <2>1, <2>4 DEF Knows
  <2>5. QED
    BY <2>3, <2>4 DEF RequestsKnow
<1>10. QED
  BY <1>1, <1>2, <1>3, <1>6, <1>9

(* What the steps of a request leave alone. *)
LEMMA EnqueueLeaves ==
  ASSUME NEW e \in Enqueuer
  PROVE  /\ Enqueue(e) => /\ request[e].at # "idle"
                          /\ UNCHANGED <<worker, figure, listing, walmart, push, pushedBy, dropped>>
         /\ CountListings(e) \/ FindHolder(e) \/ (InsertJob(e) /\ Holders(request[e].v) # {})
               => UNCHANGED jobs
<1> USE DEF history
<1>1. ASSUME CountListings(e)
      PROVE  /\ request[e].at # "idle"
             /\ UNCHANGED <<jobs, worker, figure, listing, walmart, push, pushedBy, dropped>>
  BY <1>1, Zenon DEF CountListings
<1>2. ASSUME InsertJob(e)
      PROVE  /\ request[e].at # "idle"
             /\ UNCHANGED <<worker, figure, listing, walmart, push, pushedBy, dropped>>
             /\ Holders(request[e].v) # {} => UNCHANGED jobs
  BY <1>2, Zenon DEF InsertJob
<1>3. ASSUME FindHolder(e)
      PROVE  /\ request[e].at # "idle"
             /\ UNCHANGED <<jobs, worker, figure, listing, walmart, push, pushedBy, dropped>>
  BY <1>3, Zenon DEF FindHolder
<1>4. ASSUME ReleaseKey(e)
      PROVE  /\ request[e].at # "idle"
             /\ UNCHANGED <<worker, figure, listing, walmart, push, pushedBy, dropped>>
  BY <1>4, Zenon DEF ReleaseKey
<1>5. QED
  BY <1>1, <1>2, <1>3, <1>4, Zenon DEF Enqueue

(* How they go on. *)
LEMMA EnqueueGoesOn ==
  ASSUME NEW e \in Enqueuer
  PROVE  /\ CountListings(e) =>
              \/ /\ listing[request[e].v] = "none"
                 /\ request' = [request EXCEPT ![e] = IdleRequest]
              \/ request' = [request EXCEPT ![e] = [request[e] EXCEPT !.at = "insert"]]
         /\ InsertJob(e) /\ Holders(request[e].v) # {} =>
              \/ request[e].retried /\ request' = [request EXCEPT ![e] = IdleRequest]
              \/ request' = [request EXCEPT ![e] = [request[e] EXCEPT !.at = "find"]]
         /\ FindHolder(e) =>
              \/ \E j \in Holders(request[e].v) :
                    /\ jobs[j].status # "pending"
                    /\ request' = [request EXCEPT ![e] = [request[e] EXCEPT !.at = "release", !.old = j]]
              \/ /\ \A j \in Holders(request[e].v) : jobs[j].status = "pending"
                 /\ request' = [request EXCEPT ![e] = IdleRequest]
BY Zenon DEF CountListings, InsertJob, FindHolder

(* Every step, for the rows and what the requests know of them. *)
LEMMA QueueStep ==
  ASSUME IInv, [Next]_vars
  PROVE  OutboxInv' /\ OldJobs' /\ RequestsKnow' /\ HandlerRuns'
<1> USE DEF history
<1>0. /\ OutboxInv /\ SyncTyped /\ HandlerRuns
      /\ (UNCHANGED <<jobs, worker>> => OutboxInv' /\ OldJobs')
      /\ (UNCHANGED <<jobs, worker, request>> => RequestsKnow')
  BY BatchKeeps, QuietKeeps DEF IInv
<1>1. ASSUME NEW e \in Enqueuer, NEW v \in Traded, NEW q \in Figure, ChangeStock(e, v, q)
      PROVE  OutboxInv' /\ OldJobs' /\ RequestsKnow' /\ HandlerRuns'
  <2> DEFINE new == [IdleRequest EXCEPT !.at = "count", !.v = v]
  <2>1. new.at # "release" /\ new.v = v /\ ~new.retried
    <3>1. request[e] \in RequestRow
      BY <1>0 DEF SyncTyped
    <3>2. new.at = "count" /\ new.v = v /\ ~new.retried
      BY <3>1, RequestFields
    <3>3. QED
      BY <3>2
  <2>2. request' = [request EXCEPT ![e] = new] /\ UNCHANGED <<jobs, worker, push>>
    BY <1>1 DEF ChangeStock
  <2> HIDE DEF new
  <2>3. RequestsKnow'
    BY <2>1, <2>2, RequestMoves
  <2>4. QED
    BY <1>0, <2>2, <2>3 DEF HandlerRuns
<1>2. ASSUME NEW e \in Enqueuer, Enqueue(e)
      PROVE  OutboxInv' /\ OldJobs' /\ RequestsKnow' /\ HandlerRuns'
  <2> DEFINE r == request[e]
  <2>1. r \in RequestRow
    BY <1>0 DEF SyncTyped
  <2>2. HandlerRuns'
    <3>1. UNCHANGED <<worker, push>>
      BY <1>2, EnqueueLeaves
    <3>2. QED
      BY <1>0, <3>1 DEF HandlerRuns
  <2>3. CASE InsertJob(e) /\ Holders(r.v) = {}
    BY <2>2, <2>3, InsertStep
  <2>4. CASE ReleaseKey(e)
    BY <2>2, <2>4, ReleaseStep
  <2>5. CASE CountListings(e) \/ FindHolder(e) \/ (InsertJob(e) /\ Holders(r.v) # {})
    <3>1. r.at # "idle" /\ r.v \in Traded
      BY <1>2, EnqueueLeaves DEF IInv, RequestsKnow, Knows
    <3>2. UNCHANGED <<jobs, worker>>
      BY <1>2, <2>5, EnqueueLeaves
    <3>3. PICK new :
            /\ request' = [request EXCEPT ![e] = new]
            /\ new.at # "idle" => new.v = r.v
            /\ new.at = "release" =>
                 /\ new.old \in Queued /\ ~jobs[new.old].recurring
                 /\ jobs[new.old].work = new.v
            /\ new.retried => r.retried /\ new.v = r.v
      <4>1. CASE CountListings(e)
        <5> DEFINE next == [r EXCEPT !.at = "insert"]
        <5>1. next.at = "insert" /\ next.v = r.v /\ next.retried = r.retried
          BY <2>1, RequestFields
        <5>2. \/ request' = [request EXCEPT ![e] = IdleRequest]
              \/ request' = [request EXCEPT ![e] = next]
          BY <4>1, EnqueueGoesOn, Zenon
        <5> HIDE DEF next
        <5>3. QED
          BY <2>1, <5>1, <5>2, RequestFields
      <4>2. CASE InsertJob(e) /\ Holders(r.v) # {}
        <5> DEFINE next == [r EXCEPT !.at = "find"]
        <5>1. next.at = "find" /\ next.v = r.v /\ next.retried = r.retried
          BY <2>1, RequestFields
        <5>2. \/ request' = [request EXCEPT ![e] = IdleRequest]
              \/ request' = [request EXCEPT ![e] = next]
          BY <4>2, EnqueueGoesOn, Zenon
        <5> HIDE DEF next
        <5>3. QED
          BY <2>1, <5>1, <5>2, RequestFields
      <4>3. ASSUME NEW j \in Holders(r.v), jobs[j].status # "pending",
                   request' = [request EXCEPT ![e] = [r EXCEPT !.at = "release", !.old = j]]
            PROVE  \E new :
                     /\ request' = [request EXCEPT ![e] = new]
                     /\ new.at # "idle" => new.v = r.v
                     /\ new.at = "release" =>
                          /\ new.old \in Queued /\ ~jobs[new.old].recurring
                          /\ jobs[new.old].work = new.v
                     /\ new.retried => r.retried /\ new.v = r.v
        <5>1. j \in Queued /\ ~jobs[j].recurring /\ jobs[j].work = r.v
          BY <3>1, <4>3, HolderUnread
        <5> DEFINE new == [r EXCEPT !.at = "release", !.old = j]
        <5>2. new.v = r.v /\ new.old = j /\ new.retried = r.retried
          BY <2>1, RequestFields
        <5>3. request' = [request EXCEPT ![e] = new]
          BY <4>3
        <5> HIDE DEF new
        <5>4. QED
          BY <5>1, <5>2, <5>3
      <4>4. CASE request' = [request EXCEPT ![e] = IdleRequest]
        <5>1. IdleRequest.at = "idle" /\ ~IdleRequest.retried
          BY <2>1, RequestFields
        <5>2. IdleRequest.at # "release"
          BY <5>1
        <5>3. QED
          BY <4>4, <5>1, <5>2, Zenon
      <4>5. CASE FindHolder(e)
        BY <4>3, <4>4, <4>5, EnqueueGoesOn, Zenon
      <4>6. QED
        BY <2>5, <4>1, <4>2, <4>5
    <3>4. RequestsKnow'
      BY <3>1, <3>2, <3>3, RequestMoves
    <3>5. QED
      BY <1>0, <2>2, <3>2, <3>4
  <2>6. QED
    BY <1>2, <2>3, <2>4, <2>5 DEF Enqueue
<1>3. ASSUME NEW e \in Enqueuer, LoseEnqueue(e)
      PROVE  OutboxInv' /\ OldJobs' /\ RequestsKnow' /\ HandlerRuns'
  <2>1. request[e] \in RequestRow
    BY <1>0 DEF SyncTyped
  <2>2. RequestsKnow'
    BY <1>3, <2>1, RequestFields, RequestMoves DEF LoseEnqueue
  <2>3. QED
    BY <1>0, <1>3, <2>2 DEF LoseEnqueue, HandlerRuns
<1>4. ASSUME NEW v \in Traded, NEW s \in Listing, MoveListing(v, s)
      PROVE  OutboxInv' /\ OldJobs' /\ RequestsKnow' /\ HandlerRuns'
  BY <1>0, <1>4 DEF MoveListing, HandlerRuns
<1>5. CASE StartDrain
  <2>1. worker.job = NoJob /\ worker'.job = NoJob
    BY <1>5 DEF StartDrain, StartBatch, IdleWorker
  <2>2. QED
    BY <1>0, <1>5, <2>1, BatchKeeps, QuietKeeps DEF StartDrain, StartBatch, HandlerRuns
<1>6. CASE Crash
  <2>1. worker'.job = NoJob /\ push'.at = "idle"
    BY <1>6 DEF Crash, WorkerGone, IdleWorker, IdlePush
  <2>2. QED
    BY <1>0, <1>6, <2>1, BatchKeeps, QuietKeeps DEF Crash, WorkerGone, HandlerRuns
<1>7. CASE PickUpJob \/ FinishJob \/ FailJob \/ RetryDue
  <2>1. /\ OutboxInv'
        /\ \E j \in Queued : PickedUp(j) \/ Left(j) \/ Waited(j)
    <3>1. CASE PickUpJob
      BY <1>0, <3>1, DrainRows
    <3>2. CASE FinishJob \/ FailJob
      <4>1. OutboxInv' /\ Left(worker.job)
        BY <1>0, <3>2, DrainRows
      <4>2. worker.job \in Queued
        BY <4>1 DEF Left, RowStep
      <4>3. QED
        BY <4>1, <4>2
    <3>3. CASE RetryDue
      BY <1>0, <3>3, DrainRows
    <3>4. QED
      BY <1>7, <3>1, <3>2, <3>3
  <2>2. OldJobs' /\ RequestsKnow'
    BY <1>7, <2>1, RowStepKeeps DEF PickUpJob, FinishJob, FailJob, RetryDue
  <2>3. HandlerRuns'
    <3>1. CASE PickUpJob
      <4>1. push'.at = "read"
        BY <3>1 DEF PickUpJob, IdlePush
      <4>2. PICK j \in Queued : worker'.job = j
        BY <1>0, <3>1, DrainRows DEF PickedUp
      <4>3. QED
        BY <1>0, <4>1, <4>2, Running DEF HandlerRuns
    <3>2. CASE FinishJob \/ FailJob
      BY <1>0, <3>2, DrainRows DEF FinishJob, FailJob, Left, IdlePush, HandlerRuns
    <3>3. CASE RetryDue
      BY <1>0, <3>3, DrainRows DEF RetryDue, Waited, HandlerRuns
    <3>4. QED
      BY <1>7, <3>1, <3>2, <3>3
  <2>4. QED
    BY <2>1, <2>2, <2>3
<1>8. CASE ReadFigure \/ PutFigure
  <2>1. HandlerRuns'
    BY <1>0, <1>8 DEF ReadFigure, PutFigure, IdlePush, HandlerRuns
  <2>2. QED
    BY <1>0, <1>8, <2>1 DEF ReadFigure, PutFigure
<1>9. CASE Sweep
  BY <1>0, <1>9 DEF Sweep, StartSweep, SweepRead, SweepPut, SweepFails, HandlerRuns
<1>10. CASE UNCHANGED vars
  BY <1>0, <1>10 DEF vars, HandlerRuns
<1>11. QED
  BY <1>1, <1>2, <1>3, <1>4, <1>5, <1>6, <1>7, <1>8, <1>9, <1>10 DEF Next, Drain

-----------------------------------------------------------------------------
(* What is owed stays owed while the requests stand still, a job that is   *)
(* over stays as it is, and one that is unread stays unread.               *)
LEMMA SureStays ==
  ASSUME OutboxInv, NEW v \in Variant, Sure(v), UNCHANGED request,
         \A j \in JobId : jobs[j].status # "pending" => jobs'[j] = jobs[j],
         \A j \in JobId : jobs[j].work = v /\ Unread(j) => jobs'[j].work = v /\ Unread(j)'
  PROVE  Sure(v)'
<1>1. CASE \E e \in Enqueuer : request[e].v = v /\ request[e].at \in {"count", "insert", "release"}
  BY <1>1 DEF Sure
<1>2. CASE \E e \in Enqueuer :
             /\ request[e].v = v /\ request[e].at = "find"
             /\ \E j \in Holders(v) : jobs[j].status # "pending"
  <2>1. PICK j \in Holders(v) : jobs[j].status # "pending"
    BY <1>2
  <2>2. j \in Holders(v)' /\ jobs'[j].status # "pending"
    BY <2>1 DEF Holders, Queued
  <2>3. QED
    BY <1>2, <2>2 DEF Sure
<1>3. CASE \E j \in JobId : jobs[j].work = v /\ Unread(j)
  BY <1>3 DEF Sure
<1>4. QED
  BY <1>1, <1>2, <1>3 DEF Sure

(* A step of one request, about another variant, changes nothing of this   *)
(* one's.                                                                  *)
LEMMA SureElsewhere ==
  ASSUME IInv, NEW v \in Variant, Sure(v), NEW e \in Enqueuer, NEW new,
         request[e].at = "idle" \/ request[e].v # v,
         request' = [request EXCEPT ![e] = new],
         \A j \in Queued : jobs[j].work = v => jobs'[j] = jobs[j],
         UNCHANGED <<worker, push>>, figure'[v] = figure[v]
  PROVE  Sure(v)'
<1> USE Running DEF IInv
<1>1. \A d \in Enqueuer : d # e => request'[d] = request[d]
  BY DEF SyncTyped
<1>2. CASE \E d \in Enqueuer : request[d].v = v /\ request[d].at \in {"count", "insert", "release"}
  BY <1>1, <1>2 DEF Sure
<1>3. CASE \E d \in Enqueuer :
             /\ request[d].v = v /\ request[d].at = "find"
             /\ \E j \in Holders(v) : jobs[j].status # "pending"
  <2>1. PICK j \in Holders(v) : jobs[j].status # "pending"
    BY <1>3
  <2>2. j \in Holders(v)' /\ jobs'[j].status # "pending"
    BY <2>1 DEF Holders, Queued
  <2>3. PICK d \in Enqueuer : request'[d].v = v /\ request'[d].at = "find"
    BY <1>1, <1>3
  <2>4. QED
    BY <2>2, <2>3 DEF Sure
<1>4. CASE \E j \in JobId : jobs[j].work = v /\ Unread(j)
  <2>1. PICK j \in JobId : jobs[j].work = v /\ Unread(j)
    BY <1>4
  <2>2. jobs'[j] = jobs[j]
    BY <2>1 DEF Unread, Queued
  <2>3. jobs'[j].work = v /\ Unread(j)'
    BY <2>1, <2>2 DEF Unread
  <2>4. QED
    BY <2>3 DEF Sure
<1>5. QED
  BY <1>2, <1>3, <1>4 DEF Sure

(* A debt that a step leaves is one there was: no step but a change of     *)
(* stock, a drop that is noted, or the drain's own makes one.              *)
LEMMA OldDebt ==
  ASSUME IInv, NEW v \in Variant, Debt(v)',
         UNCHANGED <<jobs, worker>>, UNCHANGED push \/ push'.at # "put",
         UNCHANGED <<figure, walmart, listing, pushedBy, dropped>>
  PROVE  Debt(v)
BY DEF Debt, Pushable, Drained

(* A request's own steps: it asks on, or leaves v to a job that it has     *)
(* inserted or found and that nobody has run.                              *)
LEMMA RequestDebt ==
  ASSUME IInv, NEW e \in Enqueuer, Enqueue(e)
  PROVE  DebtsAreSure'
<1> USE DEF IInv
<1> DEFINE r == request[e]
<1>1. r \in RequestRow /\ r.at # "idle"
  BY EnqueueLeaves DEF SyncTyped
<1>2. UNCHANGED <<worker, figure, listing, walmart, push, pushedBy, dropped>>
  BY EnqueueLeaves
<1>3. SUFFICES ASSUME NEW v \in Variant, Debt(v)'
               PROVE  Sure(v)'
  BY DEF DebtsAreSure
<1>4. CASE InsertJob(e) /\ Holders(r.v) = {}
  <2>1. PICK n \in JobId :
               /\ n \notin Queued /\ n # worker'.job
               /\ jobs'[n].work = r.v /\ jobs'[n].status = "pending"
               /\ \A j \in JobId : j # n => jobs'[j] = jobs[j]
               /\ request' = [request EXCEPT ![e] = IdleRequest]
    BY <1>4, InsertStep DEF InsertJob
  <2>2. CASE r.v = v
    <3>1. jobs'[n].work = v /\ Unread(n)'
      BY <2>1, <2>2 DEF Unread
    <3>2. QED
      BY <2>1, <3>1 DEF Sure
  <2>3. CASE r.v # v
    <3>1. Drained' = Drained \/ push.at # "put"
      BY <1>2, <2>1, Running DEF Drained, HandlerRuns
    <3>2. Debt(v)
      BY <1>2, <1>3, <3>1 DEF Debt, Pushable
    <3>3. \A j \in Queued : jobs'[j] = jobs[j]
      BY <2>1, Running
    <3>4. QED
      BY <1>2, <2>1, <2>3, <3>2, <3>3, SureElsewhere DEF DebtsAreSure
  <2>4. QED
    BY <2>2, <2>3
<1>5. CASE ReleaseKey(e)
  <2> DEFINE new == [r EXCEPT !.at = "insert", !.retried = TRUE]
  <2>1. new.at = "insert" /\ new.v = r.v /\ request' = [request EXCEPT ![e] = new]
    BY <1>1, <1>5, RequestFields DEF ReleaseKey
  <2> HIDE DEF new
  <2>2. \A j \in JobId : /\ jobs'[j].work = jobs[j].work
                         /\ jobs[j].work # r.v => jobs'[j] = jobs[j]
    BY <1>5, ReleaseStep
  <2>3. CASE r.v = v
    <3>1. request'[e] = new
      BY <2>1 DEF SyncTyped
    <3>2. QED
      BY <2>1, <2>3, <3>1 DEF Sure
  <2>4. CASE r.v # v
    <3>1. Drained' = Drained \/ push.at # "put"
      BY <1>2, <2>2, Running DEF Drained, HandlerRuns
    <3>2. Debt(v)
      BY <1>2, <1>3, <3>1 DEF Debt, Pushable
    <3>3. \A j \in Queued : jobs[j].work = v => jobs'[j] = jobs[j]
      BY <2>2, <2>4, Running
    <3>4. QED
      BY <1>2, <2>1, <2>4, <3>2, <3>3, SureElsewhere DEF DebtsAreSure
  <2>5. QED
    BY <2>3, <2>4
<1>6. CASE CountListings(e) \/ FindHolder(e) \/ (InsertJob(e) /\ Holders(r.v) # {})
  <2>1. UNCHANGED jobs
    BY <1>6, EnqueueLeaves
  <2>2. Debt(v) /\ Sure(v)
    BY <1>2, <1>3, <2>1, OldDebt DEF DebtsAreSure
  <2>3. Queued' = Queued /\ Holders(v)' = Holders(v)
    BY <2>1 DEF Queued, Holders
  <2>4. \A j \in JobId : Unread(j) <=> Unread(j)'
    BY <1>2, <2>1 DEF Unread
  <2>5. ASSUME NEW new, request' = [request EXCEPT ![e] = new], r.v # v
        PROVE  Sure(v)'
    BY <1>2, <2>1, <2>2, <2>5, SureElsewhere
  <2>6. ASSUME NEW j \in Holders(v), jobs[j].status = "pending", r.v = v
        PROVE  Sure(v)'
    <3>1. j \in JobId /\ jobs[j].work = v /\ Unread(j)
      BY <1>1, <2>6, HolderUnread
    <3>2. jobs'[j].work = v /\ Unread(j)'
      BY <2>1, <2>4, <3>1
    <3>3. QED
      BY <3>1, <3>2 DEF Sure
  <2>7. ASSUME NEW new, request' = [request EXCEPT ![e] = new], r.v = v, new.v = v,
               \/ new.at \in {"insert", "release"}
               \/ new.at = "find" /\ \E j \in Holders(v) : jobs[j].status # "pending"
        PROVE  Sure(v)'
    <3>1. request'[e] = new
      BY <2>7 DEF SyncTyped
    <3>2. QED
      BY <2>1, <2>3, <2>7, <3>1 DEF Sure
  <2>8. CASE CountListings(e)
    <3> DEFINE new == [r EXCEPT !.at = "insert"]
    <3>1. new.at = "insert" /\ new.v = r.v
      BY <1>1, RequestFields
    <3>2. \/ listing[r.v] = "none" /\ request' = [request EXCEPT ![e] = IdleRequest]
          \/ request' = [request EXCEPT ![e] = new]
      BY <2>8, EnqueueGoesOn, Zenon
    <3> HIDE DEF new
    <3>3. listing[v] # "none"
      BY <2>2 DEF Debt, Pushable
    <3>4. QED
      BY <2>5, <2>7, <3>1, <3>2, <3>3
  <2>9. CASE InsertJob(e) /\ Holders(r.v) # {}
    <3> DEFINE new == [r EXCEPT !.at = "find"]
    <3>1. new.at = "find" /\ new.v = r.v
      BY <1>1, RequestFields
    <3>2. \/ r.retried /\ request' = [request EXCEPT ![e] = IdleRequest]
          \/ request' = [request EXCEPT ![e] = new]
      BY <2>9, EnqueueGoesOn, Zenon
    <3> HIDE DEF new
    <3>3. PICK j : j \in Holders(r.v)
      BY <2>9
    <3>4. r.retried => jobs[j].status = "pending"
      <4>1. r.retried => jobs[j].recurring
        BY <3>3 DEF RequestsKnow, Knows
      <4>2. QED
        BY <1>1, <3>3, <4>1, HolderUnread
    <3>5. CASE r.v # v
      BY <2>5, <3>2, <3>5
    <3>6. CASE r.v = v /\ jobs[j].status = "pending"
      BY <2>6, <3>3, <3>6
    <3>7. CASE r.v = v /\ jobs[j].status # "pending"
      BY <2>7, <3>1, <3>2, <3>3, <3>4, <3>7
    <3>8. QED
      BY <3>5, <3>6, <3>7
  <2>10. CASE FindHolder(e)
    <3>1. ASSUME NEW j \in Holders(r.v), jobs[j].status # "pending",
                 request' = [request EXCEPT ![e] = [r EXCEPT !.at = "release", !.old = j]]
          PROVE  Sure(v)'
      <4> DEFINE new == [r EXCEPT !.at = "release", !.old = j]
      <4>1. new.at = "release" /\ new.v = r.v /\ request' = [request EXCEPT ![e] = new]
        BY <1>1, <3>1, RequestFields
      <4> HIDE DEF new
      <4>2. QED
        BY <2>5, <2>7, <4>1
    <3>2. ASSUME \A j \in Holders(r.v) : jobs[j].status = "pending",
                 request' = [request EXCEPT ![e] = IdleRequest], r.v = v
          PROVE  Sure(v)'
      <4>1. r.at = "find"
        BY <2>10, Zenon DEF FindHolder
      <4>2. \A d \in Enqueuer : d # e => request'[d] = request[d]
        BY <3>2 DEF SyncTyped
      <4>3. CASE \E d \in Enqueuer : request[d].v = v /\ request[d].at \in {"count", "insert", "release"}
        BY <4>1, <4>2, <4>3 DEF Sure
      <4>4. CASE \E j \in JobId : jobs[j].work = v /\ Unread(j)
        BY <2>1, <2>4, <4>4 DEF Sure
      <4>5. QED
        BY <2>2, <3>2, <4>3, <4>4 DEF Sure
    <3>3. QED
      BY <2>5, <2>10, <3>1, <3>2, EnqueueGoesOn, Zenon
  <2>11. QED
    BY <1>6, <2>8, <2>9, <2>10
<1>7. QED
  BY <1>4, <1>5, <1>6 DEF Enqueue

(* The drain's steps: the job that leaves vouched for nothing any more, or *)
(* is to be run again.                                                     *)
LEMMA DrainDebt ==
  ASSUME IInv, Drain \/ RetryDue
  PROVE  DebtsAreSure'
<1> USE DEF IInv, history
<1>1. SUFFICES ASSUME NEW v \in Variant, Debt(v)'
               PROVE  Sure(v)'
  BY DEF DebtsAreSure
<1>2. CASE StartDrain
  <2>1. UNCHANGED <<jobs, request, push, figure, walmart, listing, pushedBy, dropped>>
    BY <1>2 DEF StartDrain, StartBatch
  <2>2. worker.job = NoJob /\ worker'.job = NoJob
    BY <1>2 DEF StartDrain, StartBatch, IdleWorker
  <2>3. Debt(v)
    BY <1>1, <2>1, <2>2 DEF Debt, Pushable, Drained
  <2>4. \A j \in JobId : Unread(j) => Unread(j)'
    BY <2>1, <2>2 DEF Unread
  <2>5. QED
    BY <2>1, <2>3, <2>4, SureStays DEF DebtsAreSure
<1>3. CASE ReadFigure
  <2>1. /\ UNCHANGED <<jobs, worker, request, figure, walmart, listing, pushedBy>>
        /\ push.at = "read" /\ worker.job \in Queued /\ jobs[worker.job].status = "pending"
    BY <1>3, Running DEF ReadFigure, HandlerRuns
  <2>2. CASE v = Drained
    <3>1. Pushable(v)
      BY <1>1, <2>1 DEF Debt, Pushable
    <3>2. push'.at = "put" /\ push'.fig = figure[v]
      BY <1>3, <2>2, <3>1 DEF ReadFigure
    <3>3. PICK j \in JobId : j = worker.job
      BY <2>1, Running
    <3>4. jobs'[j].work = v /\ Unread(j)'
      BY <2>1, <2>2, <3>2, <3>3 DEF Unread, Drained
    <3>5. QED
      BY <3>4 DEF Sure
  <2>3. CASE v # Drained
    <3>1. dropped'[v] = dropped[v]
      BY <1>3, <2>3 DEF ReadFigure, SyncTyped
    <3>2. Debt(v)
      BY <1>1, <2>1, <2>3, <3>1 DEF Debt, Pushable, Drained
    <3>3. \A j \in JobId : jobs[j].work = v /\ Unread(j) => jobs'[j].work = v /\ Unread(j)'
      BY <2>1, <2>3 DEF Unread, Drained
    <3>4. QED
      BY <2>1, <3>2, <3>3, SureStays DEF DebtsAreSure
  <2>4. QED
    BY <2>2, <2>3
<1>4. CASE PutFigure
  <2>1. /\ UNCHANGED <<jobs, worker, request, figure, listing, dropped>>
        /\ push.at = "put" /\ worker.job \in Queued
    BY <1>4, Running DEF PutFigure, HandlerRuns
  <2>2. push'.at = "done"
    BY <1>4 DEF PutFigure, IdlePush
  <2>3. \A w \in Variant : /\ w = Drained => walmart'[w] = push.fig
                           /\ w # Drained => walmart'[w] = walmart[w] /\ pushedBy'[w] = pushedBy[w]
    BY <1>4 DEF PutFigure, Take, SyncTyped
  <2>4. Debt(v) /\ (v = Drained => push.fig # figure[v])
    BY <1>1, <2>1, <2>2, <2>3 DEF Debt, Pushable
  <2>5. \A j \in JobId : jobs[j].work = v /\ Unread(j) => jobs'[j].work = v /\ Unread(j)'
    <3>1. \A j \in JobId : jobs[j].work = v /\ Unread(j) => j # worker.job
      BY <2>1, <2>4 DEF Unread, Drained
    <3>2. QED
      BY <2>1, <3>1 DEF Unread
  <2>6. QED
    BY <2>1, <2>4, <2>5, SureStays DEF DebtsAreSure
<1>5. CASE PickUpJob
  <2>1. PICK j \in Queued : PickedUp(j)
    BY <1>5, DrainRows
  <2>2. UNCHANGED <<request, figure, walmart, listing, pushedBy, dropped>> /\ push'.at = "read"
    BY <1>5 DEF PickUpJob, IdlePush
  <2>3. Debt(v)
    BY <1>1, <2>2 DEF Debt, Pushable
  <2>4. /\ jobs[j].status = "pending" /\ jobs'[j].status = "pending" /\ jobs'[j].work = jobs[j].work
        /\ \A i \in JobId : i # j => jobs'[i] = jobs[i]
        /\ worker'.job = j
    BY <2>1 DEF PickedUp, RowStep
  <2>5. \A i \in JobId : jobs[i].work = v /\ Unread(i) => jobs'[i].work = v /\ Unread(i)'
    BY <2>2, <2>4 DEF Unread
  <2>6. QED
    BY <2>2, <2>3, <2>4, <2>5, SureStays DEF DebtsAreSure
<1>6. CASE FinishJob \/ FailJob
  <2>1. /\ Left(worker.job) /\ worker'.job = NoJob
        /\ \A i \in JobId : i # worker.job => jobs'[i] = jobs[i]
        /\ worker.job \in Queued /\ jobs[worker.job].status = "pending"
        /\ jobs'[worker.job].work = jobs[worker.job].work
    BY <1>6, DrainRows DEF Left, RowStep
  <2>2. UNCHANGED <<request, figure, listing>> /\ push'.at = "idle" /\ push.at \in {"put", "done"}
    BY <1>6 DEF FinishJob, FailJob, IdlePush
  <2>3. CASE v = Drained /\ FailJob
    <3>1. ~LastAttempt(worker.job)
      BY <1>1, <2>3 DEF Debt, FailJob, SyncTyped
    <3>2. PICK j \in JobId : j = worker.job
      BY <2>1, Running
    <3>3. jobs'[j].status = "pending" /\ jobs'[j].work = v
      BY <2>1, <2>3, <3>1, <3>2, DrainRows DEF Drained
    <3>4. Unread(j)'
      BY <2>1, <3>2, <3>3, Running DEF Unread
    <3>5. QED
      BY <3>3, <3>4 DEF Sure
  <2>4. CASE v # Drained \/ FinishJob
    <3>1. walmart'[v] = walmart[v] /\ pushedBy'[v] = pushedBy[v] /\ dropped'[v] = dropped[v]
      <4>1. CASE FinishJob
        BY <4>1 DEF FinishJob
      <4>2. CASE FailJob /\ v # Drained
        BY <4>2 DEF FailJob, Take, SyncTyped
      <4>3. QED
        BY <1>6, <2>4, <4>1, <4>2
    <3>2. Debt(v)
      BY <1>1, <2>2, <3>1 DEF Debt, Pushable
    <3>3. \A i \in JobId : jobs[i].work = v /\ Unread(i) => i # worker.job
      <4>1. FinishJob => push.at = "done"
        BY DEF FinishJob
      <4>2. QED
        BY <2>4, <4>1 DEF Unread, Drained
    <3>4. \A i \in JobId : jobs[i].work = v /\ Unread(i) => jobs'[i].work = v /\ Unread(i)'
      BY <2>1, <3>3, Running DEF Unread
    <3>5. \A i \in JobId : jobs[i].status # "pending" => jobs'[i] = jobs[i]
      BY <2>1
    <3>6. QED
      BY <2>2, <3>2, <3>4, <3>5, SureStays DEF DebtsAreSure
  <2>5. QED
    BY <1>6, <2>3, <2>4
<1>7. CASE RetryDue
  <2>1. PICK j \in Queued : Waited(j)
    BY <1>7, DrainRows
  <2>2. UNCHANGED <<request, push, figure, walmart, listing, pushedBy, dropped>>
    BY <1>7 DEF RetryDue
  <2>3. /\ jobs[j].status = "pending" /\ jobs'[j].status = "pending" /\ jobs'[j].work = jobs[j].work
        /\ \A i \in JobId : i # j => jobs'[i] = jobs[i]
        /\ UNCHANGED worker
    BY <2>1 DEF Waited, RowStep
  <2>4. worker.job # NoJob => Drained' = Drained
    BY <2>3, Running DEF Drained
  <2>5. Debt(v)
    BY <1>1, <2>2, <2>4 DEF Debt, Pushable, HandlerRuns
  <2>6. \A i \in JobId : jobs[i].work = v /\ Unread(i) => jobs'[i].work = v /\ Unread(i)'
    BY <2>2, <2>3 DEF Unread
  <2>7. QED
    BY <2>2, <2>3, <2>5, <2>6, SureStays DEF DebtsAreSure
<1>8. QED
  BY <1>2, <1>3, <1>4, <1>5, <1>6, <1>7 DEF Drain

(* Every step, for what is owed. *)
LEMMA DebtStep ==
  ASSUME IInv, [Next]_vars
  PROVE  DebtsAreSure'
<1> USE DEF history
<1>1. ASSUME NEW e \in Enqueuer, NEW w \in Traded, NEW q \in Figure, ChangeStock(e, w, q),
             NEW v \in Variant, Debt(v)'
      PROVE  Sure(v)'
  <2> DEFINE new == [IdleRequest EXCEPT !.at = "count", !.v = w]
  <2>1. /\ request' = [request EXCEPT ![e] = new] /\ request[e].at = "idle"
        /\ UNCHANGED <<jobs, worker, push, walmart, listing, pushedBy, dropped>>
    BY <1>1 DEF ChangeStock
  <2>2. new.at = "count" /\ new.v = w /\ request'[e] = new
    <3>1. request[e] \in RequestRow /\ request'[e] = new
      BY <2>1 DEF IInv, SyncTyped
    <3>2. QED
      BY <3>1, RequestFields
  <2> HIDE DEF new
  <2>3. CASE v = w
    BY <2>2, <2>3 DEF Sure
  <2>4. CASE v # w
    <3>1. figure'[v] = figure[v]
      BY <1>1, <2>4 DEF ChangeStock, IInv, SyncTyped
    <3>2. Debt(v)
      BY <1>1, <2>1, <3>1 DEF Debt, Pushable, Drained
    <3>3. Sure(v)
      BY <3>2 DEF IInv, DebtsAreSure
    <3>4. QED
      BY <2>1, <3>1, <3>3, SureElsewhere
  <2>5. QED
    BY <2>3, <2>4
<1>2. ASSUME NEW e \in Enqueuer, LoseEnqueue(e), NEW v \in Variant, Debt(v)'
      PROVE  Sure(v)'
  <2>1. /\ UNCHANGED <<jobs, worker, figure, listing, walmart, push, pushedBy>>
        /\ request' = [request EXCEPT ![e] = IdleRequest]
    BY <1>2 DEF LoseEnqueue
  <2>2. v # request[e].v /\ dropped'[v] = dropped[v]
    BY <1>2 DEF LoseEnqueue, Debt, IInv, SyncTyped
  <2>3. Debt(v)
    BY <1>2, <2>1, <2>2 DEF Debt, Pushable, Drained
  <2>4. Sure(v)
    BY <2>3 DEF IInv, DebtsAreSure
  <2>5. QED
    BY <2>1, <2>2, <2>4, SureElsewhere
<1>3. ASSUME UNCHANGED <<jobs, request, figure>>,
             (worker'.job = worker.job /\ UNCHANGED push) \/ worker'.job = NoJob,
             NEW v \in Variant, Debt(v)' => Debt(v), Debt(v)'
      PROVE  Sure(v)'
  <2>1. Sure(v)
    BY <1>3 DEF IInv, DebtsAreSure
  <2>2. \A j \in JobId : j # NoJob
    BY OutboxAssumption DEF NoJob
  <2>3. \A j \in JobId : Unread(j) => Unread(j)'
    BY <1>3, <2>2 DEF Unread
  <2>4. QED
    BY <1>3, <2>1, <2>3, SureStays DEF IInv
<1>4. ASSUME NEW w \in Traded, NEW s \in Listing, MoveListing(w, s), NEW v \in Variant, Debt(v)'
      PROVE  Sure(v)'
  <2>1. UNCHANGED <<jobs, worker, figure, walmart, request, push, pushedBy>>
    BY <1>4 DEF MoveListing
  <2>2. v # w \/ Pushable(v)
    BY <1>4 DEF MoveListing, Debt, IInv, SyncTyped
  <2>3. ~dropped[v] /\ Pushable(v)
    BY <1>4, <2>2 DEF MoveListing, Debt, Pushable, IInv, SyncTyped
  <2>4. Debt(v)
    BY <1>4, <2>1, <2>3 DEF Debt, Drained
  <2>5. QED
    BY <1>3, <1>4, <2>1, <2>4
<1>5. ASSUME Sweep, NEW v \in Variant, Debt(v)'
      PROVE  Sure(v)'
  <2>1. UNCHANGED <<jobs, worker, figure, listing, request, push, dropped>>
    BY <1>5 DEF Sweep, StartSweep, SweepRead, SweepPut, SweepFails
  <2>2. \/ walmart'[v] = walmart[v] /\ pushedBy'[v] = pushedBy[v]
        \/ pushedBy'[v] = "sweep"
    BY <1>5 DEF Sweep, StartSweep, SweepRead, SweepPut, SweepFails, Take, IInv, SyncTyped
  <2>3. Debt(v)
    BY <1>5, <2>1, <2>2 DEF Debt, Pushable, Drained
  <2>4. QED
    BY <1>3, <1>5, <2>1, <2>3
<1>6. ASSUME Crash, NEW v \in Variant, Debt(v)'
      PROVE  Sure(v)'
  <2>1. /\ UNCHANGED <<jobs, figure, listing, walmart, request, pushedBy, dropped>>
        /\ worker'.job = NoJob /\ push'.at = "idle"
    BY <1>6 DEF Crash, WorkerGone, IdleWorker, IdlePush
  <2>2. Debt(v)
    BY <1>6, <2>1 DEF Debt, Pushable
  <2>3. QED
    BY <1>3, <1>6, <2>1, <2>2
<1>7. ASSUME UNCHANGED vars, NEW v \in Variant, Debt(v)'
      PROVE  Sure(v)'
  <2>1. UNCHANGED <<jobs, worker, figure, listing, walmart, request, push, pushedBy, dropped>>
    BY <1>7 DEF vars
  <2>2. Debt(v)
    BY <1>7, <2>1 DEF Debt, Pushable, Drained
  <2>3. QED
    BY <1>3, <1>7, <2>1, <2>2
<1>8. CASE (\E e \in Enqueuer : Enqueue(e)) \/ Drain \/ RetryDue
  BY <1>8, RequestDebt, DrainDebt
<1>9. QED
  BY <1>1, <1>2, <1>4, <1>5, <1>6, <1>7, <1>8, Zenon DEF Next, DebtsAreSure

-----------------------------------------------------------------------------
(* The old row is typed, and over if its variant's stock may change. *)
LEMMA OldRowTyped ==
  ASSUME NEW old \in OldRows
  PROVE  /\ old \in Row /\ ~old.recurring /\ old.attempts = 0
         /\ old.status # "free" /\ old.work \in Traded => old.status \in {"done", "dead"}
<1>1. CASE old = FreeRow
  BY <1>1, FreeRowTyped, FreeRowFields
<1>2. ASSUME NEW v \in Traded, NEW s \in {"done", "dead"},
             old = [NewRow(v, FALSE) EXCEPT !.status = s]
      PROVE  /\ old \in Row /\ ~old.recurring /\ old.attempts = 0
             /\ old.status \in {"done", "dead"}
  <2>1. v \in Work
    BY InventoryAssumption
  <2>2. PICK row \in Row : row = NewRow(v, FALSE) /\ ~row.recurring /\ row.attempts = 0
    BY <2>1, NewRowTyped
  <2>3. old = [row EXCEPT !.status = s]
    BY <1>2, <2>2
  <2>4. QED
    BY <2>2, <2>3 DEF Row
<1>3. ASSUME NEW v \in Variant \ Traded, old = NewRow(v, FALSE)
      PROVE  /\ old \in Row /\ ~old.recurring /\ old.attempts = 0 /\ old.work \notin Traded
  BY <1>3, NewRowTyped, InventoryAssumption
<1>4. \/ old = FreeRow
      \/ \E v \in Traded, s \in {"done", "dead"} : old = [NewRow(v, FALSE) EXCEPT !.status = s]
      \/ \E v \in Variant \ Traded : old = NewRow(v, FALSE)
  BY Zenon DEF OldRows
<1>5. QED
  BY <1>1, <1>2, <1>3, <1>4

(* At the start at most the old row is there, and every figure is right. *)
LEMMA InitOK == ASSUME Init PROVE IInv
<1>1. PICK old \in OldRows :
        jobs = [j \in JobId |-> IF \A i \in JobId : j <= i THEN old ELSE FreeRow]
  BY DEF Init
<1>2. /\ old \in Row /\ ~old.recurring /\ old.attempts = 0
      /\ old.status # "free" /\ old.work \in Traded => old.status \in {"done", "dead"}
  BY OldRowTyped
<1>3. \A j \in JobId : jobs[j] = FreeRow \/ (jobs[j] = old /\ \A i \in JobId : j <= i)
  BY <1>1
<1>4. \A j \in Queued : jobs[j] = old /\ \A i \in JobId : j <= i
  BY <1>3, FreeRowFields DEF Queued
<1>5. \A i, j \in Queued : i = j
  <2>1. \A j \in Queued : j \in JobId /\ j \in Nat
    BY OutboxAssumption DEF Queued
  <2>2. QED
    BY <1>4, <2>1
<1>6. OutboxInv
  <2>1. jobs \in [JobId -> Row]
    BY <1>1, <1>2, FreeRowTyped
  <2>2. worker = IdleWorker
    BY DEF Init
  <2>3. OneHolder
    BY <1>5 DEF OneHolder, Holders
  <2>4. WorkerSafe
    <3>1. \A j \in JobId : jobs[j].attempts = 0
      BY <1>2, <1>3, FreeRowFields
    <3>2. QED
      BY <2>2, <3>1, OutboxAssumption DEF WorkerSafe, IdleWorker, NoJob
  <2>5. QED
    BY <2>1, <2>2, <2>3, <2>4 DEF OutboxInv, OutboxTypeOK, IdleWorker
<1>7. /\ \A e \in Enqueuer : request[e].at = "idle" /\ ~request[e].retried
      /\ push.at = "idle" /\ worker.job = NoJob
  BY DEF Init, IdleRequest, IdlePush, IdleWorker
<1>8. SyncTyped
  <2>1. IdleRequest \in RequestRow /\ (CHOOSE q \in Figure : TRUE) \in Figure
    BY OutboxAssumption, InventoryAssumption DEF NoVariant, IdleRequest, RequestRow
  <2>2. /\ figure \in [Variant -> Figure] /\ listing \in [Variant -> Listing]
        /\ request \in [Enqueuer -> RequestRow]
    BY <2>1 DEF Init, Listing
  <2>3. walmart \in [Variant -> Figure \cup {Unknown}]
    BY <2>2 DEF Init
  <2>4. /\ push \in [at : {"idle", "read", "put", "done"}, fig : Figure \cup {Unknown}]
        /\ sweep \in [at : {"idle", "read", "put"}, todo : SUBSET Variant, v : Variant,
                      fig : Figure \cup {Unknown}]
    BY OutboxAssumption, InventoryAssumption DEF Init, IdlePush, IdleSweep, NoVariant
  <2>5. /\ pushedBy \in [Variant -> {"none", "drain", "sweep"}]
        /\ dropped \in [Variant -> BOOLEAN]
        /\ changes \in 0..MaxChanges /\ faults \in 0..MaxFaults
    BY InventoryAssumption DEF Init
  <2>6. QED
    BY <2>2, <2>3, <2>4, <2>5 DEF SyncTyped
<1>9. OldJobs
  <2>1. \A j \in Queued : jobs[j] = old /\ old.status # "free"
    BY <1>4 DEF Queued
  <2>2. QED
    BY <1>2, <1>5, <2>1 DEF OldJobs
<1>10. RequestsKnow /\ HandlerRuns
  BY <1>7 DEF RequestsKnow, Knows, HandlerRuns
<1>11. DebtsAreSure
  <2>1. \A v \in Variant : Pushable(v) => walmart[v] = figure[v]
    BY DEF Init, Pushable
  <2>2. QED
    BY <1>7, <2>1 DEF DebtsAreSure, Debt
<1>12. QED
  BY <1>6, <1>8, <1>9, <1>10, <1>11 DEF IInv

(* The inductive invariant. *)
THEOREM IInvHolds == Spec => []IInv
<1>1. Init => IInv
  BY InitOK
<1>2. IInv /\ [Next]_vars => IInv'
  BY QueueStep, TypedStep, DebtStep DEF IInv
<1>3. QED
  BY <1>1, <1>2, PTL DEF Spec

(* The types of the job table, of the requests and of the two tasks. *)
THEOREM InventorySyncTypeCorrect == Spec => []TypeOK
<1>1. IInv => TypeOK
  BY DEF IInv, OutboxInv, SyncTyped, RequestRow, TypeOK
<1>2. QED
  BY <1>1, IInvHolds, PTL

(* A figure that Walmart got from the queue is right or about to be        *)
(* replaced, unless a fault dropped the change.                            *)
THEOREM StaleStaysOwed == Spec => []StaleIsOwed
<1>1. ASSUME IInv, NEW v \in Variant,
             Pushable(v), walmart[v] # figure[v], ~dropped[v], pushedBy[v] # "sweep"
      PROVE  Owed(v)
  <2>1. Sure(v)
    BY <1>1 DEF IInv, DebtsAreSure, Debt
  <2>2. CASE \E e \in Enqueuer :
               request[e].v = v /\ request[e].at \in {"count", "insert", "release", "find"}
    BY <2>2 DEF Owed
  <2>3. CASE \E j \in JobId : jobs[j].work = v /\ Unread(j)
    <3>1. PICK j \in JobId : jobs[j].work = v /\ Unread(j)
      BY <2>3
    <3>2. push = [at |-> push.at, fig |-> push.fig]
      BY <1>1 DEF IInv, SyncTyped
    <3>3. j = worker.job => push.at = "read" \/ push = [at |-> "put", fig |-> figure[v]]
      BY <3>1, <3>2 DEF Unread
    <3>4. QED
      BY <3>1, <3>3 DEF Owed, Unread
  <2>4. QED
    BY <2>1, <2>2, <2>3 DEF Sure
<1>2. IInv => StaleIsOwed
  BY <1>1 DEF StaleIsOwed
<1>3. QED
  BY <1>2, IInvHolds, PTL
=============================================================================
