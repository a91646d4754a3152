---------------------------- MODULE OutboxProofs ----------------------------
(***************************************************************************)
(* What every use of the job table relies on, for any work, any number of  *)
(* jobs and any limits: rows keep their types, a dedupe key has one        *)
(* holder, and the worker runs only jobs that are still to be run.         *)
(***************************************************************************)
EXTENDS Outbox, TLAPS

(* What the worker has read is pending until the worker itself decides it, *)
(* and a pending job has an attempt left.                                  *)
WorkerSafe ==
  /\ \A j \in worker.batch : jobs[j].status = "pending"
  /\ worker.job # NoJob => jobs[worker.job].status = "pending" /\ worker.job \notin worker.batch
  /\ \A j \in JobId : jobs[j].status = "pending" => jobs[j].attempts < MaxAttempts

OutboxInv == OutboxTypeOK /\ WorkerSafe

(* No row disappears, or comes to be about something else. *)
JobsStay == \A j \in Queued : j \in Queued' /\ jobs'[j].work = jobs[j].work

(* No job is new, or takes a key it did not have. *)
NoNewHolder ==
  \A j \in Queued' : /\ j \in Queued /\ jobs'[j].work = jobs[j].work
                     /\ jobs'[j].held => jobs[j].held

(* No new holders, no second holder. *)
LEMMA HoldersShrink ==
  ASSUME OneHolder, NoNewHolder
  PROVE  OneHolder'
BY DEF OneHolder, NoNewHolder, Holders

(* A row is created where there was none. *)
LEMMA NextJobIsFree ==
  ASSUME \E j \in JobId : IsNext(j)
  PROVE  NextJob \in JobId /\ NextJob \notin Queued
BY DEF NextJob, IsNext

(* A row that does not exist yet is typed too. *)
LEMMA FreeRowTyped == FreeRow \in Row
BY OutboxAssumption DEF FreeRow, Row

(* Its fields, for provers that do not see through the record. *)
LEMMA FreeRowFields == FreeRow.attempts = 0 /\ FreeRow.status = "free" /\ FreeRow.recurring = FALSE
BY DEF FreeRow

(* A new job is pending, unattempted, and holds its key. *)
LEMMA NewRowTyped ==
  ASSUME NEW w \in Work
  PROVE  /\ NewRow(w, FALSE) \in Row
         /\ NewRow(w, FALSE).work = w /\ NewRow(w, FALSE).held /\ ~NewRow(w, FALSE).recurring
         /\ NewRow(w, FALSE).status = "pending" /\ NewRow(w, FALSE).attempts = 0
<1>1. FreeRow \in Row
  BY FreeRowTyped
<1>2. NewRow(w, FALSE) \in Row
  BY <1>1 DEF NewRow, Row
<1>3. QED
  BY <1>1, FreeRowFields DEF NewRow, Row

-----------------------------------------------------------------------------
(* Queueing work that nobody holds the key of. *)
LEMMA InsertKeeps ==
  ASSUME OutboxInv, NEW w \in Work, Holders(w) = {}, \E j \in JobId : IsNext(j),
         NEW new \in Row, new.work = w, new.held, new.status = "pending",
         new.attempts = 0, jobs' = [jobs EXCEPT ![NextJob] = new], UNCHANGED worker
  PROVE  /\ OutboxInv' /\ JobsStay
         /\ NextJob \in Queued' \ Queued
         /\ jobs'[NextJob] = new
         /\ \A j \in JobId : j # NextJob => jobs'[j] = jobs[j]
<1> USE DEF OutboxInv, OutboxTypeOK
<1>1. NextJob \in JobId /\ NextJob \notin Queued /\ jobs[NextJob].status = "free"
  BY NextJobIsFree DEF Queued
<1>2. /\ jobs'[NextJob] = new
      /\ \A j \in JobId : j # NextJob => jobs'[j] = jobs[j]
      /\ jobs' \in [JobId -> Row]
  BY <1>1
<1>3. JobsStay /\ Queued' = Queued \cup {NextJob}
  BY <1>1, <1>2 DEF JobsStay, Queued
<1>4. OneHolder'
  <2>1. ASSUME NEW v \in Work, v # w
        PROVE  Holders(v)' \subseteq Holders(v)
    BY <1>2, <1>3, <2>1 DEF Holders
  <2>2. Holders(w)' \subseteq {NextJob}
    BY <1>2, <1>3 DEF Holders
  <2>3. QED
    BY <2>1, <2>2 DEF OneHolder
<1>5. WorkerSafe'
  BY <1>1, <1>2, OutboxAssumption DEF WorkerSafe, NoJob
<1>6. QED
  BY <1>1, <1>2, <1>3, <1>4, <1>5

(* Queueing work once: whoever holds the key is left alone, or brought     *)
(* back, and afterwards somebody holds it.                                 *)
LEMMA EnqueueKeeps ==
  ASSUME OutboxInv, NEW w \in Work, RoomFor(w), jobs' = EnqueuedOnce(w), UNCHANGED worker
  PROVE  /\ OutboxInv' /\ JobsStay
         /\ Holders(w)' # {}
         /\ \A j \in JobId :
              \/ jobs'[j] = jobs[j]
              \/ /\ j \notin Queued \/ j \in Holders(w)
                 /\ jobs'[j].work = w /\ jobs'[j].held /\ jobs'[j].status = "pending"
                 /\ jobs'[j].recurring => j \in Queued /\ jobs[j].recurring
<1> USE DEF OutboxInv, OutboxTypeOK
<1>1. CASE Holders(w) = {}
  <2>1. PICK new \in Row : /\ new.work = w /\ new.held /\ ~new.recurring
                           /\ new.status = "pending" /\ new.attempts = 0
                           /\ jobs' = [jobs EXCEPT ![NextJob] = new]
    <3>1. jobs' = [jobs EXCEPT ![NextJob] = NewRow(w, FALSE)]
      BY <1>1 DEF EnqueuedOnce, Inserted
    <3>2. QED
      BY <3>1, NewRowTyped, Zenon
  <2>2. /\ OutboxInv' /\ JobsStay
        /\ NextJob \in Queued' \ Queued
        /\ jobs'[NextJob] = new
        /\ \A j \in JobId : j # NextJob => jobs'[j] = jobs[j]
    BY <1>1, <2>1, InsertKeeps DEF RoomFor
  <2>3. NextJob \in Holders(w)'
    BY <2>1, <2>2 DEF Holders
  <2>4. QED
    BY <2>1, <2>2, <2>3
<1>2. CASE Holders(w) # {}
  <2> DEFINE back(j) == [jobs[j] EXCEPT !.status = "pending", !.attempts = 0, !.waiting = FALSE]
  <2>1. jobs' = [j \in JobId |-> IF j \in Holders(w) /\ jobs[j].status = "dead"
                                THEN back(j) ELSE jobs[j]]
    BY <1>2 DEF EnqueuedOnce
  <2> HIDE DEF back
  <2>2. ASSUME NEW j \in JobId
        PROVE  /\ back(j) \in Row /\ back(j).status = "pending" /\ back(j).attempts = 0
               /\ back(j).work = jobs[j].work /\ back(j).held = jobs[j].held
               /\ back(j).recurring = jobs[j].recurring
    <3>1. jobs[j] \in Row /\ 0 \in 0..MaxAttempts
      BY OutboxAssumption
    <3>2. back(j) \in Row
      BY <3>1 DEF Row, back
    <3>3. QED
      BY <3>1, <3>2 DEF Row, back
  <2>3. \A j \in JobId : jobs'[j] = jobs[j] \/ (j \in Holders(w) /\ jobs[j].status = "dead" /\ jobs'[j] = back(j))
    BY <2>1
  <2>4. jobs' \in [JobId -> Row]
    BY <2>1, <2>2
  <2>5. Queued' = Queued
    BY <2>2, <2>3 DEF Queued, Holders
  <2>6. NoNewHolder /\ JobsStay
    BY <2>2, <2>3, <2>5 DEF NoNewHolder, JobsStay, Queued
  <2>7. Holders(w)' # {}
    BY <1>2, <2>2, <2>3, <2>5 DEF Holders, Queued
  <2>8. WorkerSafe'
    <3>1. \A j \in JobId : jobs[j].status = "pending" => jobs'[j] = jobs[j]
      BY <2>3
    <3>2. \A j \in JobId : jobs'[j].status = "pending" => jobs'[j].attempts < MaxAttempts
      BY <2>2, <2>3, OutboxAssumption DEF WorkerSafe
    <3>3. QED
      BY <3>1, <3>2 DEF WorkerSafe
  <2>9. QED
    BY <2>2, <2>3, <2>4, <2>6, <2>7, <2>8, HoldersShrink DEF Holders
<1>3. QED
  BY <1>1, <1>2

-----------------------------------------------------------------------------
(* The steps of the worker. *)

(* Reading a batch, dying and doing nothing leave the rows alone. *)
LEMMA BatchKeeps ==
  ASSUME OutboxInv, StartBatch \/ WorkerGone \/ UNCHANGED <<jobs, worker>>
  PROVE  OutboxInv' /\ JobsStay
<1> USE DEF OutboxInv, OutboxTypeOK
<1>1. JobsStay /\ NoNewHolder
  BY DEF StartBatch, WorkerGone, JobsStay, NoNewHolder, Queued
<1>2. worker' \in [batch : SUBSET JobId, job : JobId \cup {NoJob}] /\ WorkerSafe'
  <2>1. CASE StartBatch
    <3>1. /\ worker'.batch \subseteq Due /\ worker'.job = NoJob
          /\ worker' = [batch |-> worker'.batch, job |-> NoJob]
      BY <2>1 DEF StartBatch, IdleWorker
    <3>2. QED
      BY <2>1, <3>1 DEF StartBatch, Due, WorkerSafe
  <2>2. CASE WorkerGone
    BY <2>2 DEF WorkerGone, IdleWorker, WorkerSafe
  <2>3. CASE UNCHANGED <<jobs, worker>>
    BY <2>3 DEF WorkerSafe
  <2>4. QED
    BY <2>1, <2>2, <2>3
<1>3. jobs' \in [JobId -> Row]
  BY DEF StartBatch, WorkerGone
<1>4. QED
  BY <1>1, <1>2, <1>3, HoldersShrink

(* Picking up a job takes at most its key. *)
LEMMA PickUpKeeps ==
  ASSUME OutboxInv, NEW j \in JobId, PickUp(j)
  PROVE  /\ OutboxInv' /\ JobsStay
         /\ worker'.job = j /\ jobs'[j] = AtPickup(jobs[j])
         /\ \A i \in JobId : i # j => jobs'[i] = jobs[i]
<1> USE DEF OutboxInv, OutboxTypeOK
<1>1. /\ worker' = [batch |-> worker.batch \ {j}, job |-> j] /\ j \in worker.batch
      /\ jobs'[j] = AtPickup(jobs[j])
      /\ \A i \in JobId : i # j => jobs'[i] = jobs[i]
  BY DEF PickUp
<1>2. /\ AtPickup(jobs[j]) \in Row
      /\ AtPickup(jobs[j]).status = jobs[j].status
      /\ AtPickup(jobs[j]).work = jobs[j].work
      /\ AtPickup(jobs[j]).attempts = jobs[j].attempts
      /\ AtPickup(jobs[j]).held => jobs[j].held
  BY DEF AtPickup, Row
<1>3. jobs' \in [JobId -> Row]
  BY <1>2 DEF PickUp
<1>4. JobsStay /\ NoNewHolder
  BY <1>1, <1>2 DEF JobsStay, NoNewHolder, Queued
<1>5. WorkerSafe'
  BY <1>1, <1>2 DEF WorkerSafe
<1>6. QED
  BY <1>1, <1>3, <1>4, <1>5, HoldersShrink

(* A handler that returns makes its job done. *)
LEMMA FinishedKeeps ==
  ASSUME OutboxInv, worker.job # NoJob, Finished
  PROVE  /\ OutboxInv' /\ JobsStay
         /\ worker'.job = NoJob
         /\ jobs'[worker.job] = [jobs[worker.job] EXCEPT !.status = "done"]
         /\ \A i \in JobId : i # worker.job => jobs'[i] = jobs[i]
<1> USE DEF OutboxInv, OutboxTypeOK
<1> DEFINE new == [jobs[worker.job] EXCEPT !.status = "done"]
<1>1. /\ worker.job \in JobId /\ jobs[worker.job] \in Row
      /\ worker' = [batch |-> worker.batch, job |-> NoJob]
      /\ jobs' = [jobs EXCEPT ![worker.job] = new]
  BY DEF Finished
<1>2. /\ new \in Row /\ new.status = "done" /\ new.work = jobs[worker.job].work
      /\ new.held = jobs[worker.job].held
  BY <1>1 DEF Row
<1>3. /\ jobs'[worker.job] = new
      /\ \A i \in JobId : i # worker.job => jobs'[i] = jobs[i]
      /\ jobs' \in [JobId -> Row]
  BY <1>1, <1>2
<1>4. JobsStay /\ NoNewHolder
  BY <1>1, <1>2, <1>3 DEF JobsStay, NoNewHolder, Queued, WorkerSafe
<1>5. WorkerSafe'
  BY <1>1, <1>2, <1>3 DEF WorkerSafe
<1>6. QED
  BY <1>1, <1>3, <1>4, <1>5, HoldersShrink

(* A handler that throws makes its job wait, or dead. *)
LEMMA FailedKeeps ==
  ASSUME OutboxInv, worker.job # NoJob, Failed
  PROVE  /\ OutboxInv' /\ JobsStay
         /\ worker'.job = NoJob
         /\ jobs'[worker.job].status = IF LastAttempt(worker.job) THEN "dead" ELSE "pending"
         /\ jobs'[worker.job].held = jobs[worker.job].held
         /\ jobs'[worker.job].recurring = jobs[worker.job].recurring
         /\ \A i \in JobId : i # worker.job => jobs'[i] = jobs[i]
<1> USE DEF OutboxInv, OutboxTypeOK
<1> DEFINE new == [jobs[worker.job] EXCEPT !.attempts = @ + 1,
                     !.status = IF LastAttempt(worker.job) THEN "dead" ELSE "pending",
                     !.waiting = TRUE]
<1>1. /\ worker.job \in JobId /\ jobs[worker.job] \in Row
      /\ worker' = [batch |-> worker.batch, job |-> NoJob]
      /\ jobs' = [jobs EXCEPT ![worker.job] = new]
  BY DEF Failed
<1>2. jobs[worker.job].attempts \in Nat /\ jobs[worker.job].attempts < MaxAttempts
  BY <1>1 DEF WorkerSafe, Row
<1>3. /\ new \in Row /\ new.status = (IF LastAttempt(worker.job) THEN "dead" ELSE "pending")
      /\ new.work = jobs[worker.job].work
      /\ new.held = jobs[worker.job].held /\ new.recurring = jobs[worker.job].recurring
      /\ new.status = "pending" => new.attempts < MaxAttempts
  <2>1. jobs[worker.job].attempts + 1 \in 0..MaxAttempts
    BY <1>2, OutboxAssumption
  <2>2. new \in Row
    BY <1>1, <2>1 DEF Row
  <2>3. new.attempts = jobs[worker.job].attempts + 1
    BY <1>1 DEF Row
  <2>4. new.status = IF LastAttempt(worker.job) THEN "dead" ELSE "pending"
    BY <1>1 DEF Row
  <2>5. /\ new.work = jobs[worker.job].work /\ new.held = jobs[worker.job].held
        /\ new.recurring = jobs[worker.job].recurring
    BY <1>1 DEF Row
  <2> HIDE DEF new
  <2>6. QED
    BY <1>2, <2>2, <2>3, <2>4, <2>5, OutboxAssumption DEF LastAttempt
<1>4. /\ jobs'[worker.job] = new
      /\ \A i \in JobId : i # worker.job => jobs'[i] = jobs[i]
      /\ jobs' \in [JobId -> Row]
  BY <1>1, <1>3
<1>5. JobsStay /\ NoNewHolder
  BY <1>1, <1>3, <1>4 DEF JobsStay, NoNewHolder, Queued, WorkerSafe
<1>6. WorkerSafe'
  BY <1>1, <1>3, <1>4 DEF WorkerSafe
<1>7. QED
  BY <1>1, <1>3, <1>4, <1>5, <1>6, HoldersShrink

(* A row that gives its key up stays what it is. *)
LEMMA ReleaseKeeps ==
  ASSUME OutboxInv, NEW j \in JobId, jobs' = [jobs EXCEPT ![j].held = FALSE], UNCHANGED worker
  PROVE  /\ OutboxInv' /\ JobsStay
         /\ jobs'[j] = [jobs[j] EXCEPT !.held = FALSE]
         /\ \A i \in JobId : i # j => jobs'[i] = jobs[i]
<1> USE DEF OutboxInv, OutboxTypeOK
<1> DEFINE new == [jobs[j] EXCEPT !.held = FALSE]
<1>1. jobs' = [jobs EXCEPT ![j] = new]
  OBVIOUS
<1>2. /\ new \in Row /\ new.status = jobs[j].status /\ new.work = jobs[j].work
      /\ ~new.held /\ new.attempts = jobs[j].attempts
  BY DEF Row
<1>3. /\ jobs'[j] = new
      /\ \A i \in JobId : i # j => jobs'[i] = jobs[i]
      /\ jobs' \in [JobId -> Row]
  BY <1>1, <1>2
<1>4. JobsStay /\ NoNewHolder
  BY <1>2, <1>3 DEF JobsStay, NoNewHolder, Queued
<1>5. WorkerSafe'
  BY <1>1, <1>2, <1>3 DEF WorkerSafe
<1>6. QED
  BY <1>1, <1>3, <1>4, <1>5, HoldersShrink

(* The end of a back-off. *)
LEMMA BackOffKeeps ==
  ASSUME OutboxInv, NEW j \in JobId, BackOffEnds(j)
  PROVE  /\ OutboxInv' /\ JobsStay
         /\ jobs'[j] = [jobs[j] EXCEPT !.waiting = FALSE]
         /\ \A i \in JobId : i # j => jobs'[i] = jobs[i]
<1> USE DEF OutboxInv, OutboxTypeOK
<1> DEFINE new == [jobs[j] EXCEPT !.waiting = FALSE]
<1>1. jobs' = [jobs EXCEPT ![j] = new] /\ UNCHANGED worker
  BY DEF BackOffEnds
<1>2. /\ new \in Row /\ new.status = jobs[j].status /\ new.work = jobs[j].work
      /\ new.held = jobs[j].held /\ new.attempts = jobs[j].attempts
  BY DEF Row
<1>3. /\ jobs'[j] = new
      /\ \A i \in JobId : i # j => jobs'[i] = jobs[i]
      /\ jobs' \in [JobId -> Row]
  BY <1>1, <1>2
<1>4. JobsStay /\ NoNewHolder
  BY <1>2, <1>3 DEF JobsStay, NoNewHolder, Queued
<1>5. WorkerSafe'
  BY <1>1, <1>2, <1>3 DEF WorkerSafe
<1>6. QED
  BY <1>1, <1>3, <1>4, <1>5, HoldersShrink

=============================================================================
