------------------------------- MODULE Outbox -------------------------------
(***************************************************************************)
(* The channel_jobs table and the worker that drains it.  A job carries a  *)
(* unit of work; while it holds its dedupe key no second job can be        *)
(* queued for that work, because the column is unique.  The worker reads a *)
(* batch of due jobs, then runs them one by one: it may die between a      *)
(* handler's effect and the update that records it, and what it was doing  *)
(* is then done again.  The modules that extend this one say what the      *)
(* handlers do, and who queues work.                                       *)
(*                                                                         *)
(* Definitions marked "variant" are not the code's: each takes the place   *)
(* of the definition after it to see that a property notices.              *)
(***************************************************************************)
EXTENDS Naturals, FiniteSets

CONSTANTS
  Work,         \* what a job can be about: its type, payload and dedupe key
  JobId,        \* row ids, in the order rows are created; bounds the table
  MaxAttempts,  \* MAX_ATTEMPTS
  BatchSize     \* the `take` of processDueJobs

ASSUME OutboxAssumption ==
  /\ JobId \subseteq Nat \ {0} /\ Work # {}
  /\ MaxAttempts \in Nat \ {0} /\ BatchSize \in Nat \ {0}

VARIABLES
  jobs,    \* the rows of channel_jobs
  worker   \* the rest of its batch, and the job whose handler runs (0: none)

NoJob == 0

(* waiting: run_after is still in the future, after a failed attempt.      *)
(* held: dedupe_key still has the key of the job's work (else it is NULL). *)
Row == [work : Work, held : BOOLEAN, recurring : BOOLEAN, waiting : BOOLEAN,
        status : {"free", "pending", "done", "dead"}, attempts : 0..MaxAttempts]

FreeRow == [work |-> CHOOSE w \in Work : TRUE, held |-> FALSE, recurring |-> FALSE,
            waiting |-> FALSE, status |-> "free", attempts |-> 0]

IdleWorker == [batch |-> {}, job |-> NoJob]

OutboxInit ==
  /\ jobs = [j \in JobId |-> FreeRow]
  /\ worker = IdleWorker

Queued == {j \in JobId : jobs[j].status # "free"}

(* The row that a unique lookup by the dedupe key of w finds. *)
Holders(w) == {j \in Queued : jobs[j].held /\ jobs[j].work = w}

IsNext(j) == j \in JobId \ Queued /\ \A i \in JobId \ Queued : j <= i
NextJob == CHOOSE j \in JobId : IsNext(j)

(* The table has no limit: what does not fit into JobId is not looked at. *)
RoomFor(w) == Holders(w) # {} \/ \E j \in JobId : IsNext(j)

NewRow(w, recurring) ==
  [FreeRow EXCEPT !.work = w, !.held = TRUE, !.recurring = recurring, !.status = "pending"]

(* The insert that succeeds; the caller has seen that nobody holds the key. *)
Inserted(w, recurring) == [jobs EXCEPT ![NextJob] = NewRow(w, recurring)]

(* INSERT ... ON CONFLICT DO NOTHING, and a dead job under the key is      *)
(* brought back; a pending or a done one is left alone.                    *)
EnqueuedOnce(w) ==
  IF Holders(w) = {}
  THEN Inserted(w, FALSE)
  ELSE [j \in JobId |->
          IF j \in Holders(w) /\ jobs[j].status = "dead"
          THEN [jobs[j] EXCEPT !.status = "pending", !.attempts = 0, !.waiting = FALSE]
          ELSE jobs[j]]

-----------------------------------------------------------------------------
(* The worker *)

(* variant: a job that has failed is never due again *)
DueOnce == {j \in JobId : jobs[j].status = "pending" /\ jobs[j].attempts = 0}

Due == {j \in JobId : jobs[j].status = "pending" /\ ~jobs[j].waiting}

(* The oldest due jobs, as many as a batch takes. *)
StartBatch ==
  /\ worker = IdleWorker
  /\ Due # {}
  /\ worker' = [worker EXCEPT !.batch =
                  {j \in Due : Cardinality({i \in Due : i <= j}) <= BatchSize}]
  /\ UNCHANGED jobs

(* variant: the key of a recurring job is kept until the job is done *)
KeptAtPickup(row) == row

(* A recurring job gives its key back before its handler reads anything. *)
AtPickup(row) == IF row.recurring THEN [row EXCEPT !.held = FALSE] ELSE row

PickUp(j) ==
  /\ worker.job = NoJob
  /\ j \in worker.batch /\ \A i \in worker.batch : j <= i
  /\ worker' = [batch |-> worker.batch \ {j}, job |-> j]
  /\ jobs' = [jobs EXCEPT ![j] = AtPickup(@)]

(* The handler returned. *)
Finished ==
  /\ jobs' = [jobs EXCEPT ![worker.job].status = "done"]
  /\ worker' = [worker EXCEPT !.job = NoJob]

(* variant: one attempt too many *)
PastLastAttempt(j) == jobs[j].attempts >= MaxAttempts

(* Whether one more failure dead-letters the job. *)
LastAttempt(j) == jobs[j].attempts + 1 >= MaxAttempts

(* The handler threw: the job waits for its back-off, or is dead. *)
Failed ==
  LET j == worker.job IN
  /\ jobs' = [jobs EXCEPT ![j].attempts = @ + 1,
                          ![j].status = IF LastAttempt(j) THEN "dead" ELSE "pending",
                          ![j].waiting = TRUE]
  /\ worker' = [worker EXCEPT !.job = NoJob]

(* Time passes run_after. *)
BackOffEnds(j) ==
  /\ jobs[j].waiting /\ jobs[j].status = "pending"
  /\ jobs' = [jobs EXCEPT ![j].waiting = FALSE]
  /\ UNCHANGED worker

(* The process dies or is shut down; what it was doing is only in memory. *)
WorkerGone == worker' = IdleWorker /\ UNCHANGED jobs

-----------------------------------------------------------------------------
(* A dedupe key is held by one job, whatever the order of the inserts, the *)
(* releases and the collisions: what createJob's retry relies on.          *)
OneHolder == \A w \in Work : \A i, j \in Holders(w) : i = j

OutboxTypeOK ==
  /\ jobs \in [JobId -> Row]
  /\ worker \in [batch : SUBSET JobId, job : JobId \cup {NoJob}]
  /\ OneHolder
=============================================================================
