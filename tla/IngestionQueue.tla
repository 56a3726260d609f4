--------------------------- MODULE IngestionQueue ---------------------------
(***************************************************************************)
(* The table queue of services/ingestionQueueManager.service.ts: polls     *)
(* that start a handler per row without waiting for it, retries with a     *)
(* delay, the dead-letter table and its manual requeue.                    *)
(*                                                                         *)
(* A poll, a handler and a requeue are cut at each await.  A job's logic is*)
(* a placeholder in the code, so what fails is a statement.  A handler that*)
(* throws from its catch block is an unhandled rejection and ends the      *)
(* process.                                                                *)
(***************************************************************************)
EXTENDS Naturals, FiniteSets

CONSTANTS
  IngestionJobs,      \* numbers: the higher is the more urgent
  Polls, Handlers, Requeuers,
                      \* bounds: polls, handlers, requeues running at a time
  ConcurrencyLimit,
  MaxAttempts,
  MaxRefusals,        \* bound: statements the database refuses
  MaxRequeues         \* bound: requeues of dead letters

ASSUME IngestionAssumption ==
  /\ IngestionJobs \subseteq Nat /\ IsFiniteSet(IngestionJobs)
  /\ ConcurrencyLimit \in Nat \ {0} /\ MaxAttempts \in Nat \ {0}
  /\ IsFiniteSet(Handlers)
  /\ MaxRefusals \in Nat /\ MaxRequeues \in Nat

VARIABLES
  ingestion,   \* ingestion_jobs
  deadJobs,    \* dead_letter_jobs
  poll,        \* the rows each poll may take, 0 when it does not run
  handler,     \* where each handleJob is, its job and the attempts it read
  requeue,     \* where each requeueDeadLetter is
  processingCount,
  accepted,    \* jobs that were ever enqueued
  processDied, refusals, requeues

ingestionVars == <<ingestion, deadJobs, poll, handler, requeue, processingCount, accepted,
                   processDied, refusals, requeues>>

counters == <<accepted, processDied, refusals, requeues>>

NoRow == [status |-> "absent", attempts |-> 0, due |-> TRUE]

IngestionRow == [status : {"absent", "pending", "processing", "failed", "completed"},
                 attempts : 0 .. MaxAttempts, due : BOOLEAN]

HandlerPlaces == {"marking", "completing", "failing", "burying", "removing"}

IngestionTypeOK ==
  /\ ingestion \in [IngestionJobs -> IngestionRow]
  /\ deadJobs \in SUBSET IngestionJobs
  /\ poll \in [Polls -> 0 .. ConcurrencyLimit]
  /\ handler \in [Handlers -> {<<>>} \cup
       [at : HandlerPlaces, job : IngestionJobs, attempts : 0 .. MaxAttempts]]
  /\ requeue \in [Requeuers -> {<<>>} \cup [at : {"inserting", "deleting"}, job : IngestionJobs]]
  /\ processingCount = Cardinality({h \in Handlers : handler[h] # <<>>})
  /\ accepted \in SUBSET IngestionJobs
  /\ processDied \in BOOLEAN
  /\ refusals \in 0 .. MaxRefusals /\ requeues \in 0 .. MaxRequeues

IngestionInit ==
  /\ ingestion = [j \in IngestionJobs |-> NoRow]
  /\ deadJobs = {}
  /\ poll = [p \in Polls |-> 0]
  /\ handler = [h \in Handlers |-> <<>>]
  /\ requeue = [r \in Requeuers |-> <<>>]
  /\ processingCount = 0
  /\ accepted = {} /\ processDied = FALSE /\ refusals = 0 /\ requeues = 0

Idle(h) == handler[h] = <<>>
At(h, place) == ~Idle(h) /\ handler[h].at = place

Move(h, place) == handler' = [handler EXCEPT ![h].at = place]

\* Seeded fault: handleJob has no finally, so the slot is not given back.
FinishWithoutFinally(h) ==
  /\ handler' = [handler EXCEPT ![h] = <<>>]
  /\ UNCHANGED processingCount

\* handleJob returns, and its finally gives the slot back.
Finish(h) ==
  /\ handler' = [handler EXCEPT ![h] = <<>>]
  /\ processingCount' = processingCount - 1

\* UPDATE ... WHERE id: no row, no change
Update(j, row) ==
  ingestion' = IF ingestion[j].status = "absent" THEN ingestion
               ELSE [ingestion EXCEPT ![j] = row]

SetStatus(j, status) == Update(j, [ingestion[j] EXCEPT !.status = status])

Refused == refusals < MaxRefusals /\ refusals' = refusals + 1

\* Every promise of the process is gone; the rows stay.
Dies ==
  /\ processDied' = TRUE
  /\ poll' = [p \in Polls |-> 0]
  /\ handler' = [h \in Handlers |-> <<>>]
  /\ requeue' = [r \in Requeuers |-> <<>>]
  /\ processingCount' = 0

-----------------------------------------------------------------------------
(* enqueueJob and processPendingJobs *)

EnqueueJob(j) ==
  /\ j \notin accepted
  /\ accepted' = accepted \cup {j}
  /\ ingestion' = [ingestion EXCEPT ![j] = [NoRow EXCEPT !.status = "pending"]]
  /\ UNCHANGED <<deadJobs, poll, handler, requeue, processingCount, processDied, refusals, requeues>>

\* The limit of the query is computed before the query runs.
PollBegins(p) ==
  /\ poll[p] = 0 /\ processingCount < ConcurrencyLimit
  /\ poll' = [poll EXCEPT ![p] = ConcurrencyLimit - processingCount]
  /\ UNCHANGED <<ingestion, deadJobs, handler, requeue, processingCount, accepted, processDied, refusals, requeues>>

\* Seeded fault: the query forgets the failed rows.
PendingJobs == {j \in IngestionJobs : ingestion[j].status = "pending"}

DueJobs == {j \in IngestionJobs :
              \/ ingestion[j].status = "pending"
              \/ /\ ingestion[j].status = "failed"
                 /\ ingestion[j].attempts < MaxAttempts /\ ingestion[j].due}

\* The most urgent due jobs, up to the limit
Batch(limit) ==
  {j \in DueJobs : Cardinality({k \in DueJobs : k > j}) < limit}

\* Each row of the batch gets a handler, no matter which, and is not awaited.
PollEnds(p) ==
  LET batch == Batch(poll[p])
      free  == {h \in Handlers : Idle(h)}
      for   == CHOOSE f \in [batch -> free] : \A j, k \in batch : j # k => f[j] # f[k] IN
  /\ poll[p] # 0
  /\ poll' = [poll EXCEPT ![p] = 0]
  /\ Cardinality(batch) <= Cardinality(free)
  /\ handler' = [h \in Handlers |->
       IF \E j \in batch : for[j] = h
         THEN LET job == CHOOSE j \in batch : for[j] = h IN
              [at |-> "marking", job |-> job, attempts |-> ingestion[job].attempts]
         ELSE handler[h]]
  /\ processingCount' = processingCount + Cardinality(batch)
  /\ UNCHANGED <<ingestion, deadJobs, requeue, accepted, processDied, refusals, requeues>>

-----------------------------------------------------------------------------
(* handleJob *)

MarkProcessing(h) ==
  /\ At(h, "marking")
  /\ SetStatus(handler[h].job, "processing")
  /\ Move(h, "completing")
  /\ UNCHANGED <<deadJobs, poll, requeue, processingCount, counters>>

MarkCompleted(h) ==
  /\ At(h, "completing")
  /\ SetStatus(handler[h].job, "completed")
  /\ Finish(h)
  /\ UNCHANGED <<deadJobs, poll, requeue, counters>>

\* One of the two updates is refused.
HandlingThrows(h) ==
  /\ At(h, "marking") \/ At(h, "completing")
  /\ Refused
  /\ Move(h, "failing")
  /\ UNCHANGED <<ingestion, deadJobs, poll, requeue, processingCount, accepted, processDied, requeues>>

\* The count is the one that was read with the row.
MarkFailed(h) ==
  LET attempts == handler[h].attempts + 1 IN
  /\ At(h, "failing")
  /\ Update(handler[h].job, [status |-> "failed", attempts |-> attempts,
                             due |-> attempts >= MaxAttempts])
  /\ IF attempts >= MaxAttempts
       THEN Move(h, "burying") /\ UNCHANGED processingCount
       ELSE Finish(h)
  /\ UNCHANGED <<deadJobs, poll, requeue, counters>>

InsertDeadLetter(h) ==
  /\ At(h, "burying") /\ handler[h].job \notin deadJobs
  /\ deadJobs' = deadJobs \cup {handler[h].job}
  /\ Move(h, "removing")
  /\ UNCHANGED <<ingestion, poll, requeue, processingCount, counters>>

RemoveBuried(h) ==
  /\ At(h, "removing")
  /\ ingestion' = [ingestion EXCEPT ![handler[h].job] = NoRow]
  /\ Finish(h)
  /\ UNCHANGED <<deadJobs, poll, requeue, counters>>

\* A second dead letter of one id violates the primary key, inside the catch.
DeadLetterConflict(h) ==
  /\ At(h, "burying") /\ handler[h].job \in deadJobs
  /\ Dies
  /\ UNCHANGED <<ingestion, deadJobs, accepted, refusals, requeues>>

\* A statement of the catch block is refused, or the process ends otherwise.
ProcessDies ==
  /\ Refused
  /\ Dies
  /\ UNCHANGED <<ingestion, deadJobs, accepted, requeues>>

RetryDelayElapses(j) ==
  /\ ingestion[j].status = "failed" /\ ~ingestion[j].due
  /\ ingestion' = [ingestion EXCEPT ![j].due = TRUE]
  /\ UNCHANGED <<deadJobs, poll, handler, requeue, processingCount, counters>>

-----------------------------------------------------------------------------
(* requeueDeadLetter *)

\* Seeded fault: the dead letter is deleted as it is read.
RequeueTake(r, j) ==
  /\ requeue[r] = <<>> /\ requeues < MaxRequeues
  /\ requeues' = requeues + 1
  /\ j \in deadJobs
  /\ deadJobs' = deadJobs \ {j}
  /\ requeue' = [requeue EXCEPT ![r] = [at |-> "inserting", job |-> j]]
  /\ UNCHANGED <<ingestion, poll, handler, processingCount, accepted, processDied, refusals>>

RequeueRead(r, j) ==
  /\ requeue[r] = <<>> /\ requeues < MaxRequeues
  /\ requeues' = requeues + 1
  /\ j \in deadJobs
  /\ requeue' = [requeue EXCEPT ![r] = [at |-> "inserting", job |-> j]]
  /\ UNCHANGED <<ingestion, deadJobs, poll, handler, processingCount, accepted, processDied, refusals>>

\* An id that is still in ingestion_jobs makes the insert throw.
RequeueInsert(r) ==
  /\ requeue[r] # <<>> /\ requeue[r].at = "inserting"
  /\ LET j == requeue[r].job IN
     IF ingestion[j].status = "absent"
       THEN /\ ingestion' = [ingestion EXCEPT ![j] = [NoRow EXCEPT !.status = "pending"]]
            /\ requeue' = [requeue EXCEPT ![r].at = "deleting"]
       ELSE /\ requeue' = [requeue EXCEPT ![r] = <<>>]
            /\ UNCHANGED ingestion
  /\ UNCHANGED <<deadJobs, poll, handler, processingCount, accepted, processDied, refusals, requeues>>

RequeueDelete(r) ==
  /\ requeue[r] # <<>> /\ requeue[r].at = "deleting"
  /\ deadJobs' = deadJobs \ {requeue[r].job}
  /\ requeue' = [requeue EXCEPT ![r] = <<>>]
  /\ UNCHANGED <<ingestion, poll, handler, processingCount, counters>>

-----------------------------------------------------------------------------

HandleJob(h) ==
  \/ MarkProcessing(h) \/ MarkCompleted(h)
  \/ MarkFailed(h) \/ InsertDeadLetter(h) \/ RemoveBuried(h) \/ DeadLetterConflict(h)

IngestionNext ==
  \/ \E j \in IngestionJobs : EnqueueJob(j) \/ RetryDelayElapses(j)
  \/ \E p \in Polls : PollBegins(p) \/ PollEnds(p)
  \/ \E h \in Handlers : HandleJob(h) \/ HandlingThrows(h)
  \/ \E r \in Requeuers, j \in IngestionJobs : RequeueRead(r, j)
  \/ \E r \in Requeuers : RequeueInsert(r) \/ RequeueDelete(r)
  \/ ProcessDies

\* "The caller should invoke this method periodically": some poll runs on its
\* interval, and statements end.
IngestionFairness ==
  /\ \A p \in Polls : WF_ingestionVars(PollBegins(p)) /\ WF_ingestionVars(PollEnds(p))
  /\ \A h \in Handlers : WF_ingestionVars(HandleJob(h))
  /\ \A r \in Requeuers : WF_ingestionVars(RequeueInsert(r) \/ RequeueDelete(r))
  /\ \A j \in IngestionJobs : WF_ingestionVars(RetryDelayElapses(j))

IngestionSpec == IngestionInit /\ [][IngestionNext]_ingestionVars

FairIngestionSpec == IngestionSpec /\ IngestionFairness

-----------------------------------------------------------------------------
(* Properties *)

\* However handlers of one job, requeues and deaths interleave, a job that was
\* accepted is in one of the two tables: each side inserts before it deletes,
\* and only the primary keys keep two movers apart.
NothingVanishes ==
  \A j \in accepted : ingestion[j].status # "absent" \/ j \in deadJobs

\* Every job is completed or becomes a dead letter, unless the process died
\* and left it marked as processing.
EveryJobSettles ==
  \A j \in IngestionJobs :
    j \in accepted ~> (ingestion[j].status = "completed" \/ j \in deadJobs \/ processDied)
==============================================================================
