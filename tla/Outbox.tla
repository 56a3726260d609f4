------------------------------- MODULE Outbox -------------------------------
(***************************************************************************)
(* The transactional outbox of src/src/outbox: producers insert events    *)
(* into outbox_events, OutboxDispatcher polls the pending ones into a      *)
(* BullMQ queue and its workers hand each event to a handler, OutboxAdmin  *)
(* puts failed events back.                                                *)
(*                                                                         *)
(* What the database holds is its COMMITTED content; what a transaction of *)
(* a worker has written but not committed is carried by the worker's       *)
(* program counter.  The row lock of SELECT ... FOR UPDATE and the key     *)
(* lock of an uncommitted INSERT are held by workers in certain places.    *)
(***************************************************************************)
EXTENDS Integers, FiniteSets, Sequences

CONSTANTS
  Events,           \* rows of outbox_events that may come to exist
  AggregateOf,      \* the aggregate of an event, a number in index order
  Keys, KeyOf,      \* idempotency keys; equal for events with equal payloads
  NoKey,            \* the NULL key of rows older than migration 044
  NoEvent, NoWorker,
  Workers,          \* job slots of the dispatch workers (concurrency)
  Pollers,          \* polls in flight: setInterval does not wait for them
  Admins,           \* retry requests in flight
  MaxRetries,       \* DispatcherConfig.maxRetries
  BatchSize,        \* DispatcherConfig.batchSize
  Keep,             \* removeOnComplete and removeOnFail of the queue
  MaxStalledCount,  \* BullMQ: how often a job may stall before it fails
  VariableConflict, \* the server's plpgsql.variable_conflict
  FaultKinds,       \* the faults a run considers
  MaxFaults,        \* bound: faults in a behaviour
  MaxAdminRetries   \* bound: retry requests in a behaviour

Outcomes == {"completed", "failed"}

ASSUME OutboxAssumption ==
  /\ AggregateOf \in [Events -> Nat]
  /\ KeyOf \in [Events -> Keys \cup {NoKey}]
  /\ NoKey \notin Keys
  /\ NoEvent \notin Events
  /\ NoWorker \notin Workers
  /\ IsFiniteSet(Events)
  /\ IsFiniteSet(Workers)
  /\ IsFiniteSet(Admins)
  /\ MaxRetries \in Nat \ {0}
  /\ BatchSize \in Nat \ {0}
  /\ Keep \in [Outcomes -> Nat \ {0}]
  /\ MaxStalledCount \in Nat
  /\ VariableConflict \in {"error", "use_column", "use_variable"}
  /\ MaxFaults \in Nat
  /\ MaxAdminRetries \in Nat

VARIABLES
  \* the database
  status,        \* outbox_events.status, "unpublished" before the insert
  sequenceNo,    \* outbox_events.sequence_no
  retryCount,    \* outbox_events.retry_count
  ready,         \* retry_after <= now
  deadLetters,   \* rows of dead_letter_events per event
  ledger,        \* idempotency_ledger: "absent", "live" or "expired" per key
  \* the BullMQ queue in Redis
  job,           \* state of job outbox-<id>, "none" when there is no such job
  owner,         \* the worker that holds the job's lock
  stalledCount,
  finished,      \* retained jobs in the order they finished, per outcome
  \* the processes
  polled,        \* events a poll has read and not yet enqueued
  pc, current,   \* where a worker is in processDispatchJob, and on which event
  seenCount,     \* the retry_count markForRetry has read
  adminRead,     \* the event retryEvent found failed and is about to reset
  \* history and bounds
  handled,       \* how often the handler of an event returned normally
  failures,      \* how often processing an event ended in its catch block
  disputes,      \* how often an event lost its one worker or its one retry
                 \* request, less the delivered marks that were undone
  faults, adminRetries

rowVars     == <<status, sequenceNo, retryCount, ready, deadLetters>>
dbVars      == <<rowVars, ledger>>
queueVars   == <<job, owner, stalledCount, finished>>
workerVars  == <<pc, current, seenCount>>
historyVars == <<handled, failures, disputes>>
boundVars   == <<faults, adminRetries>>
vars == <<dbVars, queueVars, polled, workerVars, adminRead, historyVars, boundVars>>

Statuses  == {"unpublished", "pending", "delivered", "failed"}
JobStates == {"none", "waiting", "active"} \cup Outcomes

\* Where a worker's transaction is open, and with it the row lock.
InTransaction == {"checking", "skipping", "recording", "dispatching", "committing"}

\* Where the transaction has also inserted the key and not committed.
HoldsKey == {"dispatching", "committing"}

Places == {"idle", "fetched", "failing", "retrying", "finishing"} \cup InTransaction

TypeOK ==
  /\ status \in [Events -> Statuses]
  /\ sequenceNo \in [Events -> Nat]
  /\ retryCount \in [Events -> Nat]
  /\ ready \in [Events -> BOOLEAN]
  /\ deadLetters \in [Events -> Nat]
  /\ ledger \in [Keys -> {"absent", "live", "expired"}]
  /\ job \in [Events -> JobStates]
  /\ owner \in [Events -> Workers \cup {NoWorker}]
  /\ stalledCount \in [Events -> Nat]
  /\ finished \in [Outcomes -> Seq(Events)]
  /\ polled \in [Pollers -> SUBSET Events]
  /\ pc \in [Workers -> Places]
  /\ current \in [Workers -> Events \cup {NoEvent}]
  /\ \A w \in Workers : pc[w] # "idle" => current[w] \in Events
  /\ seenCount \in [Workers -> Nat]
  /\ adminRead \in [Admins -> Events \cup {NoEvent}]
  /\ handled \in [Events -> Nat]
  /\ failures \in [Events -> Nat]
  /\ disputes \in [Events -> Int]
  /\ faults \in Nat
  /\ adminRetries \in Nat

Init ==
  /\ status = [e \in Events |-> "unpublished"]
  /\ sequenceNo = [e \in Events |-> 0]
  /\ retryCount = [e \in Events |-> 0]
  /\ ready = [e \in Events |-> FALSE]
  /\ deadLetters = [e \in Events |-> 0]
  /\ ledger = [k \in Keys |-> "absent"]
  /\ job = [e \in Events |-> "none"]
  /\ owner = [e \in Events |-> NoWorker]
  /\ stalledCount = [e \in Events |-> 0]
  /\ finished = [o \in Outcomes |-> <<>>]
  /\ polled = [p \in Pollers |-> {}]
  /\ pc = [w \in Workers |-> "idle"]
  /\ current = [w \in Workers |-> NoEvent]
  /\ seenCount = [w \in Workers |-> 0]
  /\ adminRead = [a \in Admins |-> NoEvent]
  /\ handled = [e \in Events |-> 0]
  /\ failures = [e \in Events |-> 0]
  /\ disputes = [e \in Events |-> 0]
  /\ faults = 0
  /\ adminRetries = 0

Fault(kind) ==
  /\ kind \in FaultKinds
  /\ faults < MaxFaults
  /\ faults' = faults + 1

RowLocked(e) == \E w \in Workers : current[w] = e /\ pc[w] \in InTransaction

Dispute(e) == disputes' = [disputes EXCEPT ![e] = @ + 1]

\* An update that tests no status undoes the mark of a delivered event.
Overwrite(e) ==
  /\ disputes' = [disputes EXCEPT ![e] = IF status[e] = "delivered" THEN @ - 1 ELSE @]
  /\ UNCHANGED <<handled, failures>>

KeyLocked(k) == \E w \in Workers : /\ pc[w] \in HoldsKey
                                   /\ KeyOf[current[w]] = k

-----------------------------------------------------------------------------
(* OutboxProducer *)

\* The next number of the aggregate: get_next_outbox_sequence counts the
\* committed events, see OutboxSequence for the transactions behind it.
NextSequence(e) ==
  1 + Cardinality({f \in Events : status[f] # "unpublished" /\ AggregateOf[f] = AggregateOf[e]})

Publish(e) ==
  /\ status[e] = "unpublished"
  /\ status' = [status EXCEPT ![e] = "pending"]
  /\ sequenceNo' = [sequenceNo EXCEPT ![e] = NextSequence(e)]
  /\ ready' = [ready EXCEPT ![e] = TRUE]
  /\ UNCHANGED <<retryCount, deadLetters, ledger, queueVars, polled, workerVars,
                 adminRead, historyVars, boundVars>>

\* retry_after passes.
BackoffElapses(e) ==
  /\ status[e] = "pending"
  /\ ~ready[e]
  /\ ready' = [ready EXCEPT ![e] = TRUE]
  /\ UNCHANGED <<status, sequenceNo, retryCount, deadLetters, ledger, queueVars,
                 polled, workerVars, adminRead, historyVars, boundVars>>

\* 24 hours pass; nothing in the code runs the clean-up that deletes the row.
ExpireKey(k) ==
  /\ ledger[k] = "live"
  /\ ledger' = [ledger EXCEPT ![k] = "expired"]
  /\ UNCHANGED <<rowVars, queueVars, polled, workerVars, adminRead, historyVars,
                 boundVars>>

-----------------------------------------------------------------------------
(* OutboxDispatcher: the poll *)

Precedes(f, e) == \/ AggregateOf[f] < AggregateOf[e]
                  \/ AggregateOf[f] = AggregateOf[e] /\ sequenceNo[f] < sequenceNo[e]

\* Seeded fault: only events that have been tried are polled.
DueAgain == {e \in Events : status[e] = "pending" /\ ready[e] /\ retryCount[e] > 0}

Due == {e \in Events : status[e] = "pending" /\ ready[e] /\ ~RowLocked(e)}

\* ORDER BY aggregate and sequence_no, LIMIT, FOR UPDATE SKIP LOCKED; the
\* locks end with the autocommitted statement.
PendingEvents == {e \in Due : Cardinality({f \in Due : Precedes(f, e)}) < BatchSize}

PollRead(p) ==
  /\ polled[p] = {}
  /\ PendingEvents # {}
  /\ polled' = [polled EXCEPT ![p] = PendingEvents]
  /\ UNCHANGED <<dbVars, queueVars, workerVars, adminRead, historyVars, boundVars>>

\* BullMQ ignores an added job whose id it still knows, finished ones included.
PollEnqueue(p) ==
  /\ polled[p] # {}
  /\ LET new == {e \in polled[p] : job[e] = "none"}
     IN /\ job' = [e \in Events |-> IF e \in new THEN "waiting" ELSE job[e]]
        /\ stalledCount' = [e \in Events |-> IF e \in new THEN 0 ELSE stalledCount[e]]
  /\ polled' = [polled EXCEPT ![p] = {}]
  /\ UNCHANGED <<dbVars, owner, finished, workerVars, adminRead, historyVars, boundVars>>

\* addBulk rejects, or the process ends between the read and the call.
PollFails(p) ==
  /\ polled[p] # {}
  /\ Fault("broker")
  /\ polled' = [polled EXCEPT ![p] = {}]
  /\ UNCHANGED <<dbVars, queueVars, workerVars, adminRead, historyVars, adminRetries>>

-----------------------------------------------------------------------------
(* The BullMQ queue *)

\* Any waiting job may be the next: stalled ones jump the queue and the workers
\* of several processes compete for it.
TakeJob(w, e) ==
  /\ pc[w] = "idle"
  /\ job[e] = "waiting"
  /\ job' = [job EXCEPT ![e] = "active"]
  /\ owner' = [owner EXCEPT ![e] = w]
  /\ pc' = [pc EXCEPT ![w] = "fetched"]
  /\ current' = [current EXCEPT ![w] = e]
  /\ UNCHANGED <<dbVars, stalledCount, finished, polled, seenCount, adminRead,
                 historyVars, boundVars>>

\* A finished job is retained; the oldest of its kind goes when there are too many.
Retain(e, outcome) ==
  LET log  == Append(finished[outcome], e)
      full == Len(log) > Keep[outcome]
  IN /\ finished' = [finished EXCEPT ![outcome] = IF full THEN Tail(log) ELSE log]
     /\ job' = [f \in Events |-> IF full /\ f = Head(log) THEN "none"
                                 ELSE IF f = e THEN outcome ELSE job[f]]
     /\ owner' = [owner EXCEPT ![e] = NoWorker]
     /\ UNCHANGED stalledCount

\* A worker that lost the job's lock cannot finish the job.
EndJob(w, outcome) ==
  /\ IF owner[current[w]] = w
       THEN Retain(current[w], outcome)
       ELSE UNCHANGED queueVars
  /\ pc' = [pc EXCEPT ![w] = "idle"]
  /\ current' = [current EXCEPT ![w] = NoEvent]
  /\ seenCount' = [seenCount EXCEPT ![w] = 0]

\* The stalled check finds an active job without a lock.
RequeueStalled(e) ==
  /\ job[e] = "active"
  /\ owner[e] = NoWorker
  /\ \/ /\ stalledCount[e] < MaxStalledCount
        /\ job' = [job EXCEPT ![e] = "waiting"]
        /\ stalledCount' = [stalledCount EXCEPT ![e] = @ + 1]
        /\ UNCHANGED <<owner, finished>>
     \/ /\ stalledCount[e] >= MaxStalledCount
        /\ Retain(e, "failed")
  /\ UNCHANGED <<dbVars, polled, workerVars, adminRead, historyVars, boundVars>>

\* The lock is not renewed in time; the worker goes on, unaware of it.
LoseJobLock(w) ==
  /\ pc[w] # "idle"
  /\ owner[current[w]] = w
  /\ Fault("lockLost")
  /\ owner' = [owner EXCEPT ![current[w]] = NoWorker]
  /\ Dispute(current[w])
  /\ UNCHANGED <<dbVars, job, stalledCount, finished, polled, workerVars, adminRead,
                 handled, failures, adminRetries>>

\* The process dies: its transaction is rolled back, its job lock will expire.
Crash(w) ==
  /\ pc[w] # "idle"
  /\ Fault("crash")
  /\ owner' = [owner EXCEPT ![current[w]] = IF @ = w THEN NoWorker ELSE @]
  /\ pc' = [pc EXCEPT ![w] = "idle"]
  /\ current' = [current EXCEPT ![w] = NoEvent]
  /\ seenCount' = [seenCount EXCEPT ![w] = 0]
  /\ UNCHANGED <<dbVars, job, stalledCount, finished, polled, adminRead, historyVars,
                 adminRetries>>

-----------------------------------------------------------------------------
(* OutboxDispatcher: processDispatchJob *)

\* A step of worker w that leaves the database and the queue alone.
Goto(w, place) ==
  /\ pc' = [pc EXCEPT ![w] = place]
  /\ UNCHANGED <<current, seenCount>>

\* Everything outside the worker and the rows of outbox_events.
OthersUnchanged == UNCHANGED <<queueVars, polled, adminRead, adminRetries>>

\* Seeded fault: the double check of the status is missing.
LockRowOnly(w) ==
  /\ pc[w] = "fetched"
  /\ ~RowLocked(current[w])
  /\ Goto(w, "checking")
  /\ OthersUnchanged
  /\ UNCHANGED <<dbVars, historyVars, faults>>

\* SELECT ... FOR UPDATE, then the double check of the status.
LockRow(w) ==
  /\ pc[w] = "fetched"
  /\ ~RowLocked(current[w])
  /\ \/ status[current[w]] = "pending" /\ Goto(w, "checking")
     \/ status[current[w]] # "pending" /\ Goto(w, "finishing")
  /\ OthersUnchanged
  /\ UNCHANGED <<dbVars, historyVars, faults>>

\* The catch block: the transaction has been rolled back and its locks are gone.
Fail(w) ==
  /\ Goto(w, "failing")
  /\ failures' = [failures EXCEPT ![current[w]] = @ + 1]
  /\ OthersUnchanged
  /\ UNCHANGED <<dbVars, handled, disputes>>

\* A row with a NULL key is dispatched unchecked.
SkipCheck(w) ==
  /\ pc[w] = "checking"
  /\ KeyOf[current[w]] = NoKey
  /\ Goto(w, "dispatching")
  /\ OthersUnchanged
  /\ UNCHANGED <<dbVars, historyVars, faults>>

\* The first SELECT of check_and_record_idempotency.  Its variable expires_at
\* has the name of the column: the statement is refused, or compares the
\* column, or compares the variable, which is NULL there.
CheckRaises(w) ==
  /\ pc[w] = "checking"
  /\ KeyOf[current[w]] # NoKey
  /\ VariableConflict = "error"
  /\ Fail(w)
  /\ UNCHANGED faults

FindsKey(k) == VariableConflict = "use_column" /\ ledger[k] = "live"

\* Seeded fault: the answer of the ledger is ignored.
CheckKeyIgnored(w) ==
  /\ pc[w] = "checking"
  /\ KeyOf[current[w]] # NoKey
  /\ VariableConflict # "error"
  /\ Goto(w, "recording")
  /\ OthersUnchanged
  /\ UNCHANGED <<dbVars, historyVars, faults>>

CheckKey(w) ==
  /\ pc[w] = "checking"
  /\ KeyOf[current[w]] # NoKey
  /\ VariableConflict # "error"
  /\ \/ FindsKey(KeyOf[current[w]]) /\ Goto(w, "skipping")
     \/ ~FindsKey(KeyOf[current[w]]) /\ Goto(w, "recording")
  /\ OthersUnchanged
  /\ UNCHANGED <<dbVars, historyVars, faults>>

\* Seeded fault: the key is recorded on a connection of its own.
RecordKeyAtOnce(w) ==
  /\ pc[w] = "recording"
  /\ ledger' = [ledger EXCEPT ![KeyOf[current[w]]] = "live"]
  /\ Goto(w, "dispatching")
  /\ OthersUnchanged
  /\ UNCHANGED <<rowVars, historyVars, faults>>

\* The INSERT ... ON CONFLICT waits for another transaction that has inserted
\* the key and proceeds whatever became of that one; TRUE is returned.
RecordKey(w) ==
  /\ pc[w] = "recording"
  /\ ~KeyLocked(KeyOf[current[w]])
  /\ Goto(w, "dispatching")
  /\ OthersUnchanged
  /\ UNCHANGED <<dbVars, historyVars, faults>>

\* dispatchEvent returns; what it did is outside this transaction.
DispatchEvent(w) ==
  /\ pc[w] = "dispatching"
  /\ Goto(w, "committing")
  /\ handled' = [handled EXCEPT ![current[w]] = @ + 1]
  /\ OthersUnchanged
  /\ UNCHANGED <<dbVars, failures, disputes, faults>>

\* dispatchEvent throws.
DispatchThrows(w) ==
  /\ pc[w] = "dispatching"
  /\ Fail(w)
  /\ UNCHANGED faults

\* The ledger row after ON CONFLICT DO UPDATE SET expires_at = expires_at.
Recorded(k) ==
  IF ledger[k] = "expired" /\ VariableConflict = "use_column" THEN "expired" ELSE "live"

\* UPDATE ... delivered and COMMIT, the ledger row with it.
CommitDelivered(w) ==
  /\ pc[w] = "committing"
  /\ status' = [status EXCEPT ![current[w]] = "delivered"]
  /\ ledger' = [k \in Keys |-> IF k = KeyOf[current[w]] THEN Recorded(k) ELSE ledger[k]]
  /\ Goto(w, "finishing")
  /\ OthersUnchanged
  /\ UNCHANGED <<sequenceNo, retryCount, ready, deadLetters, historyVars, faults>>

\* The update or the commit is refused.
CommitFails(w) ==
  /\ pc[w] = "committing"
  /\ Fault("database")
  /\ Fail(w)

\* The key was known: delivered without a call of the handler.
CommitSkipped(w) ==
  /\ pc[w] = "skipping"
  /\ status' = [status EXCEPT ![current[w]] = "delivered"]
  /\ Goto(w, "finishing")
  /\ OthersUnchanged
  /\ UNCHANGED <<sequenceNo, retryCount, ready, deadLetters, ledger, historyVars, faults>>

-----------------------------------------------------------------------------
(* OutboxProducer.markForRetry, called without the row lock *)

ReadRetryCount(w) ==
  /\ pc[w] = "failing"
  /\ pc' = [pc EXCEPT ![w] = "retrying"]
  /\ seenCount' = [seenCount EXCEPT ![w] = retryCount[current[w]]]
  /\ UNCHANGED <<current, dbVars, queueVars, polled, adminRead, historyVars, boundVars>>

\* The UPDATE waits for the row lock and does not look at the status.
ScheduleRetry(w) ==
  /\ pc[w] = "retrying"
  /\ seenCount[w] + 1 < MaxRetries
  /\ ~RowLocked(current[w])
  /\ status' = [status EXCEPT ![current[w]] = "pending"]
  /\ retryCount' = [retryCount EXCEPT ![current[w]] = seenCount[w] + 1]
  /\ ready' = [ready EXCEPT ![current[w]] = FALSE]
  /\ Overwrite(current[w])
  /\ Goto(w, "finishing")
  /\ OthersUnchanged
  /\ UNCHANGED <<sequenceNo, deadLetters, ledger, faults>>

\* Seeded fault: the last retry is not made.
MoveToDeadLetterEarly(w) ==
  /\ pc[w] = "retrying"
  /\ seenCount[w] + 2 >= MaxRetries
  /\ ~RowLocked(current[w])
  /\ deadLetters' = [deadLetters EXCEPT ![current[w]] = @ + 1]
  /\ status' = [status EXCEPT ![current[w]] = "failed"]
  /\ Overwrite(current[w])
  /\ Goto(w, "finishing")
  /\ OthersUnchanged
  /\ UNCHANGED <<sequenceNo, retryCount, ready, ledger, faults>>

\* One transaction: the dead letter and the status.
MoveToDeadLetter(w) ==
  /\ pc[w] = "retrying"
  /\ seenCount[w] + 1 >= MaxRetries
  /\ ~RowLocked(current[w])
  /\ deadLetters' = [deadLetters EXCEPT ![current[w]] = @ + 1]
  /\ status' = [status EXCEPT ![current[w]] = "failed"]
  /\ Overwrite(current[w])
  /\ Goto(w, "finishing")
  /\ OthersUnchanged
  /\ UNCHANGED <<sequenceNo, retryCount, ready, ledger, faults>>

\* markForRetry throws out of the catch block: the BullMQ job fails.
MarkForRetryThrows(w) ==
  /\ pc[w] \in {"failing", "retrying"}
  /\ Fault("database")
  /\ EndJob(w, "failed")
  /\ UNCHANGED <<dbVars, polled, adminRead, historyVars, adminRetries>>

\* processDispatchJob returns, after a caught failure too.
CompleteJob(w) ==
  /\ pc[w] = "finishing"
  /\ EndJob(w, "completed")
  /\ UNCHANGED <<dbVars, polled, adminRead, historyVars, boundVars>>

-----------------------------------------------------------------------------
(* OutboxAdminApi.retryEvent, a read and a write without a transaction *)

RetryEventRead(a, e) ==
  /\ adminRead[a] = NoEvent
  /\ adminRetries < MaxAdminRetries
  /\ status[e] = "failed"
  /\ adminRead' = [adminRead EXCEPT ![a] = e]
  /\ adminRetries' = adminRetries + 1
  /\ IF \E b \in Admins : adminRead[b] = e THEN Dispute(e) ELSE UNCHANGED disputes
  /\ UNCHANGED <<dbVars, queueVars, polled, workerVars, handled, failures, faults>>

RetryEventReset(a) ==
  /\ adminRead[a] # NoEvent
  /\ ~RowLocked(adminRead[a])
  /\ status' = [status EXCEPT ![adminRead[a]] = "pending"]
  /\ retryCount' = [retryCount EXCEPT ![adminRead[a]] = 0]
  /\ ready' = [ready EXCEPT ![adminRead[a]] = TRUE]
  /\ adminRead' = [adminRead EXCEPT ![a] = NoEvent]
  /\ Overwrite(adminRead[a])
  /\ UNCHANGED <<sequenceNo, deadLetters, ledger, queueVars, polled, workerVars, boundVars>>

-----------------------------------------------------------------------------

\* What a worker does by itself, its failing handler included.
ProcessDispatchJob(w) ==
  \/ LockRow(w)
  \/ SkipCheck(w)
  \/ CheckRaises(w)
  \/ CheckKey(w)
  \/ RecordKey(w)
  \/ DispatchEvent(w)
  \/ DispatchThrows(w)
  \/ CommitDelivered(w)
  \/ CommitSkipped(w)
  \/ ReadRetryCount(w)
  \/ ScheduleRetry(w)
  \/ MoveToDeadLetter(w)
  \/ CompleteJob(w)

Faults(w) ==
  \/ CommitFails(w)
  \/ MarkForRetryThrows(w)
  \/ LoseJobLock(w)
  \/ Crash(w)

Next ==
  \/ \E e \in Events : Publish(e) \/ BackoffElapses(e) \/ RequeueStalled(e)
  \/ \E k \in Keys : ExpireKey(k)
  \/ \E p \in Pollers : PollRead(p) \/ PollEnqueue(p) \/ PollFails(p)
  \/ \E w \in Workers : ProcessDispatchJob(w) \/ Faults(w)
  \/ \E w \in Workers, e \in Events : TakeJob(w, e)
  \/ \E a \in Admins, e \in Events : RetryEventRead(a, e)
  \/ \E a \in Admins : RetryEventReset(a)

Spec == Init /\ [][Next]_vars

\* The interval timer keeps polling, time passes, BullMQ serves its queue and
\* looks for stalled jobs, and a worker that is not at fault goes on.
Fairness ==
  /\ \A p \in Pollers : WF_vars(PollRead(p)) /\ WF_vars(PollEnqueue(p))
  /\ \A e \in Events : WF_vars(BackoffElapses(e)) /\ WF_vars(RequeueStalled(e))
  /\ \A e \in Events : WF_vars(\E w \in Workers : TakeJob(w, e))
  /\ \A w \in Workers : WF_vars(ProcessDispatchJob(w))

FairSpec == Spec /\ Fairness

-----------------------------------------------------------------------------
(* Properties *)

SameKey(e, f) == e = f \/ (KeyOf[e] # NoKey /\ KeyOf[e] = KeyOf[f])

\* No event is lost: when the dispatcher has marked an event delivered
\* (eventDispatcher.ts:207-211, 227-230), the handler has returned for it or
\* for an event with its key, whatever crashed or stalled in between.
DeliveredWasHandled ==
  \A e \in Events : status[e] = "delivered" =>
    \E f \in Events : SameKey(e, f) /\ handled[f] > 0

\* An event reaches the dead-letter table (eventProducer.ts:209-211) only after
\* maxRetries failed attempts, although markForRetry reads the counter without
\* a lock and stalled workers may write stale counts over newer ones.
DeadLettersEarned ==
  \A e \in Events : deadLetters[e] > 0 => failures[e] >= MaxRetries

\* The ledger guards the handler as far as the server lets it
\* (eventDispatcher.ts:195-213).  With the default setting no event with a key is
\* handled.  When the column is compared, an event whose key is in the ledger and has
\* not expired is not handled, not even after a late markForRetry or retryEvent has
\* set it back to pending, unless another event with its key has been handled: that
\* one's record can come between the look-up and the handler.  When the variable
\* is compared, nothing guards it.
LedgerGuardsHandler ==
  [][\A e \in Events : KeyOf[e] # NoKey /\ handled'[e] > handled[e] =>
       CASE VariableConflict = "error" -> FALSE
         [] VariableConflict = "use_column" ->
              \/ ledger[KeyOf[e]] # "live"
              \/ \E f \in Events \ {e} : KeyOf[f] = KeyOf[e] /\ handled[f] > 0
         [] OTHER -> TRUE]_vars

\* What a row's status says of the promise.
PromiseOf(s) == CASE s = "unpublished" -> "none"
                  [] s = "pending"     -> "owed"
                  [] s = "delivered"   -> "kept"
                  [] OTHER             -> "abandoned"

\* What the outbox promises of an event, see OutboxPromise.
Promise == INSTANCE OutboxPromise WITH promise <- [e \in Events |-> PromiseOf(status[e])]

\* The dispatcher keeps the promise, whatever crashes, stalls or is retried by
\* hand.  The updates of markForRetry (eventProducer.ts:217-224) and retryEvent
\* (adminApi.ts:178-185) test no status: they undo a delivered mark at most once
\* for each job lock a worker has lost on the event and each retry request that
\* found another one under way.
KeepsPromise == Promise!PromiseSpec

\* OUTBOX_IMPLEMENTATION.md:263: "Dispatcher processes events in strict order
\* within each aggregate": an event is not handled while a predecessor that has
\* been attempted and failed is still to be retried.
StrictOrderWithinAggregate ==
  [][\A e, f \in Events :
       ~ /\ handled'[e] > handled[e]
         /\ AggregateOf[e] = AggregateOf[f]
         /\ sequenceNo[f] < sequenceNo[e]
         /\ status[f] = "pending"
         /\ failures[f] > 0]_vars

\* outbox.test.ts:566-620: a crash between send and commit makes no duplicate
\* delivery: the handler of an event with a key returns once.
NoDuplicateDelivery ==
  \A e \in Events : KeyOf[e] # NoKey => handled[e] <= 1

Attempted(e) == status[e] \in {"delivered", "failed"} \/ handled[e] + failures[e] > 0

\* Every published event is eventually attempted (OUTBOX_IMPLEMENTATION.md:5
\* "guaranteed event delivery", 268 "Events remain in pending state, processed
\* on restart").
EveryEventAttempted ==
  \A e \in Events : status[e] = "pending" ~> Attempted(e)

=============================================================================
