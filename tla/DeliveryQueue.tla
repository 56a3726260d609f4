---------------------------- MODULE DeliveryQueue ----------------------------
(***************************************************************************)
(* A delivery queue of src/src/workers with its dead-letter queue: the     *)
(* webhook queue (webhook.service.ts, webhookDelivery.worker.ts) or the    *)
(* notification queue (notificationQueue.worker.ts), and DeliveryDLQ       *)
(* (queue.ts) which both share.  The two differ in the constants.          *)
(*                                                                         *)
(* All workers, failure handlers and requests run in one process, which    *)
(* may crash; the jobs are in Redis and the rows in the database.          *)
(***************************************************************************)
EXTENDS Naturals

CONSTANTS
  Deliveries,
  MaxJobs,          \* bound: jobs added for one delivery
  Attempts,         \* opts.attempts of a job when it is first added
  ReplayAttempts,   \* opts.attempts of a job that replay adds
  DeadLetterAt,     \* attemptsMade from which the failure handler acts
  Tracked,          \* whether a delivery has a row in webhook_deliveries
  MaxStalledCount,  \* BullMQ: how often a job may stall before it fails
  Replayers, NoEntry,
  MaxFaults         \* bound: faults in a behaviour

\* The jobs of a delivery: the first is queueDelivery's, the others are replays.
Jobs == Deliveries \X (1 .. MaxJobs)

ASSUME DeliveryAssumption ==
  /\ MaxJobs \in Nat \ {0}
  /\ Attempts \in Nat \ {0}
  /\ ReplayAttempts \in Nat \ {0}
  /\ DeadLetterAt \in Nat \ {0}
  /\ Tracked \in BOOLEAN
  /\ MaxStalledCount \in Nat
  /\ NoEntry \notin Jobs \X Nat
  /\ MaxFaults \in Nat

VARIABLES
  record,     \* webhook_deliveries.status; an untracked one stays "pending"
  adding,     \* deliveries whose row is inserted and whose job is not yet added
  job,        \* the jobs of the queue
  handlers,   \* failure handlers running: <<job, attemptsMade, next step>>
  dlq,        \* rows of dead_letter_delivery: <<job, attemptsMade>>
  replaying,  \* the entry a replay works on and its next step
  accepted,   \* how often the receiver has accepted a delivery
  dropped,    \* deliveries that something has left without a job or a dead letter
  faults

vars == <<record, adding, job, handlers, dlq, replaying, accepted, dropped, faults>>

\* An active job is in one of the first four states in a worker, or "orphaned"
\* when its worker has died.
Running == {"started", "sent", "accepted", "recorded"}
Live    == {"waiting", "delayed", "orphaned"} \cup Running

Job == [state : {"none", "completed", "failed"} \cup Live,
        attempts : Nat, attemptsMade : Nat, stalls : Nat, requests : Nat]

NoJob ==
  [state |-> "none", attempts |-> 0, attemptsMade |-> 0, stalls |-> 0, requests |-> 0]

TypeOK ==
  /\ record \in [Deliveries -> {"absent", "pending", "success", "failed"}]
  /\ adding \in SUBSET Deliveries
  /\ job \in [Jobs -> Job]
  /\ handlers \in SUBSET (Jobs \X Nat \X {"mark", "bury"})
  /\ dlq \in SUBSET (Jobs \X Nat)
  /\ replaying \in [Replayers -> [entry : (Jobs \X Nat) \cup {NoEntry},
                                  step : {"read", "add", "discard"}]]
  /\ accepted \in [Deliveries -> Nat]
  /\ dropped \in SUBSET Deliveries
  /\ faults \in Nat

Idle == [entry |-> NoEntry, step |-> "read"]

Init ==
  /\ record = [d \in Deliveries |-> "absent"]
  /\ adding = {}
  /\ job = [j \in Jobs |-> NoJob]
  /\ handlers = {}
  /\ dlq = {}
  /\ replaying = [r \in Replayers |-> Idle]
  /\ accepted = [d \in Deliveries |-> 0]
  /\ dropped = {}
  /\ faults = 0

Fault == faults < MaxFaults /\ faults' = faults + 1

\* queue.add
NewJob(attempts) == [state |-> "waiting", attempts |-> attempts,
                     attemptsMade |-> 0, stalls |-> 0, requests |-> 0]

Add(j, attempts) ==
  /\ job[j].state = "none"
  /\ job' = [job EXCEPT ![j] = NewJob(attempts)]

Move(j, from, to) ==
  /\ job[j].state = from
  /\ job' = [job EXCEPT ![j].state = to]

-----------------------------------------------------------------------------
(* queueDelivery and queueBatchDelivery: the row, then the job *)

\* The endpoint and rate limit checks before the row write nothing.  A delivery
\* with scheduledAt enters the queue delayed; it is a job not taken for a while.
QueueDelivery(d) ==
  /\ record[d] = "absent"
  /\ record' = [record EXCEPT ![d] = "pending"]
  /\ adding' = adding \cup {d}
  /\ UNCHANGED <<job, handlers, dlq, replaying, accepted, dropped, faults>>

AddJob(d) ==
  /\ d \in adding
  /\ Add(<<d, 1>>, Attempts)
  /\ adding' = adding \ {d}
  /\ UNCHANGED <<record, handlers, dlq, replaying, accepted, dropped, faults>>

\* The broker refuses the job: queueDelivery throws and leaves the row.
AddFails(d) ==
  /\ d \in adding
  /\ Fault
  /\ adding' = adding \ {d}
  /\ dropped' = dropped \cup {d}
  /\ UNCHANGED <<record, job, handlers, dlq, replaying, accepted>>

-----------------------------------------------------------------------------
(* The BullMQ worker *)

BackoffElapses(j) ==
  /\ Move(j, "delayed", "waiting")
  /\ UNCHANGED <<record, adding, handlers, dlq, replaying, accepted, dropped, faults>>

TakeJob(j) ==
  /\ Move(j, "waiting", "started")
  /\ UNCHANGED <<record, adding, handlers, dlq, replaying, accepted, dropped, faults>>

\* Seeded fault: off by one, as for a policy that counts the retries only.
ReportLate(j, made) ==
  IF made <= DeadLetterAt THEN {}
  ELSE {<<j, made, IF Tracked THEN "mark" ELSE "bury">>}

\* Seeded fault: the attempt that is still to be retried counts as the last.
ReportEarly(j, made) ==
  IF made + 1 < DeadLetterAt THEN {}
  ELSE {<<j, made, IF Tracked THEN "mark" ELSE "bury">>}

\* What the worker's "failed" handler will do about job j, if anything.
Report(j, made) ==
  IF made < DeadLetterAt THEN {}
  ELSE {<<j, made, IF Tracked THEN "mark" ELSE "bury">>}

\* The processor throws: the job is retried while it has attempts left, and
\* the handler is called each time.
FailAttempt(j, retried) ==
  LET made == job[j].attemptsMade + 1
  IN /\ job' = [job EXCEPT ![j].attemptsMade = made,
                           ![j].state = IF retried /\ made < job[j].attempts
                                        THEN "delayed" ELSE "failed"]
     /\ handlers' = handlers \cup Report(j, made)

\* Seeded fault: a stalled job is put back without end.
RequeueStalledAlways(j) ==
  /\ Move(j, "orphaned", "waiting")
  /\ UNCHANGED <<record, adding, handlers, dlq, replaying, accepted, dropped, faults>>

\* The stalled check: back to the queue, or failed for good, whatever attempts
\* are left; the handler then finds too few attempts made and does nothing.
RequeueStalled(j) ==
  /\ job[j].state = "orphaned"
  /\ \/ /\ job[j].stalls < MaxStalledCount
        /\ job' = [job EXCEPT ![j].state = "waiting", ![j].stalls = @ + 1]
        /\ UNCHANGED <<handlers, dropped>>
     \/ /\ job[j].stalls >= MaxStalledCount
        /\ FailAttempt(j, FALSE)
        /\ dropped' = IF handlers' = handlers THEN dropped \cup {j[1]} ELSE dropped
  /\ UNCHANGED <<record, adding, dlq, replaying, accepted, faults>>

-----------------------------------------------------------------------------
(* processDelivery *)

\* The endpoint is gone or inactive: no request is made.
EndpointInactive(j) ==
  /\ job[j].state = "started"
  /\ FailAttempt(j, TRUE)
  /\ UNCHANGED <<record, adding, dlq, replaying, accepted, dropped, faults>>

Post(j) ==
  /\ job[j].state = "started"
  /\ job' = [job EXCEPT ![j].state = "sent", ![j].requests = @ + 1]
  /\ UNCHANGED <<record, adding, handlers, dlq, replaying, accepted, dropped, faults>>

\* The receiver answers with an error, or cannot be reached.
PostRefused(j) ==
  /\ job[j].state = "sent"
  /\ FailAttempt(j, TRUE)
  /\ UNCHANGED <<record, adding, dlq, replaying, accepted, dropped, faults>>

\* The receiver accepts, and its answer comes after the 30 s timeout.
PostTimesOut(j) ==
  /\ job[j].state = "sent"
  /\ FailAttempt(j, TRUE)
  /\ accepted' = [accepted EXCEPT ![j[1]] = @ + 1]
  /\ UNCHANGED <<record, adding, dlq, replaying, dropped, faults>>

PostAccepted(j) ==
  /\ Move(j, "sent", "accepted")
  /\ accepted' = [accepted EXCEPT ![j[1]] = @ + 1]
  /\ UNCHANGED <<record, adding, handlers, dlq, replaying, dropped, faults>>

\* logDeliveryAttempt and updateDeliveryStatusFromResponse.
RecordSuccess(j) ==
  /\ Move(j, "accepted", "recorded")
  /\ record' = IF Tracked THEN [record EXCEPT ![j[1]] = "success"] ELSE record
  /\ UNCHANGED <<adding, handlers, dlq, replaying, accepted, dropped, faults>>

\* Seeded fault: the status is updated before the attempt is logged.
RecordFailsLate(j) ==
  /\ job[j].state = "recorded"
  /\ Fault
  /\ FailAttempt(j, TRUE)
  /\ UNCHANGED <<record, adding, dlq, replaying, accepted, dropped>>

\* One of the two throws: the accepted request counts as a failed attempt.
RecordFails(j) ==
  /\ job[j].state = "accepted"
  /\ Fault
  /\ FailAttempt(j, TRUE)
  /\ UNCHANGED <<record, adding, dlq, replaying, accepted, dropped>>

CompleteJob(j) ==
  /\ Move(j, "recorded", "completed")
  /\ UNCHANGED <<record, adding, handlers, dlq, replaying, accepted, dropped, faults>>

-----------------------------------------------------------------------------
(* The "failed" handler, which the worker does not wait for *)

\* Seeded fault: the status the queue's own listener would write.
MarkRetrying(j, made) ==
  /\ <<j, made, "mark">> \in handlers
  /\ handlers' = (handlers \ {<<j, made, "mark">>}) \cup {<<j, made, "bury">>}
  /\ record' = [record EXCEPT ![j[1]] = "retrying"]
  /\ UNCHANGED <<adding, job, dlq, replaying, accepted, dropped, faults>>

MarkFailed(j, made) ==
  /\ <<j, made, "mark">> \in handlers
  /\ handlers' = (handlers \ {<<j, made, "mark">>}) \cup {<<j, made, "bury">>}
  /\ record' = [record EXCEPT ![j[1]] = "failed"]
  /\ UNCHANGED <<adding, job, dlq, replaying, accepted, dropped, faults>>

\* A failed update is logged and forgotten.
MarkFails(j, made) ==
  /\ <<j, made, "mark">> \in handlers
  /\ Fault
  /\ handlers' = (handlers \ {<<j, made, "mark">>}) \cup {<<j, made, "bury">>}
  /\ UNCHANGED <<record, adding, job, dlq, replaying, accepted, dropped>>

MoveToDLQ(j, made) ==
  /\ <<j, made, "bury">> \in handlers
  /\ handlers' = handlers \ {<<j, made, "bury">>}
  /\ dlq' = dlq \cup {<<j, made>>}
  /\ UNCHANGED <<record, adding, job, replaying, accepted, dropped, faults>>

\* A failed insert is logged and forgotten.
MoveToDLQFails(j, made) ==
  /\ <<j, made, "bury">> \in handlers
  /\ Fault
  /\ handlers' = handlers \ {<<j, made, "bury">>}
  /\ dropped' = dropped \cup {j[1]}
  /\ UNCHANGED <<record, adding, job, dlq, replaying, accepted>>

-----------------------------------------------------------------------------
(* DeliveryDLQ.replay and discard *)

\* The delivery a dead letter is about.
Subject(x) == x[1][1]

ReplayRead(r, x) ==
  /\ replaying[r] = Idle
  /\ x \in dlq
  /\ replaying' = [replaying EXCEPT ![r] = [entry |-> x, step |-> "add"]]
  /\ UNCHANGED <<record, adding, job, handlers, dlq, accepted, dropped, faults>>

ReplayAdd(r) ==
  /\ replaying[r].step = "add"
  /\ \E n \in 2 .. MaxJobs :
       /\ job[<<Subject(replaying[r].entry), n - 1>>].state # "none"
       /\ Add(<<Subject(replaying[r].entry), n>>, ReplayAttempts)
  /\ replaying' = [replaying EXCEPT ![r].step = "discard"]
  /\ UNCHANGED <<record, adding, handlers, dlq, accepted, dropped, faults>>

ReplayDiscard(r) ==
  /\ replaying[r].step = "discard"
  /\ dlq' = dlq \ {replaying[r].entry}
  /\ replaying' = [replaying EXCEPT ![r] = Idle]
  /\ UNCHANGED <<record, adding, job, handlers, accepted, dropped, faults>>

\* queue.add or the delete throws: the entry stays, replayed or not.
ReplayFails(r) ==
  /\ replaying[r] # Idle
  /\ Fault
  /\ replaying' = [replaying EXCEPT ![r] = Idle]
  /\ UNCHANGED <<record, adding, job, handlers, dlq, accepted, dropped>>

Discard(x) ==
  /\ x \in dlq
  /\ dlq' = dlq \ {x}
  /\ dropped' = dropped \cup {Subject(x)}
  /\ UNCHANGED <<record, adding, job, handlers, replaying, accepted, faults>>

-----------------------------------------------------------------------------

\* The process dies, with every worker, handler and request in it.
Crash ==
  /\ Fault
  /\ job' = [j \in Jobs |-> IF job[j].state \in Running
                            THEN [job[j] EXCEPT !.state = "orphaned"] ELSE job[j]]
  /\ adding' = {}
  /\ handlers' = {}
  /\ replaying' = [r \in Replayers |-> Idle]
  /\ dropped' = dropped \cup adding \cup {h[1][1] : h \in handlers}
  /\ UNCHANGED <<record, dlq, accepted>>

\* What the worker does with a job, the receiver's answer included.
ProcessJob(j) ==
  \/ TakeJob(j)
  \/ EndpointInactive(j)
  \/ Post(j)
  \/ PostRefused(j)
  \/ PostTimesOut(j)
  \/ PostAccepted(j)
  \/ RecordSuccess(j)
  \/ CompleteJob(j)

\* What a handler does; its attempt number is at most what any job can reach.
MadeCounts == 0 .. (Attempts + ReplayAttempts + 1)

Handle(j) == \E made \in MadeCounts : MarkFailed(j, made) \/ MoveToDLQ(j, made)

HandleFails(j) == \E made \in MadeCounts : MarkFails(j, made) \/ MoveToDLQFails(j, made)

Next ==
  \/ \E d \in Deliveries : QueueDelivery(d) \/ AddJob(d) \/ AddFails(d)
  \/ \E j \in Jobs : BackoffElapses(j) \/ ProcessJob(j) \/ RequeueStalled(j)
  \/ \E j \in Jobs : RecordFails(j) \/ Handle(j) \/ HandleFails(j)
  \/ \E r \in Replayers : ReplayAdd(r) \/ ReplayDiscard(r) \/ ReplayFails(r)
  \/ \E r \in Replayers, x \in dlq : ReplayRead(r, x)
  \/ \E x \in dlq : Discard(x)
  \/ Crash

Spec == Init /\ [][Next]_vars

\* The process, and BullMQ with its timers, keep going; nobody has to replay.
Fairness ==
  /\ \A d \in Deliveries : WF_vars(AddJob(d))
  /\ \A j \in Jobs : /\ WF_vars(BackoffElapses(j))
                     /\ WF_vars(ProcessJob(j))
                     /\ WF_vars(RequeueStalled(j))
                     /\ WF_vars(Handle(j))

FairSpec == Spec /\ Fairness

-----------------------------------------------------------------------------
(* Properties *)

\* The retries of a job, the stalled check and crashes do not multiply: a job
\* makes as many requests as it has attempts, and one more for each stall that
\* BullMQ allows (webhook.service.ts:115-125, webhookDelivery.worker.ts:44-62).
RequestsBounded ==
  \A j \in Jobs : job[j].requests <= job[j].attempts + MaxStalledCount

\* A dead letter stands for a job that is over (queue.ts:108-111 "Job exhausted
\* retries and moved to Delivery DLQ"): the delivery is not sent again while an
\* operator decides about its entry, except by a replay.
DeadLetterIsFinal == \A x \in dlq : job[x[1]].state = "failed"

InHand(d) ==
  \/ d \in adding
  \/ \E j \in Jobs : j[1] = d /\ job[j].state \in Live
  \/ \E h \in handlers : h[1][1] = d

Completed(d) == \E j \in Jobs : j[1] = d /\ job[j].state = "completed"

HasDeadLetter(d) == \E x \in dlq : Subject(x) = d

Accounted(d) ==
  record[d] # "absent" => InHand(d) \/ Completed(d) \/ HasDeadLetter(d) \/ d \in dropped

Replayed(d) == \E n \in 2 .. MaxJobs : job[<<d, n>>].state # "none"

\* A delivery that was asked for is in the queue, completed, or in the
\* dead-letter queue, and the only ways to lose it are the known ones: the queue
\* refuses its job, the process dies between the row and the job
\* (webhook.service.ts:439-466) or between the last failure and the dead letter,
\* the dead letter is refused (webhookDelivery.worker.ts:92-104), or its job
\* stalls too often.  A replay is another matter, see ReplayKeepsDelivery.
NothingLost == \A d \in Deliveries : Replayed(d) \/ Accounted(d)

\* A replayed delivery is not lost either: OUTBOX_IMPLEMENTATION.md:270
\* "Webhook Endpoint Down: Exponential backoff with eventual dead letter queue".
ReplayKeepsDelivery == \A d \in Deliveries : Accounted(d)

\* A delivery recorded as a success is not turned into a failure by the failure
\* handler, which tests nothing before it writes (webhookDelivery.worker.ts:85-90,
\* webhook.service.ts:642-656), unless the process died between the record and
\* the end of the job and the delivery was made once more.
SuccessIsFinal ==
  [][\A d \in Deliveries :
       record[d] = "success" /\ record'[d] # "success" =>
         \E j \in Jobs : j[1] = d /\ job[j].stalls > 0]_vars

\* A requested delivery does not stay undecided: it is completed or becomes a
\* dead letter (webhookDelivery.worker.ts:44-106), unless it is dropped.
EveryDeliverySettles ==
  \A d \in Deliveries :
    d \in adding ~> Completed(d) \/ HasDeadLetter(d) \/ d \in dropped

=============================================================================
