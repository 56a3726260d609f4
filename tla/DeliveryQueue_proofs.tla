------------------------ MODULE DeliveryQueue_proofs ------------------------
(***************************************************************************)
(* Proofs about DeliveryQueue, for every number of deliveries, jobs,       *)
(* replays, attempts, stalls and faults.                                   *)
(***************************************************************************)
EXTENDS DeliveryQueue, TLAPS

\* The type invariant is inductive: whatever crashes, stalls, fails or is
\* replayed, the rows, the jobs and the dead letters keep their shape.
LEMMA TypeInductive == TypeOK /\ [Next]_vars => TypeOK'
<1>. USE DeliveryAssumption DEF TypeOK, Job, Live, Running
<1>2. TypeOK /\ [Next]_vars => TypeOK'
  <2>. SUFFICES ASSUME TypeOK, [Next]_vars PROVE TypeOK'
    OBVIOUS
  <2>. USE DEF Jobs
  <2>1. ASSUME NEW d \in Deliveries, QueueDelivery(d) PROVE TypeOK'
    BY <2>1 DEF QueueDelivery
  <2>2. ASSUME NEW d \in Deliveries, AddJob(d) PROVE TypeOK'
    BY <2>2 DEF AddJob, Add, NewJob
  <2>3. ASSUME NEW d \in Deliveries, AddFails(d) PROVE TypeOK'
    BY <2>3 DEF AddFails, Fault
  <2>4. ASSUME NEW j \in Jobs, BackoffElapses(j) PROVE TypeOK'
    BY <2>4 DEF BackoffElapses, Move
  <2>5. ASSUME NEW j \in Jobs, TakeJob(j) PROVE TypeOK'
    BY <2>5 DEF TakeJob, Move
  <2>6. ASSUME NEW j \in Jobs, RequeueStalled(j) PROVE TypeOK'
    BY <2>6 DEF RequeueStalled, FailAttempt, Report
  <2>7. ASSUME NEW j \in Jobs, EndpointInactive(j) PROVE TypeOK'
    BY <2>7 DEF EndpointInactive, FailAttempt, Report
  <2>8. ASSUME NEW j \in Jobs, Post(j) PROVE TypeOK'
    BY <2>8 DEF Post
  <2>9. ASSUME NEW j \in Jobs, PostRefused(j) PROVE TypeOK'
    BY <2>9 DEF PostRefused, FailAttempt, Report
  <2>10. ASSUME NEW j \in Jobs, PostTimesOut(j) PROVE TypeOK'
    BY <2>10 DEF PostTimesOut, FailAttempt, Report
  <2>11. ASSUME NEW j \in Jobs, PostAccepted(j) PROVE TypeOK'
    BY <2>11 DEF PostAccepted, Move
  <2>12. ASSUME NEW j \in Jobs, RecordSuccess(j) PROVE TypeOK'
    BY <2>12 DEF RecordSuccess, Move
  <2>13. ASSUME NEW j \in Jobs, RecordFails(j) PROVE TypeOK'
    BY <2>13 DEF RecordFails, FailAttempt, Report, Fault
  <2>14. ASSUME NEW j \in Jobs, CompleteJob(j) PROVE TypeOK'
    BY <2>14 DEF CompleteJob, Move
  <2>15. ASSUME NEW j \in Jobs, Handle(j) \/ HandleFails(j) PROVE TypeOK'
    <3>. PICK made \in MadeCounts : \/ MarkFailed(j, made) \/ MoveToDLQ(j, made)
                                    \/ MarkFails(j, made) \/ MoveToDLQFails(j, made)
      BY <2>15 DEF Handle, HandleFails
    <3>. made \in Nat
      BY DEF MadeCounts
    <3>. QED
      BY DEF MarkFailed, MoveToDLQ, MarkFails, MoveToDLQFails, Fault
  <2>16. ASSUME NEW r \in Replayers, ReplayAdd(r) PROVE TypeOK'
    <3>. DEFINE added == NewJob(ReplayAttempts)
    <3>1. added \in Job
      BY DEF NewJob
    <3>. PICK n \in 2 .. MaxJobs :
           job' = [job EXCEPT ![<<Subject(replaying[r].entry), n>>] = added]
      BY <2>16 DEF ReplayAdd, Add
    <3>. HIDE DEF added
    <3>2. job' \in [Jobs -> Job]
      BY <3>1
    <3>. QED
      BY <2>16, <3>2 DEF ReplayAdd
  <2>17. ASSUME NEW r \in Replayers, ReplayDiscard(r) \/ ReplayFails(r) PROVE TypeOK'
    BY <2>17 DEF ReplayDiscard, ReplayFails, Fault, Idle
  <2>18. ASSUME NEW r \in Replayers, NEW x \in dlq, ReplayRead(r, x) PROVE TypeOK'
    BY <2>18 DEF ReplayRead
  <2>19. ASSUME NEW x \in dlq, Discard(x) PROVE TypeOK'
    BY <2>19 DEF Discard, Subject
  <2>20. ASSUME Crash PROVE TypeOK'
    <3>1. job' \in [Jobs -> Job]
      BY <2>20 DEF Crash
    <3>2. \A h \in handlers : h[1][1] \in Deliveries
      OBVIOUS
    <3>3. dropped' \in SUBSET Deliveries
      BY <2>20, <3>2 DEF Crash
    <3>. QED
      BY <2>20, <3>1, <3>3 DEF Crash, Fault, Idle
  <2>21. CASE UNCHANGED vars
    BY <2>21 DEF vars
  <2>. QED
    BY <2>1, <2>2, <2>3, <2>4, <2>5, <2>6, <2>7, <2>8, <2>9, <2>10, <2>11, <2>12, <2>13,
       <2>14, <2>15, <2>16, <2>17, <2>18, <2>19, <2>20, <2>21 DEF Next, ProcessJob
<1>. QED
  BY <1>2

THEOREM DeliveryTypeCorrect == Spec => []TypeOK
<1>1. Init => TypeOK
  BY DeliveryAssumption DEF Init, TypeOK, Job, NoJob, Idle, Live, Running
<1>. QED
  BY <1>1, TypeInductive, PTL DEF Spec

-----------------------------------------------------------------------------
(* The jobs *)

\* A request of the running attempt that attemptsMade and stalls do not count.
Open(r) ==
  IF r.state \in {"sent", "accepted", "recorded", "completed", "orphaned"} THEN 1 ELSE 0

\* Each request is counted by a failed attempt, by a stall, or is the open one;
\* a job that is not over has attempts left.
GoodJob(r) ==
  /\ r.state = "none" => r = NoJob
  /\ r.requests <= r.attemptsMade + r.stalls + Open(r)
  /\ r.stalls <= MaxStalledCount
  /\ r.state \in Live \cup {"completed"} => r.attemptsMade < r.attempts
  /\ r.state = "failed" => r.attemptsMade <= r.attempts
  /\ r.attempts \in {0, Attempts, ReplayAttempts}

JobInv == \A j \in Jobs : GoodJob(job[j])

\* An attempt that fails leaves a good job.
LEMMA FailAttemptGood ==
  ASSUME TypeOK, NEW j \in Jobs, GoodJob(job[j]), job[j].state \in Live,
         NEW retried \in BOOLEAN, FailAttempt(j, retried)
  PROVE  /\ GoodJob(job'[j])
         /\ job'[j].state # "none"
         /\ \A i \in Jobs \ {j} : job'[i] = job[i]
  BY DeliveryAssumption
  DEF TypeOK, Job, Live, Running, GoodJob, Open, FailAttempt, NoJob

\* A step of the queue touches one job and leaves it good, or dies and orphans
\* the running ones; no job vanishes.
LEMMA JobsStep ==
  ASSUME TypeOK, JobInv, [Next]_vars
  PROVE  JobInv' /\ \A j \in Jobs : job[j].state # "none" => job'[j].state # "none"
<1>. DEFINE Kept == JobInv' /\ \A j \in Jobs : job[j].state # "none" => job'[j].state # "none"
<1>. USE DeliveryAssumption
<1>1. ASSUME UNCHANGED job PROVE Kept
  BY <1>1 DEF JobInv
<1>2. ASSUME NEW j \in Jobs, NEW r \in Job, job' = [job EXCEPT ![j] = r],
             GoodJob(r), r.state # "none"
      PROVE  Kept
  BY <1>2 DEF JobInv, TypeOK
<1>3. ASSUME NEW j \in Jobs, NEW retried \in BOOLEAN, FailAttempt(j, retried),
             job[j].state \in Live
      PROVE  Kept
  BY <1>3, FailAttemptGood DEF JobInv
<1>4. ASSUME NEW j, NEW n \in Nat, Add(j, n), n \in {Attempts, ReplayAttempts}
      PROVE  Kept
  <2>. DEFINE r == NewJob(n)
  <2>1. r \in Job /\ GoodJob(r) /\ r.state # "none"
    BY <1>4 DEF NewJob, Job, GoodJob, Live, Open, Running
  <2>2. job' = [job EXCEPT ![j] = r]
    BY <1>4 DEF Add
  <2>. HIDE DEF r
  <2>3. CASE j \in Jobs
    BY <1>2, <2>1, <2>2, <2>3
  <2>4. CASE j \notin Jobs
    <3>. UNCHANGED job
      BY <2>2, <2>4 DEF TypeOK
    <3>. QED BY <1>1
  <2>. QED BY <2>3, <2>4
<1>5. ASSUME NEW j \in Jobs, NEW from, NEW to, Move(j, from, to),
             <<from, to>> \in {<<"delayed", "waiting">>, <<"waiting", "started">>,
                              <<"sent", "accepted">>, <<"accepted", "recorded">>,
                              <<"recorded", "completed">>}
      PROVE  Kept
  <2>. DEFINE r == [job[j] EXCEPT !.state = to]
  <2>1. r \in Job /\ GoodJob(r) /\ r.state # "none"
    BY <1>5 DEF Move, TypeOK, JobInv, Job, GoodJob, Live, Running, Open
  <2>. QED BY <1>2, <1>5, <2>1 DEF Move
<1>6. ASSUME NEW j \in Jobs, Post(j) PROVE Kept
  <2>. DEFINE r == [job[j] EXCEPT !.state = "sent", !.requests = @ + 1]
  <2>1. r \in Job /\ GoodJob(r) /\ r.state # "none"
    BY <1>6 DEF Post, TypeOK, JobInv, Job, GoodJob, Live, Running, Open
  <2>2. job' = [job EXCEPT ![j] = r]
    BY <1>6 DEF Post, TypeOK, Job
  <2>. QED BY <1>2, <2>1, <2>2
<1>7. ASSUME NEW j \in Jobs, RequeueStalled(j) PROVE Kept
  <2>. job[j].state = "orphaned"
    BY <1>7 DEF RequeueStalled
  <2>. PICK no \in {FALSE} :
         \/ /\ job[j].stalls < MaxStalledCount
            /\ job' = [job EXCEPT ![j].state = "waiting", ![j].stalls = @ + 1]
         \/ FailAttempt(j, no)
    BY <1>7, Zenon DEF RequeueStalled
  <2>1. CASE FailAttempt(j, no)
    BY <1>3, <2>1 DEF Live
  <2>2. CASE /\ job[j].stalls < MaxStalledCount
             /\ job' = [job EXCEPT ![j].state = "waiting", ![j].stalls = @ + 1]
    <3>. DEFINE r == [state |-> "waiting", attempts |-> job[j].attempts,
                      attemptsMade |-> job[j].attemptsMade,
                      stalls |-> job[j].stalls + 1, requests |-> job[j].requests]
    <3>1. r \in Job /\ GoodJob(r) /\ r.state # "none"
      BY <2>2 DEF TypeOK, JobInv, Job, GoodJob, Live, Running, Open
    <3>2. job' = [job EXCEPT ![j] = r]
      BY <2>2 DEF TypeOK, Job
    <3>. QED BY <1>2, <3>1, <3>2
  <2>. QED BY <2>1, <2>2
<1>8. ASSUME Crash PROVE Kept
  BY <1>8 DEF Crash, TypeOK, JobInv, Job, GoodJob, Live, Running, Open
<1>9. ASSUME NEW j \in Jobs, ProcessJob(j) \/ BackoffElapses(j) PROVE Kept
  BY <1>3, <1>5, <1>6, <1>9
  DEF ProcessJob, BackoffElapses, TakeJob, EndpointInactive, PostRefused, PostTimesOut,
      PostAccepted, RecordSuccess, CompleteJob, Live, Running
<1>10. ASSUME NEW j \in Jobs, RecordFails(j) \/ Handle(j) \/ HandleFails(j) PROVE Kept
  BY <1>1, <1>3, <1>10
  DEF RecordFails, Handle, HandleFails, MarkFailed, MarkFails, MoveToDLQ, MoveToDLQFails,
      Live, Running
<1>11. ASSUME NEW d \in Deliveries, QueueDelivery(d) \/ AddJob(d) \/ AddFails(d) PROVE Kept
  BY <1>1, <1>4, <1>11 DEF QueueDelivery, AddJob, AddFails
<1>12. ASSUME NEW r \in Replayers, ReplayAdd(r) \/ ReplayDiscard(r) \/ ReplayFails(r)
       PROVE  Kept
  BY <1>1, <1>4, <1>12 DEF ReplayAdd, ReplayDiscard, ReplayFails
<1>13. ASSUME NEW r \in Replayers, NEW x \in dlq, ReplayRead(r, x) PROVE Kept
  BY <1>1, <1>13 DEF ReplayRead
<1>14. ASSUME NEW x \in dlq, Discard(x) PROVE Kept
  BY <1>1, <1>14 DEF Discard
<1>15. CASE UNCHANGED vars
  BY <1>1, <1>15 DEF vars
<1>. QED
  BY <1>7, <1>8, <1>9, <1>10, <1>11, <1>12, <1>13, <1>14, <1>15 DEF Next

LEMMA InitJobs == Init => JobInv
  BY DeliveryAssumption DEF Init, JobInv, GoodJob, NoJob, Live, Running, Open

\* For any numbers of retries, stalls, crashes and replays, a job makes at most
\* as many requests as it has attempts and BullMQ allows stalls.
THEOREM DeliveryRequestsBounded == Spec => []RequestsBounded
<1>1. TypeOK /\ JobInv => RequestsBounded
  BY DeliveryAssumption
  DEF TypeOK, JobInv, GoodJob, RequestsBounded, Job, Live, Running, Open, NoJob
<1>2. TypeOK /\ JobInv /\ [Next]_vars => JobInv'
  BY JobsStep
<1>. QED
  BY <1>1, <1>2, InitJobs, DeliveryTypeCorrect, PTL DEF Spec

-----------------------------------------------------------------------------
(* The dead letters *)

\* The failure handlers and the dead letters are about failed jobs.
ReportInv ==
  /\ \A h \in handlers : job[h[1]].state = "failed"
  /\ \A x \in dlq : job[x[1]].state = "failed"

\* An attempt that is reported was the last one, when no job has more attempts
\* than DeadLetterAt.
LEMMA ReportedIsOver ==
  ASSUME Attempts <= DeadLetterAt, ReplayAttempts <= DeadLetterAt,
         TypeOK, JobInv, ReportInv, UNCHANGED dlq,
         NEW j \in Jobs, job[j].state \in Live,
         NEW retried \in BOOLEAN, FailAttempt(j, retried)
  PROVE  ReportInv'
<1>. DEFINE made == job[j].attemptsMade + 1
<1>1. /\ made \in Nat
      /\ job[j].attempts \in Nat
      /\ job[j].attempts <= DeadLetterAt
      /\ job[j].state # "failed"
  BY DeliveryAssumption DEF TypeOK, Job, JobInv, GoodJob, Live, Running
<1>2. \A i \in Jobs : job[i].state = "failed" => job'[i].state = "failed"
  BY <1>1 DEF FailAttempt, TypeOK
<1>3. CASE made < DeadLetterAt
  BY <1>2, <1>3 DEF FailAttempt, Report, ReportInv, TypeOK
<1>4. CASE ~(made < DeadLetterAt)
  <2>1. job'[j].state = "failed"
    BY <1>1, <1>4, DeliveryAssumption DEF FailAttempt, TypeOK, Job
  <2>2. \A h \in handlers' : h \in handlers \/ h[1] = j
    BY DEF FailAttempt, Report
  <2>. QED BY <1>2, <2>1, <2>2 DEF ReportInv, TypeOK
<1>. QED BY <1>3, <1>4

\* No step of a queue takes a job back from "failed".
LEMMA FailedStays ==
  ASSUME TypeOK, JobInv, [Next]_vars, NEW j \in Jobs, job[j].state = "failed"
  PROVE  job'[j].state = "failed"
<1>. USE DEF TypeOK
<1>1. ASSUME NEW i \in Jobs, NEW retried \in BOOLEAN, FailAttempt(i, retried),
             job[i].state \in Live
      PROVE  job'[j].state = "failed"
  BY <1>1 DEF FailAttempt, Live, Running
<1>2. ASSUME NEW i \in Jobs, RequeueStalled(i) PROVE job'[j].state = "failed"
  <2>. PICK no \in {FALSE} :
         \/ job' = [job EXCEPT ![i].state = "waiting", ![i].stalls = @ + 1]
         \/ FailAttempt(i, no)
    BY <1>2, Zenon DEF RequeueStalled
  <2>. job[i].state = "orphaned"
    BY <1>2 DEF RequeueStalled
  <2>. QED BY <1>1 DEF Live
<1>3. ASSUME NEW i \in Jobs, ProcessJob(i) \/ BackoffElapses(i) PROVE job'[j].state = "failed"
  BY <1>1, <1>3
  DEF ProcessJob, BackoffElapses, TakeJob, EndpointInactive, Post, PostRefused, PostTimesOut,
      PostAccepted, RecordSuccess, CompleteJob, Move, Live, Running
<1>4. ASSUME NEW i \in Jobs, RecordFails(i) \/ Handle(i) \/ HandleFails(i)
      PROVE  job'[j].state = "failed"
  BY <1>1, <1>4
  DEF RecordFails, Handle, HandleFails, MarkFailed, MarkFails, MoveToDLQ, MoveToDLQFails,
      Live, Running
<1>5. ASSUME NEW d \in Deliveries, QueueDelivery(d) \/ AddJob(d) \/ AddFails(d)
      PROVE  job'[j].state = "failed"
  BY <1>5 DEF QueueDelivery, AddJob, AddFails, Add
<1>6. ASSUME NEW r \in Replayers, ReplayAdd(r) \/ ReplayDiscard(r) \/ ReplayFails(r)
      PROVE  job'[j].state = "failed"
  BY <1>6 DEF ReplayAdd, ReplayDiscard, ReplayFails, Add
<1>7. ASSUME NEW r \in Replayers, NEW x \in dlq, ReplayRead(r, x)
      PROVE  job'[j].state = "failed"
  BY <1>7 DEF ReplayRead
<1>8. ASSUME NEW x \in dlq, Discard(x) PROVE job'[j].state = "failed"
  BY <1>8 DEF Discard
<1>9. ASSUME Crash PROVE job'[j].state = "failed"
  BY <1>9 DEF Crash, Running
<1>10. CASE UNCHANGED vars
  BY <1>10 DEF vars
<1>. QED
  BY <1>2, <1>3, <1>4, <1>5, <1>6, <1>7, <1>8, <1>9, <1>10 DEF Next

\* A step that writes no report and only moves reports on keeps ReportInv.
LEMMA ReportsMoveOn ==
  ASSUME TypeOK, TypeOK', JobInv, ReportInv, [Next]_vars,
         \A h \in handlers' : \E g \in handlers : g[1] = h[1],
         \A x \in dlq' : x \in dlq \/ \E g \in handlers : g[1] = x[1]
  PROVE  ReportInv'
<1>1. \A j \in Jobs : job[j].state = "failed" => job'[j].state = "failed"
  BY FailedStays
<1>2. /\ \A h \in handlers \cup handlers' : h[1] \in Jobs
      /\ \A x \in dlq \cup dlq' : x[1] \in Jobs
  BY DEF TypeOK
<1>. QED BY <1>1, <1>2 DEF ReportInv

LEMMA ReportsStep ==
  ASSUME Attempts <= DeadLetterAt, ReplayAttempts <= DeadLetterAt,
         TypeOK, JobInv, ReportInv, [Next]_vars
  PROVE  ReportInv'
<1>. TypeOK'
  BY TypeInductive
<1>1. ASSUME handlers' \in SUBSET handlers, dlq' \in SUBSET dlq PROVE ReportInv'
  BY <1>1, ReportsMoveOn
<1>2. ASSUME NEW j \in Jobs, job[j].state \in Live, UNCHANGED dlq,
             NEW retried \in BOOLEAN, FailAttempt(j, retried)
      PROVE  ReportInv'
  BY <1>2, ReportedIsOver
<1>3. ASSUME NEW j \in Jobs, RequeueStalled(j) PROVE ReportInv'
  <2>. PICK no \in {FALSE} : UNCHANGED handlers \/ FailAttempt(j, no)
    BY <1>3, Zenon DEF RequeueStalled
  <2>. job[j].state = "orphaned" /\ UNCHANGED dlq
    BY <1>3 DEF RequeueStalled
  <2>. QED BY <1>1, <1>2 DEF Live
<1>4. ASSUME NEW j \in Jobs, ProcessJob(j) \/ BackoffElapses(j) \/ RecordFails(j)
      PROVE  ReportInv'
  BY <1>1, <1>2, <1>4
  DEF ProcessJob, BackoffElapses, TakeJob, EndpointInactive, Post, PostRefused, PostTimesOut,
      PostAccepted, RecordSuccess, CompleteJob, RecordFails, Move, Live, Running
<1>5. ASSUME NEW j \in Jobs, Handle(j) \/ HandleFails(j) PROVE ReportInv'
  <2>. PICK made \in MadeCounts : \/ MarkFailed(j, made) \/ MoveToDLQ(j, made)
                                  \/ MarkFails(j, made) \/ MoveToDLQFails(j, made)
    BY <1>5 DEF Handle, HandleFails
  <2>. QED
    BY ReportsMoveOn DEF MarkFailed, MoveToDLQ, MarkFails, MoveToDLQFails
<1>6. ASSUME NEW d \in Deliveries, QueueDelivery(d) \/ AddJob(d) \/ AddFails(d)
      PROVE  ReportInv'
  BY <1>1, <1>6 DEF QueueDelivery, AddJob, AddFails
<1>7. ASSUME NEW r \in Replayers, ReplayAdd(r) \/ ReplayDiscard(r) \/ ReplayFails(r)
      PROVE  ReportInv'
  BY <1>1, <1>7 DEF ReplayAdd, ReplayDiscard, ReplayFails
<1>8. ASSUME NEW r \in Replayers, NEW x \in dlq, ReplayRead(r, x) PROVE ReportInv'
  BY <1>1, <1>8 DEF ReplayRead
<1>9. ASSUME NEW x \in dlq, Discard(x) PROVE ReportInv'
  BY <1>1, <1>9 DEF Discard
<1>10. ASSUME Crash PROVE ReportInv'
  BY <1>1, <1>10 DEF Crash
<1>11. CASE UNCHANGED vars
  BY <1>1, <1>11 DEF vars
<1>. QED
  BY <1>3, <1>4, <1>5, <1>6, <1>7, <1>8, <1>9, <1>10, <1>11 DEF Next

\* Where the handler acts on nothing but the last attempt, as it does for
\* webhooks and not for notifications, a dead letter is never written for a job
\* that is retried by itself.
THEOREM DeliveryDeadLetterIsFinal ==
  ASSUME Attempts <= DeadLetterAt, ReplayAttempts <= DeadLetterAt
  PROVE  Spec => []DeadLetterIsFinal
<1>1. Init => ReportInv
  BY DEF Init, ReportInv
<1>2. ReportInv => DeadLetterIsFinal
  BY DEF ReportInv, DeadLetterIsFinal
<1>3. TypeOK /\ JobInv /\ [Next]_vars => JobInv'
  BY JobsStep
<1>4. TypeOK /\ JobInv /\ ReportInv /\ [Next]_vars => ReportInv'
  BY ReportsStep
<1>. QED
  BY <1>1, <1>2, <1>3, <1>4, InitJobs, DeliveryTypeCorrect, PTL DEF Spec

-----------------------------------------------------------------------------
(* No delivery is lost *)

First(d) == <<d, 1>>

Reported(j) == (\E h \in handlers : h[1] = j) \/ (\E x \in dlq : x[1] = j)

\* A delivery asked for has its first job or is about to get it; when that job
\* has failed, the handler, a dead letter or a replay has taken over.
LossInv ==
  /\ \A d \in Deliveries :
       /\ record[d] # "absent" =>
            d \in adding \/ d \in dropped \/ job[First(d)].state # "none"
       /\ job[First(d)].state = "failed" =>
            Replayed(d) \/ d \in dropped \/ Reported(First(d))
       /\ job[First(d)].state # "none" => job[First(d)].attempts = Attempts
       /\ Replayed(d) => job[First(d)].state # "none"
  /\ \A j \in Jobs : Reported(j) => job[j].state # "none"
  /\ \A r \in Replayers :
       /\ replaying[r].step # "read" => replaying[r].entry \in Jobs \X Nat
       /\ replaying[r].step = "discard" =>
            \E d \in Deliveries : Replayed(d) /\ Subject(replaying[r].entry) = d

\* What a step does that adds no job: whoever lets go of a delivery hands it on
\* or drops it.
HandsOn ==
  /\ \A j \in Jobs :
       /\ job'[j].state = "none" <=> job[j].state = "none"
       /\ job'[j].attempts = job[j].attempts
       /\ job'[j].state = "failed" =>
            job[j].state = "failed" \/ Reported(j)' \/ j[1] \in dropped' \/ j # First(j[1])
       /\ Reported(j) => Reported(j)' \/ j[1] \in dropped' \/ Replayed(j[1])
       /\ Reported(j)' => Reported(j) \/ job[j].state # "none"
  /\ \A d \in Deliveries :
       /\ d \in adding => d \in adding' \/ d \in dropped'
       /\ d \in dropped => d \in dropped'
       /\ record'[d] # "absent" =>
            record[d] # "absent" \/ d \in adding' \/ \E j \in Jobs : j[1] = d /\ job[j].state # "none"
  /\ \A r \in Replayers :
       /\ replaying'[r].step # "read" => replaying'[r].entry \in Jobs \X Nat
       /\ replaying'[r].step = "discard" => replaying'[r] = replaying[r]

LEMMA FirstIsJob == \A d \in Deliveries : First(d) \in Jobs
  BY DeliveryAssumption DEF First, Jobs

LEMMA ReplayedAlike ==
  ASSUME \A j \in Jobs : job'[j].state = "none" <=> job[j].state = "none", NEW d \in Deliveries
  PROVE  Replayed(d)' <=> Replayed(d)
<1>1. \A n \in 2 .. MaxJobs : <<d, n>> \in Jobs
  BY DeliveryAssumption DEF Jobs
<1>. QED BY <1>1 DEF Replayed

LEMMA HandsOnKeeps == ASSUME TypeOK, LossInv, HandsOn PROVE LossInv'
<1>. USE FirstIsJob
<1>1. \A d \in Deliveries : Replayed(d)' <=> Replayed(d)
  BY ReplayedAlike DEF HandsOn
<1>2. ASSUME NEW d \in Deliveries, NEW j \in Jobs, j[1] = d, job[j].state # "none"
      PROVE  job[First(d)].state # "none"
  <2>1. PICK n \in 1 .. MaxJobs : j = <<d, n>>
    BY <1>2 DEF Jobs
  <2>2. CASE n = 1
    BY <1>2, <2>1, <2>2 DEF First
  <2>3. CASE n # 1
    <3>. n \in 2 .. MaxJobs
      BY <2>3, DeliveryAssumption
    <3>. Replayed(d)
      BY <1>2, <2>1 DEF Replayed
    <3>. QED BY DEF LossInv
  <2>. QED BY <2>2, <2>3
<1>3. ASSUME NEW d \in Deliveries, record'[d] # "absent"
      PROVE  d \in adding' \/ d \in dropped' \/ job'[First(d)].state # "none"
  BY <1>2, <1>3 DEF HandsOn, LossInv
<1>4. ASSUME NEW d \in Deliveries, job'[First(d)].state = "failed"
      PROVE  Replayed(d)' \/ d \in dropped' \/ Reported(First(d))'
  <2>. First(d)[1] = d
    BY DEF First
  <2>. QED BY <1>1, <1>4 DEF HandsOn, LossInv
<1>5. \A d \in Deliveries :
        /\ job'[First(d)].state # "none" => job'[First(d)].attempts = Attempts
        /\ Replayed(d)' => job'[First(d)].state # "none"
  BY <1>1 DEF HandsOn, LossInv
<1>6. \A j \in Jobs : Reported(j)' => job'[j].state # "none"
  BY DEF HandsOn, LossInv
<1>7. \A r \in Replayers :
        /\ replaying'[r].step # "read" => replaying'[r].entry \in Jobs \X Nat
        /\ replaying'[r].step = "discard" =>
             \E d \in Deliveries : Replayed(d)' /\ Subject(replaying'[r].entry) = d
  BY <1>1 DEF HandsOn, LossInv
<1>. QED BY <1>3, <1>4, <1>5, <1>6, <1>7 DEF LossInv

\* A failed attempt is retried, reported or dropped.
LEMMA FailHandsOn ==
  ASSUME TypeOK, LossInv, NEW j \in Jobs, job[j].state \in Live,
         NEW retried \in BOOLEAN, FailAttempt(j, retried),
         UNCHANGED <<record, adding, dlq, replaying>>, dropped \in SUBSET dropped',
         job'[j].state = "failed" =>
           Reported(j)' \/ j[1] \in dropped' \/ j # First(j[1])
  PROVE  HandsOn
<1>1. job[j].state # "none"
  BY DEF Live, Running
<1>2. /\ job'[j].state # "none" /\ job'[j].attempts = job[j].attempts
      /\ \A i \in Jobs \ {j} : job'[i] = job[i]
  BY DEF FailAttempt, TypeOK, Job
<1>3. /\ \A i \in Jobs : Reported(i) => Reported(i)'
      /\ \A i \in Jobs : Reported(i)' => Reported(i) \/ i = j
  BY DEF Reported, FailAttempt, Report
<1>. QED BY <1>1, <1>2, <1>3 DEF HandsOn, LossInv

\* Of a first job the last attempt is reported, when DeadLetterAt is reached by then.
LEMMA LastIsReported ==
  ASSUME DeadLetterAt <= Attempts, TypeOK, JobInv, LossInv,
         NEW j \in Jobs, job[j].state \in Live, FailAttempt(j, TRUE),
         job'[j].state = "failed", j = First(j[1])
  PROVE  Reported(j)'
<1>. DEFINE made == job[j].attemptsMade + 1
<1>1. j[1] \in Deliveries /\ job[j].state # "none"
  BY DEF Jobs, Live, Running
<1>2. job[j].attempts = Attempts
  BY <1>1 DEF LossInv
<1>3. made \in Nat /\ ~(made < DeadLetterAt)
  BY <1>2, DeliveryAssumption DEF FailAttempt, TypeOK, Job
<1>4. \E s \in {"mark", "bury"} : <<j, made, s>> \in handlers'
  BY <1>3 DEF FailAttempt, Report
<1>. QED BY <1>4 DEF Reported

\* A step that leaves the jobs' progress alone and hands on what it lets go.
LEMMA LetGoHandsOn ==
  ASSUME \A i \in Jobs : /\ job'[i].state = "none" <=> job[i].state = "none"
                         /\ job'[i].attempts = job[i].attempts
                         /\ job'[i].state = "failed" => job[i].state = "failed",
         \A i \in Jobs : Reported(i)' => Reported(i),
         \A i \in Jobs : Reported(i) => Reported(i)' \/ i[1] \in dropped' \/ Replayed(i[1]),
         dropped \in SUBSET dropped', adding \in SUBSET (adding' \cup dropped'),
         UNCHANGED record,
         \A r \in Replayers : replaying'[r] = replaying[r] \/ replaying'[r] = Idle,
         LossInv
  PROVE  HandsOn
<1>1. \A r \in Replayers :
        /\ replaying'[r].step # "read" => replaying'[r].entry \in Jobs \X Nat
        /\ replaying'[r].step = "discard" => replaying'[r] = replaying[r]
  BY DEF LossInv, Idle
<1>2. ASSUME NEW d \in Deliveries
      PROVE  /\ d \in adding => d \in adding' \/ d \in dropped'
             /\ d \in dropped => d \in dropped'
             /\ record'[d] # "absent" => record[d] # "absent"
  OBVIOUS
<1>3. ASSUME NEW j \in Jobs
      PROVE  /\ job'[j].state = "none" <=> job[j].state = "none"
             /\ job'[j].attempts = job[j].attempts
             /\ job'[j].state = "failed" =>
                  job[j].state = "failed" \/ Reported(j)' \/ j[1] \in dropped' \/ j # First(j[1])
             /\ Reported(j) => Reported(j)' \/ j[1] \in dropped' \/ Replayed(j[1])
             /\ Reported(j)' => Reported(j) \/ job[j].state # "none"
  OBVIOUS
<1>. QED BY <1>1, <1>2, <1>3 DEF HandsOn

LEMMA HandsOnStep ==
  ASSUME DeadLetterAt <= Attempts, TypeOK, JobInv, LossInv, [Next]_vars
  PROVE  HandsOn \/ (\E d \in Deliveries : AddJob(d)) \/ (\E r \in Replayers : ReplayAdd(r))
<1>1. ASSUME UNCHANGED <<record, adding, handlers, dlq, replaying, dropped>>,
             NEW j \in Jobs, job[j].state # "none", job'[j].state \notin {"none", "failed"},
             job'[j].attempts = job[j].attempts, \A i \in Jobs \ {j} : job'[i] = job[i]
      PROVE  HandsOn
  <2>. \A i \in Jobs : Reported(i)' <=> Reported(i)
    BY <1>1 DEF Reported
  <2>. QED BY <1>1 DEF HandsOn, LossInv
<1>2. ASSUME NEW j \in Jobs, job[j].state \in Live, FailAttempt(j, TRUE),
             UNCHANGED <<record, adding, dlq, replaying, dropped>>
      PROVE  HandsOn
  BY <1>2, LastIsReported, FailHandsOn
<1>3. ASSUME NEW j \in Jobs,
             EndpointInactive(j) \/ PostRefused(j) \/ PostTimesOut(j) \/ RecordFails(j)
      PROVE  HandsOn
  <2>. /\ job[j].state \in {"started", "sent", "accepted"}
       /\ UNCHANGED <<record, adding, dlq, replaying, dropped>>
    BY <1>3 DEF EndpointInactive, PostRefused, PostTimesOut, RecordFails
  <2>. FailAttempt(j, TRUE)
    BY <1>3, Zenon DEF EndpointInactive, PostRefused, PostTimesOut, RecordFails
  <2>. QED BY <1>2 DEF Live, Running
<1>4. ASSUME NEW j \in Jobs, RequeueStalled(j) PROVE HandsOn
  <2>. PICK no \in {FALSE} :
         \/ /\ job' = [job EXCEPT ![j].state = "waiting", ![j].stalls = @ + 1]
            /\ UNCHANGED <<handlers, dropped>>
         \/ /\ FailAttempt(j, no)
            /\ dropped' = IF handlers' = handlers THEN dropped \cup {j[1]} ELSE dropped
    BY <1>4, Zenon DEF RequeueStalled
  <2>. job[j].state = "orphaned" /\ UNCHANGED <<record, adding, dlq, replaying>>
    BY <1>4 DEF RequeueStalled
  <2>1. CASE /\ job' = [job EXCEPT ![j].state = "waiting", ![j].stalls = @ + 1]
             /\ UNCHANGED <<handlers, dropped>>
    BY <1>1, <2>1 DEF TypeOK, Job
  <2>2. CASE /\ FailAttempt(j, no)
             /\ dropped' = IF handlers' = handlers THEN dropped \cup {j[1]} ELSE dropped
    <3>1. handlers' = handlers \/ Reported(j)'
      BY <2>2 DEF FailAttempt, Report, Reported
    <3>. QED BY <2>2, <3>1, FailHandsOn DEF Live
  <2>. QED BY <2>1, <2>2
<1>5. ASSUME NEW j \in Jobs, BackoffElapses(j) \/ TakeJob(j) \/ Post(j) \/ PostAccepted(j)
                             \/ CompleteJob(j)
      PROVE  HandsOn
  BY <1>1, <1>5
  DEF BackoffElapses, TakeJob, Post, PostAccepted, CompleteJob, Move, TypeOK, Job
<1>6. ASSUME NEW j \in Jobs, RecordSuccess(j) PROVE HandsOn
  <2>. \A i \in Jobs : Reported(i)' <=> Reported(i)
    BY <1>6 DEF Reported, RecordSuccess
  <2>. QED BY <1>6 DEF HandsOn, LossInv, RecordSuccess, Move, TypeOK, Job, Jobs
<1>7. ASSUME NEW j \in Jobs, Handle(j) \/ HandleFails(j) PROVE HandsOn
  <2>. PICK made \in MadeCounts : \/ MarkFailed(j, made) \/ MoveToDLQ(j, made)
                                  \/ MarkFails(j, made) \/ MoveToDLQFails(j, made)
    BY <1>7 DEF Handle, HandleFails
  <2>1. CASE MarkFailed(j, made) \/ MarkFails(j, made)
    <3>. DEFINE mark == <<j, made, "mark">>
                bury == <<j, made, "bury">>
    <3>. mark \in handlers /\ handlers' = (handlers \ {mark}) \cup {bury} /\ dlq' = dlq
      BY <2>1 DEF MarkFailed, MarkFails
    <3>. mark[1] = j /\ bury[1] = j
      OBVIOUS
    <3>. HIDE DEF mark, bury
    <3>1. \A i \in Jobs : Reported(i)' <=> Reported(i)
      BY DEF Reported
    <3>2. job[j].state # "none"
      BY <2>1 DEF MarkFailed, MarkFails, Reported, LossInv
    <3>. QED
      BY <2>1, <3>1, <3>2 DEF MarkFailed, MarkFails, HandsOn, LossInv, TypeOK, Jobs
  <2>2. CASE MoveToDLQ(j, made)
    <3>. DEFINE bury == <<j, made, "bury">>
                letter == <<j, made>>
    <3>. bury \in handlers /\ handlers' = handlers \ {bury} /\ dlq' = dlq \cup {letter}
      BY <2>2 DEF MoveToDLQ
    <3>. bury[1] = j /\ letter[1] = j
      OBVIOUS
    <3>. HIDE DEF bury, letter
    <3>1. \A i \in Jobs : Reported(i)' <=> Reported(i)
      BY DEF Reported
    <3>. QED BY <2>2, <3>1 DEF MoveToDLQ, HandsOn, LossInv
  <2>3. CASE MoveToDLQFails(j, made)
    <3>1. \A i \in Jobs : /\ Reported(i)' => Reported(i)
                          /\ Reported(i) => Reported(i)' \/ i[1] \in dropped'
      BY <2>3 DEF MoveToDLQFails, Reported
    <3>. QED BY <2>3, <3>1, LetGoHandsOn DEF MoveToDLQFails
  <2>. QED BY <2>1, <2>2, <2>3
<1>8. ASSUME NEW d \in Deliveries, QueueDelivery(d) \/ AddFails(d) PROVE HandsOn
  <2>. \A i \in Jobs : Reported(i)' <=> Reported(i)
    BY <1>8 DEF Reported, QueueDelivery, AddFails
  <2>. QED BY <1>8 DEF HandsOn, LossInv, QueueDelivery, AddFails, TypeOK
<1>9. ASSUME NEW r \in Replayers, ReplayFails(r) PROVE HandsOn
  <2>. \A i \in Jobs : Reported(i)' <=> Reported(i)
    BY <1>9 DEF Reported, ReplayFails
  <2>. QED BY <1>9 DEF HandsOn, LossInv, ReplayFails, Idle, TypeOK
<1>10. ASSUME NEW r \in Replayers, ReplayDiscard(r) PROVE HandsOn
  <2>1. Replayed(replaying[r].entry[1][1])
    BY <1>10 DEF ReplayDiscard, LossInv, Subject
  <2>2. \A i \in Jobs : /\ Reported(i)' => Reported(i)
                        /\ Reported(i) => Reported(i)' \/ i = replaying[r].entry[1]
    BY <1>10 DEF ReplayDiscard, Reported
  <2>3. \A q \in Replayers : replaying'[q] = replaying[q] \/ replaying'[q] = Idle
    BY <1>10 DEF ReplayDiscard, TypeOK
  <2>. QED BY <1>10, <2>1, <2>2, <2>3, LetGoHandsOn DEF ReplayDiscard
<1>11. ASSUME NEW r \in Replayers, NEW x \in dlq, ReplayRead(r, x) PROVE HandsOn
  <2>. \A i \in Jobs : Reported(i)' <=> Reported(i)
    BY <1>11 DEF Reported, ReplayRead
  <2>. QED BY <1>11 DEF HandsOn, LossInv, ReplayRead, TypeOK
<1>12. ASSUME NEW x \in dlq, Discard(x) PROVE HandsOn
  <2>. \A i \in Jobs : /\ Reported(i)' => Reported(i)
                       /\ Reported(i) => Reported(i)' \/ i[1] \in dropped'
    BY <1>12 DEF Reported, Discard, Subject
  <2>. QED BY <1>12, LetGoHandsOn DEF Discard
<1>13. ASSUME Crash PROVE HandsOn
  <2>1. \A i \in Jobs : /\ Reported(i)' => Reported(i)
                        /\ Reported(i) => Reported(i)' \/ i[1] \in dropped'
    BY <1>13 DEF Reported, Crash
  <2>2. \A i \in Jobs : /\ job'[i].state = "none" <=> job[i].state = "none"
                        /\ job'[i].attempts = job[i].attempts
                        /\ job'[i].state = "failed" => job[i].state = "failed"
    BY <1>13 DEF Crash, TypeOK, Job, Running
  <2>. QED BY <1>13, <2>1, <2>2, LetGoHandsOn DEF Crash
<1>14. CASE UNCHANGED vars
  <2>. \A i \in Jobs : Reported(i)' <=> Reported(i)
    BY <1>14 DEF Reported, vars
  <2>. QED BY <1>14 DEF HandsOn, LossInv, vars
<1>. QED
  BY <1>3, <1>4, <1>5, <1>6, <1>7, <1>8, <1>9, <1>10, <1>11, <1>12, <1>13, <1>14
  DEF Next, ProcessJob

LEMMA AddJobKeeps ==
  ASSUME TypeOK, LossInv, NEW d \in Deliveries, AddJob(d)
  PROVE  LossInv'
<1>. USE DeliveryAssumption, FirstIsJob
<1>. DEFINE added == NewJob(Attempts)
<1>1. /\ job' = [job EXCEPT ![First(d)] = added]
      /\ job[First(d)].state = "none"
      /\ adding' = adding \ {d}
      /\ UNCHANGED <<record, handlers, dlq, replaying, dropped>>
  BY DEF AddJob, Add, First
<1>2. added.state = "waiting" /\ added.attempts = Attempts
  BY DEF NewJob
<1>. HIDE DEF added
<1>3. /\ job'[First(d)] = added
      /\ \A i \in Jobs \ {First(d)} : job'[i] = job[i]
  BY <1>1 DEF TypeOK
<1>4. \A e \in Deliveries : Replayed(e)' <=> Replayed(e)
  <2>. \A e \in Deliveries, n \in 2 .. MaxJobs : <<e, n>> \in Jobs \ {First(d)}
    BY DEF Jobs, First
  <2>. QED BY <1>3 DEF Replayed
<1>5. \A i \in Jobs : Reported(i)' <=> Reported(i)
  BY <1>1 DEF Reported
<1>6. \A e \in Deliveries \ {d} : First(e) \in Jobs \ {First(d)}
  BY DEF First
<1>7. ASSUME NEW e \in Deliveries
      PROVE  /\ record'[e] # "absent" =>
                  e \in adding' \/ e \in dropped' \/ job'[First(e)].state # "none"
             /\ job'[First(e)].state = "failed" =>
                  Replayed(e)' \/ e \in dropped' \/ Reported(First(e))'
             /\ job'[First(e)].state # "none" => job'[First(e)].attempts = Attempts
             /\ Replayed(e)' => job'[First(e)].state # "none"
  <2>1. CASE e = d
    BY <1>2, <1>3, <2>1
  <2>2. CASE e # d
    BY <1>1, <1>3, <1>4, <1>5, <1>6, <2>2 DEF LossInv
  <2>. QED BY <2>1, <2>2
<1>8. \A j \in Jobs : Reported(j)' => job'[j].state # "none"
  BY <1>2, <1>3, <1>5 DEF LossInv
<1>9. \A r \in Replayers :
        /\ replaying'[r].step # "read" => replaying'[r].entry \in Jobs \X Nat
        /\ replaying'[r].step = "discard" =>
             \E e \in Deliveries : Replayed(e)' /\ Subject(replaying'[r].entry) = e
  BY <1>1, <1>4 DEF LossInv
<1>. QED BY <1>7, <1>8, <1>9 DEF LossInv

LEMMA ReplayAddKeeps ==
  ASSUME TypeOK, LossInv, NEW r \in Replayers, ReplayAdd(r)
  PROVE  LossInv'
<1>. USE DeliveryAssumption, FirstIsJob
<1>. DEFINE added == NewJob(ReplayAttempts)
<1>0. /\ replaying[r].entry \in Jobs \X Nat
      /\ Subject(replaying[r].entry) \in Deliveries
  BY DEF ReplayAdd, LossInv, Subject, Jobs
<1>. PICK d \in Deliveries : d = Subject(replaying[r].entry)
  BY <1>0
<1>1. PICK n \in 2 .. MaxJobs : /\ job[<<d, n - 1>>].state # "none"
                                /\ job' = [job EXCEPT ![<<d, n>>] = added]
  BY DEF ReplayAdd, Add
<1>2. /\ replaying' = [replaying EXCEPT ![r].step = "discard"]
      /\ replaying[r].step = "add"
      /\ UNCHANGED <<record, adding, handlers, dlq, dropped>>
  BY DEF ReplayAdd
<1>4. added.state = "waiting"
  BY DEF NewJob
<1>. HIDE DEF added
<1>5. /\ <<d, n>> \in Jobs
      /\ job'[<<d, n>>].state # "none"
      /\ \A i \in Jobs \ {<<d, n>>} : job'[i] = job[i]
  BY <1>1, <1>4 DEF TypeOK, Jobs
<1>6. \A i \in Jobs : job[i].state # "none" => job'[i].state # "none"
  BY <1>5
<1>7. Replayed(d)' /\ job[First(d)].state # "none"
  <2>1. Replayed(d)'
    BY <1>5 DEF Replayed
  <2>2. CASE n = 2
    <3>. <<d, n - 1>> = First(d)
      BY <2>2 DEF First
    <3>. QED BY <1>1, <2>1
  <2>3. CASE n # 2
    <3>. n - 1 \in 2 .. MaxJobs
      BY <2>3
    <3>. Replayed(d)
      BY <1>1 DEF Replayed
    <3>. QED BY <2>1 DEF LossInv
  <2>. QED BY <2>1, <2>2, <2>3
<1>8. \A e \in Deliveries : Replayed(e) => Replayed(e)'
  <2>. \A e \in Deliveries, m \in 2 .. MaxJobs : <<e, m>> \in Jobs
    BY DEF Jobs
  <2>. QED BY <1>6 DEF Replayed
<1>9. \A e \in Deliveries : Replayed(e)' => Replayed(e) \/ e = d
  <2>. SUFFICES ASSUME NEW e \in Deliveries, e # d PROVE Replayed(e)' => Replayed(e)
    OBVIOUS
  <2>. \A m \in 2 .. MaxJobs : <<e, m>> \in Jobs /\ <<e, m>> # <<d, n>>
    BY DEF Jobs
  <2>. QED BY <1>5 DEF Replayed
<1>10. \A i \in Jobs : Reported(i)' <=> Reported(i)
  BY <1>2 DEF Reported
<1>11. \A e \in Deliveries : job'[First(e)] = job[First(e)]
  <2>. n # 1
    OBVIOUS
  <2>. \A e \in Deliveries : First(e) # <<d, n>>
    BY DEF First
  <2>. QED BY <1>5
<1>12. ASSUME NEW e \in Deliveries
       PROVE  /\ record'[e] # "absent" =>
                   e \in adding' \/ e \in dropped' \/ job'[First(e)].state # "none"
              /\ job'[First(e)].state = "failed" =>
                   Replayed(e)' \/ e \in dropped' \/ Reported(First(e))'
              /\ job'[First(e)].state # "none" => job'[First(e)].attempts = Attempts
              /\ Replayed(e)' => job'[First(e)].state # "none"
  BY <1>2, <1>7, <1>8, <1>9, <1>10, <1>11 DEF LossInv
<1>13. \A j \in Jobs : Reported(j)' => job'[j].state # "none"
  BY <1>6, <1>10 DEF LossInv
<1>14. ASSUME NEW q \in Replayers
       PROVE  /\ replaying'[q].step # "read" => replaying'[q].entry \in Jobs \X Nat
              /\ replaying'[q].step = "discard" =>
                   \E e \in Deliveries : Replayed(e)' /\ Subject(replaying'[q].entry) = e
  <2>1. CASE q = r
    <3>. replaying'[q].entry = replaying[r].entry
      BY <1>2, <2>1 DEF TypeOK
    <3>1. Subject(replaying'[q].entry) = d
      OBVIOUS
    <3>. QED BY <1>0, <1>7, <3>1
  <2>2. CASE q # r
    <3>. replaying'[q] = replaying[q]
      BY <1>2, <2>2 DEF TypeOK
    <3>. QED BY <1>8 DEF LossInv
  <2>. QED BY <2>1, <2>2
<1>. QED BY <1>12, <1>13, <1>14 DEF LossInv

\* For any numbers of retries, stalls, crashes and replays: a delivery that was
\* asked for, and was not replayed, is in hand, completed, a dead letter, or was
\* dropped by one of the known causes, when the handler acts by the last attempt.
THEOREM DeliveryNothingLost ==
  ASSUME DeadLetterAt <= Attempts
  PROVE  Spec => []NothingLost
<1>1. ASSUME Init PROVE LossInv
  <2>1. \A j \in Jobs : job[j].state = "none" /\ ~Reported(j)
    BY <1>1 DEF Init, NoJob, Reported
  <2>2. \A d \in Deliveries : ~Replayed(d)
    <3>. \A d \in Deliveries, n \in 2 .. MaxJobs : <<d, n>> \in Jobs
      BY DeliveryAssumption DEF Jobs
    <3>. QED BY <2>1 DEF Replayed
  <2>3. \A d \in Deliveries : record[d] = "absent"
    BY <1>1 DEF Init
  <2>4. \A r \in Replayers : replaying[r].step = "read"
    BY <1>1 DEF Init, Idle
  <2>. QED BY <2>1, <2>2, <2>3, <2>4, FirstIsJob DEF LossInv
<1>2. TypeOK /\ JobInv /\ LossInv /\ [Next]_vars => LossInv'
  BY HandsOnStep, HandsOnKeeps, AddJobKeeps, ReplayAddKeeps
<1>3. TypeOK /\ LossInv => NothingLost
  <2>. SUFFICES ASSUME TypeOK, LossInv, NEW d \in Deliveries, ~Replayed(d),
                       record[d] # "absent", d \notin dropped, d \notin adding
                PROVE  InHand(d) \/ Completed(d) \/ HasDeadLetter(d)
    BY DEF NothingLost, Accounted, InHand
  <2>1. First(d) \in Jobs /\ First(d)[1] = d /\ job[First(d)].state # "none"
    BY FirstIsJob DEF First, LossInv
  <2>2. CASE job[First(d)].state \in Live
    BY <2>1, <2>2 DEF InHand
  <2>3. CASE job[First(d)].state = "completed"
    BY <2>1, <2>3 DEF Completed
  <2>4. CASE job[First(d)].state = "failed"
    BY <2>1, <2>4 DEF LossInv, Reported, InHand, HasDeadLetter, Subject
  <2>. QED
    BY <2>1, <2>2, <2>3, <2>4 DEF TypeOK, Job
<1>4. TypeOK /\ JobInv /\ [Next]_vars => JobInv'
  BY JobsStep
<1>. QED
  BY <1>1, <1>2, <1>3, <1>4, InitJobs, DeliveryTypeCorrect, PTL DEF Spec


-----------------------------------------------------------------------------
(* A success is final                                                      *)
(*                                                                         *)
(* Only the handler of the last failure writes "failed", and a delivery    *)
(* that is made again, by a replay, has that write behind it: the entry    *)
(* replay works on is inserted after it.                                   *)

Marking(d) == \E h \in handlers : h[1][1] = d /\ h[3] = "mark"

Burying(d) == \E h \in handlers : h[1][1] = d /\ h[3] = "bury"

Replaying(d) ==
  \E r \in Replayers : replaying[r].entry # NoEntry /\ Subject(replaying[r].entry) = d

\* The handler has written what it writes about the delivery's row.
Past(d) == Burying(d) \/ HasDeadLetter(d) \/ Replaying(d) \/ Replayed(d)

\* No job of the delivery has stalled.
Smooth(d) == \A j \in Jobs : j[1] = d => job[j].stalls = 0

\* Only the first job of a delivery is reported, once, when it has failed.
ReportedOnce ==
  /\ \A h \in handlers : h[1] = First(h[1][1]) /\ job[h[1]].state = "failed"
  /\ \A g, h \in handlers : g[1] = h[1] => g = h
  /\ \A j \in Jobs : j[2] # 1 /\ job[j].state # "none" => job[j].attempts = ReplayAttempts

PastIsOver ==
  /\ \A r \in Replayers : replaying[r].step = "add" => replaying[r].entry # NoEntry
  /\ \A d \in Deliveries : Past(d) => job[First(d)].state = "failed" /\ ~Marking(d)

\* The first job of a delivery that is recorded as a success will not fail.
Decided == {"recorded", "completed", "orphaned", "failed"}

SuccessKept ==
  \A d \in Deliveries : record[d] = "success" /\ Smooth(d) =>
    ~Marking(d) /\ job[First(d)].state \in Decided

MarkInv == ReportedOnce /\ PastIsOver /\ SuccessKept

\* What a step must not do unless it is the one that reports, marks or records.
LEMMA MarksStay ==
  ASSUME TypeOK, TypeOK', MarkInv, handlers' \subseteq handlers,
         \A d \in Deliveries : Past(d)' => Past(d),
         \A r \in Replayers : replaying'[r].step = "add" => replaying'[r].entry # NoEntry,
         \A d \in Deliveries : record'[d] = "success" => record[d] = "success",
         \A j \in Jobs : job[j].state = "failed" => job'[j].state = "failed",
         \A j \in Jobs : j[2] # 1 /\ job'[j].state # "none" =>
           job'[j].attempts = ReplayAttempts
             \/ (job[j].state # "none" /\ job'[j].attempts = job[j].attempts),
         \A j \in Jobs : job'[j].stalls = 0 =>
           job[j].stalls = 0 /\ (job[j].state \in Decided => job'[j].state \in Decided)
  PROVE  MarkInv'
<1>1. \A h \in handlers : h[1] \in Jobs /\ h[1][1] \in Deliveries
  BY DEF TypeOK, Jobs
<1>2. \A d \in Deliveries : First(d) \in Jobs /\ First(d)[1] = d
  BY DeliveryAssumption DEF First, Jobs
<1>3. ReportedOnce'
  BY <1>1 DEF MarkInv, ReportedOnce
<1>4. \A d \in Deliveries : Marking(d)' => Marking(d)
  BY DEF Marking
<1>5. PastIsOver'
  BY <1>2, <1>4 DEF MarkInv, PastIsOver
<1>6. ASSUME NEW d \in Deliveries, record'[d] = "success", Smooth(d)'
      PROVE  ~Marking(d)' /\ job'[First(d)].state \in Decided
  <2>1. Smooth(d) /\ job'[First(d)].stalls = 0
    BY <1>2, <1>6 DEF Smooth
  <2>2. ~Marking(d) /\ job[First(d)].state \in Decided
    BY <1>6, <2>1 DEF MarkInv, SuccessKept
  <2> QED BY <1>2, <1>4, <2>1, <2>2
<1>7. SuccessKept'
  BY <1>6 DEF SuccessKept
<1> QED BY <1>3, <1>5, <1>7 DEF MarkInv

\* A step that leaves the reports and the entries alone changes Past by a
\* replay only.
LEMMA PastStays ==
  ASSUME handlers' \subseteq handlers, UNCHANGED <<dlq, replaying>>,
         \A j \in Jobs : job'[j].state # "none" => job[j].state # "none",
         NEW d \in Deliveries, Past(d)'
  PROVE  Past(d)
<1>1. Burying(d)' => Burying(d)
  BY DEF Burying
<1>2. HasDeadLetter(d)' => HasDeadLetter(d)
  BY DEF HasDeadLetter, Subject
<1>3. Replaying(d)' => Replaying(d)
  BY DEF Replaying, Subject
<1>4. Replayed(d)' => Replayed(d)
  BY DeliveryAssumption DEF Replayed, Jobs
<1> QED BY <1>1, <1>2, <1>3, <1>4 DEF Past

\* A failed attempt is reported when it is the last of the first job.
LEMMA FailMarks ==
  ASSUME Attempts <= DeadLetterAt, ReplayAttempts < DeadLetterAt, MaxStalledCount > 0,
         TypeOK, TypeOK', JobInv, MarkInv, UNCHANGED <<record, dlq, replaying>>,
         NEW j \in Jobs, job[j].state \in Live, NEW retried \in BOOLEAN, FailAttempt(j, retried),
         job[j].state \in Decided => job[j].stalls > 0
  PROVE  MarkInv'
<1> DEFINE made == job[j].attemptsMade + 1
<1>1. /\ made \in Nat /\ job[j].attempts \in Nat /\ made <= job[j].attempts
      /\ job[j].attempts \in {0, Attempts, ReplayAttempts}
      /\ job[j].state \notin {"none", "failed"} /\ job[j].stalls \in Nat
  BY DeliveryAssumption DEF TypeOK, Job, JobInv, GoodJob, Live, Running
<1>2. /\ \A i \in Jobs : i # j => job'[i] = job[i]
      /\ job'[j].stalls = job[j].stalls /\ job'[j].attempts = job[j].attempts
      /\ job'[j].state \in {"delayed", "failed"}
      /\ made >= DeadLetterAt /\ DeadLetterAt >= job[j].attempts => job'[j].state = "failed"
  BY <1>1, DeliveryAssumption DEF FailAttempt, TypeOK, Job
<1>3. CASE made < DeadLetterAt
  <2>1. handlers' = handlers
    BY <1>3 DEF FailAttempt, Report
  <2>2. \A d \in Deliveries : Past(d)' => Past(d)
    BY <1>1, <1>2, <2>1, PastStays
  <2>3. \A i \in Jobs : job[i].state = "failed" => job'[i].state = "failed"
    BY <1>1, <1>2
  <2>4. \A i \in Jobs : i[2] # 1 /\ job'[i].state # "none" =>
           job[i].state # "none" /\ job'[i].attempts = job[i].attempts
    BY <1>1, <1>2
  <2>5. \A i \in Jobs : job'[i].stalls = 0 =>
           job[i].stalls = 0 /\ (job[i].state \in Decided => job'[i].state \in Decided)
    BY <1>1, <1>2
  <2>6. \A r \in Replayers : replaying'[r].step = "add" => replaying'[r].entry # NoEntry
    BY DEF MarkInv, PastIsOver
  <2> QED BY <2>1, <2>2, <2>3, <2>4, <2>5, <2>6, MarksStay
<1>4. CASE ~(made < DeadLetterAt)
  <2> DEFINE d == j[1]
             new == <<j, made, IF Tracked THEN "mark" ELSE "bury">>
  <2>1. handlers' = handlers \cup {new}
    BY <1>4 DEF FailAttempt, Report
  <2>2. j[2] = 1
    BY <1>1, <1>4, DeliveryAssumption DEF MarkInv, ReportedOnce
  <2>3. d \in Deliveries /\ j = First(d) /\ j[1] = d
    BY <2>2 DEF Jobs, First
  <2>4. job'[j].state = "failed"
    BY <1>1, <1>2, <1>4, <2>2, DeliveryAssumption
  <2>5. \A h \in handlers : h[1] \in Jobs /\ h[1] # j
    BY <1>1 DEF MarkInv, ReportedOnce, TypeOK
  <2>6. ~Past(d)
    BY <1>1, <2>3 DEF MarkInv, PastIsOver
  <2>7. new[1] = j /\ new[1][1] = d
    OBVIOUS
  <2> HIDE DEF new, d
  <2>8. ReportedOnce'
    <3>1. \A h \in handlers' : h[1] = First(h[1][1]) /\ job'[h[1]].state = "failed"
      BY <1>2, <2>1, <2>3, <2>4, <2>5, <2>7 DEF MarkInv, ReportedOnce
    <3>2. \A g, h \in handlers' : g[1] = h[1] => g = h
      BY <2>1, <2>5, <2>7 DEF MarkInv, ReportedOnce
    <3>3. \A i \in Jobs : i[2] # 1 /\ job'[i].state # "none" => job'[i].attempts = ReplayAttempts
      BY <1>2, <2>2 DEF MarkInv, ReportedOnce
    <3> QED BY <3>1, <3>2, <3>3 DEF ReportedOnce
  <2>9. \A c \in Deliveries : c # d => (Marking(c)' => Marking(c))
    BY <2>1, <2>7 DEF Marking
  <2>10. \A c \in Deliveries : c # d => (Past(c)' => Past(c))
    <3> SUFFICES ASSUME NEW c \in Deliveries, c # d, Past(c)' PROVE Past(c)
      OBVIOUS
    <3>1. Burying(c)' => Burying(c)
      BY <2>1, <2>7 DEF Burying
    <3>2. HasDeadLetter(c)' => HasDeadLetter(c)
      BY DEF HasDeadLetter, Subject
    <3>3. Replaying(c)' => Replaying(c)
      BY DEF Replaying, Subject
    <3>4. Replayed(c)' => Replayed(c)
      BY <1>1, <1>2, DeliveryAssumption DEF Replayed, Jobs
    <3> QED BY <3>1, <3>2, <3>3, <3>4 DEF Past
  <2>11. Past(d)' => ~Marking(d)'
    <3>1. ~HasDeadLetter(d)' /\ ~Replaying(d)' /\ ~Burying(d)
      BY <2>6 DEF Past, HasDeadLetter, Replaying, Subject
    <3>2. ~Replayed(d)'
      <4> SUFFICES ASSUME NEW n \in 2 .. MaxJobs PROVE job'[<<d, n>>].state = "none"
        BY DEF Replayed
      <4>1. <<d, n>> \in Jobs /\ <<d, n>> # j
        BY <2>2, <2>3, DeliveryAssumption DEF Jobs, First
      <4>2. job[<<d, n>>].state = "none"
        BY <2>6 DEF Past, Replayed
      <4> QED BY <4>1, <4>2, <1>2
    <3>3. Burying(d)' => ~Marking(d)'
      <4>1. \A h \in handlers' : h[1][1] = d => h = new
        BY <2>1, <2>3, <2>5, <2>7 DEF MarkInv, ReportedOnce
      <4> QED BY <4>1 DEF Burying, Marking
    <3> QED BY <3>1, <3>2, <3>3 DEF Past
  <2>12. \A c \in Deliveries : First(c) \in Jobs /\ First(c)[1] = c /\ (c # d => First(c) # j)
    BY <2>3, DeliveryAssumption DEF First, Jobs
  <2>13. PastIsOver'
    <3>1. ASSUME NEW c \in Deliveries, Past(c)' PROVE job'[First(c)].state = "failed" /\ ~Marking(c)'
      <4>1. CASE c = d
        BY <3>1, <4>1, <2>3, <2>4, <2>11
      <4>2. CASE c # d
        BY <3>1, <4>2, <1>2, <2>9, <2>10, <2>12 DEF MarkInv, PastIsOver
      <4> QED BY <4>1, <4>2
    <3> QED BY <3>1 DEF MarkInv, PastIsOver
  <2>14. SuccessKept'
    <3> SUFFICES ASSUME NEW c \in Deliveries, record[c] = "success", Smooth(c)'
                 PROVE  ~Marking(c)' /\ job'[First(c)].state \in Decided
      BY DEF SuccessKept
    <3>1. Smooth(c)
      BY <1>2 DEF Smooth
    <3>2. ~Marking(c) /\ job[First(c)].state \in Decided
      BY <3>1 DEF MarkInv, SuccessKept
    <3>3. c # d
      <4> SUFFICES ASSUME c = d PROVE FALSE
        OBVIOUS
      <4>1. job[j].state \in Decided /\ job[j].stalls = 0
        BY <3>1, <3>2, <2>3 DEF Smooth
      <4> QED BY <4>1, <1>1
    <3> QED BY <3>2, <3>3, <1>2, <2>9, <2>12
  <2> QED BY <2>8, <2>13, <2>14 DEF MarkInv
<1> QED BY <1>3, <1>4

\* Moves of a job that report nothing.
LEMMA MoveMarks ==
  ASSUME TypeOK, TypeOK', MarkInv, UNCHANGED <<handlers, dlq, replaying>>,
         \A d \in Deliveries : record'[d] = "success" => record[d] = "success",
         NEW j \in Jobs, \A i \in Jobs : i # j => job'[i] = job[i],
         job[j].state \in Live, job'[j].attempts = job[j].attempts,
         \/ job'[j].stalls # 0
         \/ job'[j].stalls = job[j].stalls /\ (job[j].state \in Decided => job'[j].state \in Decided)
  PROVE  MarkInv'
<1>1. job[j].state \notin {"none", "failed"}
  BY DEF Live, Running
<1>2. \A d \in Deliveries : Past(d)' => Past(d)
  BY <1>1, PastStays
<1>3. \A r \in Replayers : replaying'[r].step = "add" => replaying'[r].entry # NoEntry
  BY DEF MarkInv, PastIsOver
<1>4. \A i \in Jobs : job[i].state = "failed" => job'[i].state = "failed"
  BY <1>1
<1>5. \A i \in Jobs : i[2] # 1 /\ job'[i].state # "none" =>
         job[i].state # "none" /\ job'[i].attempts = job[i].attempts
  BY <1>1
<1>6. \A i \in Jobs : job'[i].stalls = 0 =>
         job[i].stalls = 0 /\ (job[i].state \in Decided => job'[i].state \in Decided)
  BY <1>1
<1> QED BY <1>2, <1>3, <1>4, <1>5, <1>6, MarksStay

\* A request that was accepted is recorded: if it is the first job's, that job
\* has not failed, and if it is a replay's, the first job is past it.
LEMMA SuccessMarks ==
  ASSUME TypeOK, TypeOK', JobInv, MarkInv, NEW j \in Jobs, RecordSuccess(j)
  PROVE  MarkInv'
<1>1. /\ job[j].state = "accepted" /\ UNCHANGED <<handlers, dlq, replaying>>
      /\ \A i \in Jobs : i # j => job'[i] = job[i]
      /\ job'[j].state = "recorded" /\ job'[j].attempts = job[j].attempts /\ job'[j].stalls = job[j].stalls
      /\ \A d \in Deliveries : d # j[1] => record'[d] = record[d]
  BY DEF RecordSuccess, Move, TypeOK, Job
<1>2. \A d \in Deliveries : First(d) \in Jobs /\ First(d)[1] = d
  BY DeliveryAssumption DEF First, Jobs
<1>3. \A d \in Deliveries : Past(d)' => Past(d)
  BY <1>1, PastStays
<1>4. ReportedOnce'
  BY <1>1 DEF MarkInv, ReportedOnce, TypeOK
<1>5. \A d \in Deliveries : Marking(d)' => Marking(d)
  BY <1>1 DEF Marking
<1>6. PastIsOver'
  BY <1>1, <1>2, <1>3, <1>5 DEF MarkInv, PastIsOver
<1>7. ASSUME NEW d \in Deliveries, record'[d] = "success", Smooth(d)'
      PROVE  ~Marking(d)' /\ job'[First(d)].state \in Decided
  <2>1. CASE d # j[1]
    <3>1. Smooth(d) /\ First(d) # j
      BY <1>1, <1>2, <1>7, <2>1 DEF Smooth
    <3> QED BY <1>1, <1>2, <1>5, <1>7, <2>1, <3>1 DEF MarkInv, SuccessKept
  <2>2. CASE d = j[1] /\ j[2] = 1
    <3>1. First(d) = j
      BY <2>2 DEF First, Jobs
    <3>2. ~Marking(d)
      BY <1>1, <3>1 DEF MarkInv, ReportedOnce, Marking, TypeOK
    <3> QED BY <1>1, <1>5, <3>1, <3>2 DEF Decided
  <2>3. CASE d = j[1] /\ j[2] # 1
    <3>1. j[2] \in 2 .. MaxJobs /\ j = <<d, j[2]>>
      BY <2>3, DeliveryAssumption DEF Jobs
    <3>2. Replayed(d)
      BY <1>1, <3>1 DEF Replayed
    <3>3. job[First(d)].state = "failed" /\ ~Marking(d)
      BY <3>2 DEF MarkInv, PastIsOver, Past
    <3> QED BY <1>1, <1>2, <1>5, <3>3 DEF Decided
  <2> QED BY <2>1, <2>2, <2>3
<1> QED BY <1>4, <1>6, <1>7 DEF MarkInv, SuccessKept

\* The handler writes the row, or fails to, and goes on to the dead letter.
LEMMA MarkedMarks ==
  ASSUME TypeOK, TypeOK', MarkInv, NEW j \in Jobs, NEW made \in Nat,
         <<j, made, "mark">> \in handlers,
         handlers' = (handlers \ {<<j, made, "mark">>}) \cup {<<j, made, "bury">>},
         UNCHANGED <<job, dlq, replaying>>,
         \A d \in Deliveries : record'[d] = "success" => record[d] = "success"
  PROVE  MarkInv'
<1> DEFINE old == <<j, made, "mark">>
           new == <<j, made, "bury">>
           d == j[1]
<1>1. old[1] = j /\ new[1] = j /\ new[3] = "bury" /\ old[3] = "mark"
  OBVIOUS
<1>2. old \in handlers /\ handlers' = (handlers \ {old}) \cup {new} /\ d \in Deliveries
  BY DEF Jobs
<1> HIDE DEF old, new
<1>3. j = First(d) /\ job[j].state = "failed"
  BY <1>1, <1>2 DEF MarkInv, ReportedOnce
<1>4. \A h \in handlers' : h = new \/ (h \in handlers /\ h[1] # j)
  BY <1>1, <1>2 DEF MarkInv, ReportedOnce
<1>5. ReportedOnce'
  <2>1. \A h \in handlers' : h[1] = First(h[1][1]) /\ job'[h[1]].state = "failed"
    BY <1>1, <1>3, <1>4 DEF MarkInv, ReportedOnce
  <2>2. \A g, h \in handlers' : g[1] = h[1] => g = h
    BY <1>1, <1>4 DEF MarkInv, ReportedOnce
  <2> QED BY <2>1, <2>2 DEF MarkInv, ReportedOnce
<1>6. \A c \in Deliveries : Marking(c)' => Marking(c) /\ c # d
  <2> SUFFICES ASSUME NEW c \in Deliveries, NEW h \in handlers', h[1][1] = c, h[3] = "mark"
               PROVE  Marking(c) /\ c # d
    BY DEF Marking
  <2>1. h \in handlers /\ h[1] # j
    BY <1>1, <1>4
  <2>2. h[1] = First(c)
    BY <2>1 DEF MarkInv, ReportedOnce
  <2> QED BY <2>1, <2>2, <1>3 DEF Marking
<1>7. \A c \in Deliveries : Past(c)' => Past(c) \/ c = d
  <2> SUFFICES ASSUME NEW c \in Deliveries, c # d, Past(c)' PROVE Past(c)
    OBVIOUS
  <2>1. Burying(c)' => Burying(c)
    BY <1>1, <1>4 DEF Burying
  <2>2. HasDeadLetter(c)' => HasDeadLetter(c)
    BY DEF HasDeadLetter, Subject
  <2>3. Replaying(c)' => Replaying(c)
    BY DEF Replaying, Subject
  <2>4. Replayed(c)' => Replayed(c)
    BY DEF Replayed
  <2> QED BY <2>1, <2>2, <2>3, <2>4 DEF Past
<1> HIDE DEF d
<1>8. PastIsOver'
  <2>1. ASSUME NEW c \in Deliveries, Past(c)' PROVE job'[First(c)].state = "failed" /\ ~Marking(c)'
    BY <1>3, <1>6, <1>7, <2>1 DEF MarkInv, PastIsOver
  <2> QED BY <2>1 DEF MarkInv, PastIsOver
<1>9. SuccessKept'
  <2> SUFFICES ASSUME NEW c \in Deliveries, record'[c] = "success", Smooth(c)'
               PROVE  ~Marking(c)' /\ job'[First(c)].state \in Decided
    BY DEF SuccessKept
  <2>1. record[c] = "success" /\ Smooth(c)
    BY DEF Smooth
  <2>2. ~Marking(c) /\ job[First(c)].state \in Decided
    BY <2>1 DEF MarkInv, SuccessKept
  <2> QED BY <2>2, <1>6
<1> QED BY <1>5, <1>8, <1>9 DEF MarkInv

LEMMA MarksStep ==
  ASSUME Attempts <= DeadLetterAt, ReplayAttempts < DeadLetterAt, MaxStalledCount > 0,
         TypeOK, JobInv, MarkInv, [Next]_vars
  PROVE  MarkInv'
<1>0. TypeOK'
  BY TypeInductive
<1>a. \A r \in Replayers : replaying[r].step = "add" => replaying[r].entry # NoEntry
  BY DEF MarkInv, PastIsOver
<1>b. \A d \in Deliveries : First(d) \in Jobs
  BY DeliveryAssumption DEF First, Jobs
<1>1. ASSUME UNCHANGED <<job, dlq, replaying>>, handlers' \subseteq handlers,
             \A d \in Deliveries : record'[d] = "success" => record[d] = "success"
      PROVE  MarkInv'
  <2>1. \A d \in Deliveries : Past(d)' => Past(d)
    BY <1>1, PastStays
  <2>2. \A j \in Jobs : job'[j] = job[j]
    BY <1>1
  <2> QED BY <1>0, <1>1, <1>a, <2>1, <2>2, MarksStay
<1>2. ASSUME NEW d \in Deliveries, QueueDelivery(d) \/ AddFails(d) PROVE MarkInv'
  BY <1>1, <1>2 DEF QueueDelivery, AddFails, TypeOK
<1>3. ASSUME NEW j \in Jobs, NEW n \in {Attempts, ReplayAttempts}, Add(j, n),
             j[2] # 1 => n = ReplayAttempts /\ Past(j[1]),
             UNCHANGED <<record, handlers, dlq>>,
             \A d \in Deliveries : Replaying(d)' => Replaying(d),
             \A r \in Replayers : replaying'[r].step = "add" => replaying'[r].entry # NoEntry
      PROVE  MarkInv'
  <2>1. /\ job[j].state = "none" /\ job[j].stalls = 0
        /\ \A i \in Jobs : i # j => job'[i] = job[i]
        /\ job'[j].state = "waiting" /\ job'[j].stalls = 0 /\ job'[j].attempts = n
    BY <1>3 DEF Add, NewJob, JobInv, GoodJob, NoJob, TypeOK
  <2>2. \A d \in Deliveries : Past(d)' => Past(d)
    <3> SUFFICES ASSUME NEW d \in Deliveries, Past(d)', ~Past(d) PROVE FALSE
      OBVIOUS
    <3>1. Burying(d)' => Burying(d)
      BY <1>3 DEF Burying
    <3>2. HasDeadLetter(d)' => HasDeadLetter(d)
      BY <1>3 DEF HasDeadLetter, Subject
    <3>3. Replayed(d)'
      BY <1>3, <3>1, <3>2 DEF Past
    <3>4. PICK m \in 2 .. MaxJobs : job'[<<d, m>>].state # "none"
      BY <3>3 DEF Replayed
    <3>5. <<d, m>> \in Jobs /\ job[<<d, m>>].state = "none" /\ m # 1
      BY <3>4, DeliveryAssumption DEF Jobs, Past, Replayed
    <3>6. j = <<d, m>>
      BY <2>1, <3>4, <3>5
    <3> QED BY <1>3, <3>5, <3>6
  <2>3. \A i \in Jobs : job[i].state = "failed" => job'[i].state = "failed"
    BY <2>1
  <2>4. \A i \in Jobs : i[2] # 1 /\ job'[i].state # "none" =>
           job'[i].attempts = ReplayAttempts
             \/ (job[i].state # "none" /\ job'[i].attempts = job[i].attempts)
    BY <1>3, <2>1
  <2>5. \A i \in Jobs : job'[i].stalls = 0 =>
           job[i].stalls = 0 /\ (job[i].state \in Decided => job'[i].state \in Decided)
    BY <2>1 DEF Decided
  <2> QED BY <1>0, <1>3, <2>2, <2>3, <2>4, <2>5, MarksStay
<1>4. ASSUME NEW d \in Deliveries, AddJob(d) PROVE MarkInv'
  <2>1. First(d) \in Jobs /\ First(d)[2] = 1
    BY <1>b DEF First
  <2>2. Add(First(d), Attempts) /\ UNCHANGED <<record, handlers, dlq, replaying>>
    BY <1>4 DEF AddJob, First
  <2>3. \A c \in Deliveries : Replaying(c)' => Replaying(c)
    BY <2>2 DEF Replaying, Subject
  <2> QED BY <1>3, <1>a, <2>1, <2>2, <2>3
<1>5. ASSUME NEW r \in Replayers, ReplayAdd(r) PROVE MarkInv'
  <2> DEFINE x == replaying[r].entry
  <2>1. x # NoEntry /\ x \in Jobs \X Nat
    BY <1>5, <1>a DEF ReplayAdd, TypeOK
  <2>2. PICK n \in 2 .. MaxJobs : Add(<<Subject(x), n>>, ReplayAttempts)
    BY <1>5 DEF ReplayAdd
  <2>3. Subject(x) \in Deliveries /\ <<Subject(x), n>> \in Jobs
    BY <2>1, DeliveryAssumption DEF Subject, Jobs
  <2>4. Past(Subject(x))
    BY <2>1 DEF Past, Replaying
  <2>5. /\ UNCHANGED <<record, handlers, dlq>>
        /\ \A s \in Replayers : replaying'[s].entry = replaying[s].entry
        /\ \A s \in Replayers : replaying'[s].step = "add" => replaying[s].step = "add"
    BY <1>5 DEF ReplayAdd, TypeOK
  <2>6. \A c \in Deliveries : Replaying(c)' => Replaying(c)
    BY <2>5 DEF Replaying, Subject
  <2>7. \A s \in Replayers : replaying'[s].step = "add" => replaying'[s].entry # NoEntry
    BY <2>5, <1>a
  <2>8. <<Subject(x), n>>[2] # 1 => Past(<<Subject(x), n>>[1])
    BY <2>4
  <2> HIDE DEF x
  <2> QED BY <1>3, <2>2, <2>3, <2>5, <2>6, <2>7, <2>8
<1>6. ASSUME UNCHANGED <<record, job>>, handlers' \subseteq handlers,
             \A x \in dlq' : x \in dlq \/ Burying(Subject(x)),
             \A r \in Replayers : \/ replaying'[r] = replaying[r]
                                  \/ replaying'[r] = Idle
                                  \/ replaying'[r].entry \in dlq /\ replaying'[r].entry # NoEntry
      PROVE  MarkInv'
  <2>1. \A d \in Deliveries : Past(d)' => Past(d)
    <3> SUFFICES ASSUME NEW d \in Deliveries, Past(d)' PROVE Past(d)
      OBVIOUS
    <3>1. Burying(d)' => Burying(d)
      BY <1>6 DEF Burying
    <3>2. HasDeadLetter(d)' => HasDeadLetter(d) \/ Burying(d)
      BY <1>6 DEF HasDeadLetter, Subject
    <3>3. Replaying(d)' => Replaying(d) \/ HasDeadLetter(d)
      BY <1>6 DEF Replaying, HasDeadLetter, Subject, Idle
    <3>4. Replayed(d)' => Replayed(d)
      BY <1>6 DEF Replayed
    <3> QED BY <3>1, <3>2, <3>3, <3>4 DEF Past
  <2>2. \A r \in Replayers : replaying'[r].step = "add" => replaying'[r].entry # NoEntry
    BY <1>6, <1>a DEF Idle
  <2>3. \A j \in Jobs : job'[j] = job[j]
    BY <1>6
  <2> QED BY <1>0, <1>6, <2>1, <2>2, <2>3, MarksStay
<1>7. ASSUME NEW r \in Replayers, ReplayDiscard(r) \/ ReplayFails(r) PROVE MarkInv'
  BY <1>6, <1>7 DEF ReplayDiscard, ReplayFails, TypeOK
<1>8. ASSUME NEW r \in Replayers, NEW x \in dlq, ReplayRead(r, x) PROVE MarkInv'
  <2>1. x # NoEntry
    BY DeliveryAssumption DEF TypeOK
  <2> QED BY <1>6, <1>8, <2>1 DEF ReplayRead, TypeOK
<1>9. ASSUME NEW x \in dlq, Discard(x) PROVE MarkInv'
  BY <1>6, <1>9 DEF Discard
<1>10. ASSUME NEW j \in Jobs, Handle(j) \/ HandleFails(j) PROVE MarkInv'
  <2>1. PICK made \in MadeCounts : \/ MarkFailed(j, made) \/ MoveToDLQ(j, made)
                                   \/ MarkFails(j, made) \/ MoveToDLQFails(j, made)
    BY <1>10 DEF Handle, HandleFails
  <2>2. made \in Nat
    BY DEF MadeCounts
  <2>3. CASE MarkFailed(j, made)
    <3>1. \A d \in Deliveries : record'[d] = "success" => record[d] = "success"
      BY <2>3 DEF MarkFailed, TypeOK
    <3> QED BY <1>0, <2>2, <2>3, <3>1, MarkedMarks DEF MarkFailed
  <2>4. CASE MarkFails(j, made)
    BY <1>0, <2>2, <2>4, MarkedMarks DEF MarkFails
  <2>5. CASE MoveToDLQ(j, made)
    <3>1. Burying(j[1])
      BY <2>5 DEF MoveToDLQ, Burying
    <3>2. \A x \in dlq' : x \in dlq \/ Burying(Subject(x))
      BY <2>5, <3>1 DEF MoveToDLQ, Subject
    <3> QED BY <1>6, <2>5, <3>2 DEF MoveToDLQ
  <2>6. CASE MoveToDLQFails(j, made)
    BY <1>1, <2>6 DEF MoveToDLQFails
  <2> QED BY <2>1, <2>3, <2>4, <2>5, <2>6
<1>11. ASSUME NEW j \in Jobs,
              EndpointInactive(j) \/ PostRefused(j) \/ PostTimesOut(j) \/ RecordFails(j)
       PROVE  MarkInv'
  <2>1. /\ FailAttempt(j, TRUE) /\ UNCHANGED <<record, dlq, replaying>>
        /\ job[j].state \in Live /\ job[j].state \notin Decided
    BY <1>11 DEF EndpointInactive, PostRefused, PostTimesOut, RecordFails, Live, Running, Decided
  <2> QED BY <1>0, <2>1, FailMarks
<1>12. ASSUME NEW j \in Jobs, NEW from, NEW to, Move(j, from, to),
              UNCHANGED <<record, handlers, dlq, replaying>>,
              <<from, to>> \in {<<"delayed", "waiting">>, <<"waiting", "started">>,
                               <<"sent", "accepted">>, <<"recorded", "completed">>}
       PROVE  MarkInv'
  <2>1. /\ job[j].state = from /\ from \in Live /\ (from \in Decided => to \in Decided)
        /\ \A i \in Jobs : i # j => job'[i] = job[i]
        /\ job'[j].state = to /\ job'[j].attempts = job[j].attempts /\ job'[j].stalls = job[j].stalls
    BY <1>12 DEF Move, TypeOK, Job, Live, Running, Decided
  <2> QED BY <1>0, <1>12, <2>1, MoveMarks
<1>13. ASSUME NEW j \in Jobs, BackoffElapses(j) \/ TakeJob(j) \/ PostAccepted(j) \/ CompleteJob(j)
       PROVE  MarkInv'
  BY <1>12, <1>13 DEF BackoffElapses, TakeJob, PostAccepted, CompleteJob
<1>14. ASSUME NEW j \in Jobs, Post(j) PROVE MarkInv'
  <2>1. /\ job[j].state = "started" /\ UNCHANGED <<record, handlers, dlq, replaying>>
        /\ \A i \in Jobs : i # j => job'[i] = job[i]
        /\ job'[j].attempts = job[j].attempts /\ job'[j].stalls = job[j].stalls
    BY <1>14 DEF Post, TypeOK, Job
  <2>2. "started" \in Live /\ "started" \notin Decided
    BY DEF Live, Running, Decided
  <2> QED BY <1>0, <2>1, <2>2, MoveMarks
<1>15. ASSUME NEW j \in Jobs, RecordSuccess(j) PROVE MarkInv'
  BY <1>0, <1>15, SuccessMarks
<1>16. ASSUME NEW j \in Jobs, RequeueStalled(j) PROVE MarkInv'
  <2>1. PICK no \in {FALSE} :
          \/ /\ job' = [job EXCEPT ![j].state = "waiting", ![j].stalls = @ + 1]
             /\ UNCHANGED handlers
          \/ /\ job[j].stalls >= MaxStalledCount
             /\ FailAttempt(j, no)
    BY <1>16, Zenon DEF RequeueStalled
  <2>2. /\ job[j].state = "orphaned" /\ UNCHANGED <<record, dlq, replaying>>
        /\ "orphaned" \in Live /\ job[j].stalls \in Nat
    BY <1>16 DEF RequeueStalled, Live, TypeOK, Job
  <2>3. CASE job[j].stalls >= MaxStalledCount /\ FailAttempt(j, no)
    <3>1. job[j].stalls > 0
      BY <2>2, <2>3, DeliveryAssumption
    <3> QED BY <1>0, <2>2, <2>3, <3>1, FailMarks
  <2>4. CASE /\ job' = [job EXCEPT ![j].state = "waiting", ![j].stalls = @ + 1]
             /\ UNCHANGED handlers
    <3>1. /\ \A i \in Jobs : i # j => job'[i] = job[i]
          /\ job'[j].attempts = job[j].attempts /\ job'[j].stalls # 0
      BY <2>2, <2>4 DEF TypeOK, Job
    <3> QED BY <1>0, <2>2, <2>4, <3>1, MoveMarks
  <2> QED BY <2>1, <2>3, <2>4
<1>17. ASSUME Crash PROVE MarkInv'
  <2>1. /\ UNCHANGED <<record, dlq>> /\ handlers' = {}
        /\ \A r \in Replayers : replaying'[r] = Idle
        /\ \A j \in Jobs : /\ job'[j].attempts = job[j].attempts /\ job'[j].stalls = job[j].stalls
                           /\ job[j].state \notin Running => job'[j].state = job[j].state
                           /\ job[j].state \in Running => job'[j].state = "orphaned"
    BY <1>17 DEF Crash, TypeOK, Job
  <2>2. \A j \in Jobs : /\ job'[j].state = "none" <=> job[j].state = "none"
                        /\ job[j].state = "failed" => job'[j].state = "failed"
                        /\ job[j].state \in Decided => job'[j].state \in Decided
    BY <2>1 DEF Running, Decided
  <2>3. \A d \in Deliveries : Past(d)' => Past(d)
    <3> SUFFICES ASSUME NEW d \in Deliveries, Past(d)' PROVE Past(d)
      OBVIOUS
    <3>1. ~Burying(d)'
      BY <2>1 DEF Burying
    <3>2. HasDeadLetter(d)' => HasDeadLetter(d)
      BY <2>1 DEF HasDeadLetter, Subject
    <3>3. ~Replaying(d)'
      BY <2>1 DEF Replaying, Idle
    <3>4. Replayed(d)' => Replayed(d)
      BY <2>2, DeliveryAssumption DEF Replayed, Jobs
    <3> QED BY <3>1, <3>2, <3>3, <3>4 DEF Past
  <2>4. \A r \in Replayers : replaying'[r].step = "add" => replaying'[r].entry # NoEntry
    BY <2>1 DEF Idle
  <2> QED BY <1>0, <2>1, <2>2, <2>3, <2>4, MarksStay
<1>18. CASE UNCHANGED vars
  BY <1>1, <1>18 DEF vars
<1> QED
  BY <1>2, <1>4, <1>5, <1>7, <1>8, <1>9, <1>10, <1>11, <1>13, <1>14, <1>15, <1>16, <1>17, <1>18
  DEF Next, ProcessJob

\* Only the failure handler takes a delivery's success back.
LEMMA TakenBackByHandler ==
  ASSUME TypeOK, [Next]_vars, NEW d \in Deliveries, record[d] = "success", record'[d] # "success"
  PROVE  Marking(d)
<1> USE DEF TypeOK
<1>1. UNCHANGED record => FALSE
  OBVIOUS
<1>2. ASSUME NEW j \in Jobs, Handle(j) \/ HandleFails(j) PROVE Marking(d)
  <2>1. PICK made \in MadeCounts : \/ MarkFailed(j, made) \/ MoveToDLQ(j, made)
                                   \/ MarkFails(j, made) \/ MoveToDLQFails(j, made)
    BY <1>2 DEF Handle, HandleFails
  <2>2. MarkFailed(j, made)
    BY <1>1, <2>1 DEF MoveToDLQ, MarkFails, MoveToDLQFails
  <2>3. j[1] = d /\ <<j, made, "mark">> \in handlers
    BY <2>2 DEF MarkFailed
  <2> QED BY <2>3 DEF Marking
<1>3. ASSUME NEW j \in Jobs,
             ProcessJob(j) \/ BackoffElapses(j) \/ RecordFails(j) \/ RequeueStalled(j)
      PROVE  FALSE
  BY <1>3
  DEF ProcessJob, BackoffElapses, TakeJob, EndpointInactive, Post, PostRefused, PostTimesOut,
      PostAccepted, RecordSuccess, CompleteJob, RecordFails, RequeueStalled
<1>4. ASSUME NEW c \in Deliveries, QueueDelivery(c) \/ AddJob(c) \/ AddFails(c) PROVE FALSE
  BY <1>4 DEF QueueDelivery, AddJob, AddFails
<1>5. ASSUME NEW r \in Replayers, ReplayAdd(r) \/ ReplayDiscard(r) \/ ReplayFails(r) PROVE FALSE
  BY <1>1, <1>5 DEF ReplayAdd, ReplayDiscard, ReplayFails
<1>6. ASSUME NEW r \in Replayers, NEW x \in dlq, ReplayRead(r, x) PROVE FALSE
  BY <1>1, <1>6 DEF ReplayRead
<1>7. ASSUME NEW x \in dlq, Discard(x) PROVE FALSE
  BY <1>1, <1>7 DEF Discard
<1>8. ASSUME Crash PROVE FALSE
  BY <1>1, <1>8 DEF Crash
<1>9. CASE UNCHANGED vars
  BY <1>1, <1>9 DEF vars
<1> QED BY <1>2, <1>3, <1>4, <1>5, <1>6, <1>7, <1>8, <1>9 DEF Next

\* For the webhook's numbers, where the handler acts on the last attempt of the
\* first job and on no replay, a recorded success is never turned into a
\* failure, for any deliveries, replays at a time and faults, unless a job of
\* the delivery has stalled.
THEOREM DeliverySuccessIsFinal ==
  ASSUME Attempts <= DeadLetterAt, ReplayAttempts < DeadLetterAt, MaxStalledCount > 0
  PROVE  Spec => SuccessIsFinal
<1> DEFINE Final == \A d \in Deliveries :
                      record[d] = "success" /\ record'[d] # "success" =>
                        \E j \in Jobs : j[1] = d /\ job[j].stalls > 0
<1>1. Init => MarkInv
  <2> SUFFICES ASSUME Init PROVE MarkInv
    OBVIOUS
  <2>1. handlers = {} /\ dlq = {} /\ \A r \in Replayers : replaying[r] = Idle
    BY DEF Init
  <2>2. (\A j \in Jobs : job[j].state = "none") /\ (\A d \in Deliveries : record[d] # "success")
    BY DEF Init, NoJob
  <2>3. \A d \in Deliveries : ~Replayed(d)
    <3>1. \A d \in Deliveries, n \in 2 .. MaxJobs : <<d, n>> \in Jobs
      BY DeliveryAssumption DEF Jobs
    <3> QED BY <2>2, <3>1 DEF Replayed
  <2>4. ASSUME NEW d \in Deliveries PROVE ~Past(d)
    <3>1. ~Burying(d) /\ ~HasDeadLetter(d)
      BY <2>1 DEF Burying, HasDeadLetter
    <3>2. ~Replaying(d)
      BY <2>1 DEF Replaying, Idle
    <3> QED BY <2>3, <3>1, <3>2 DEF Past
  <2> QED BY <2>1, <2>2, <2>4 DEF MarkInv, ReportedOnce, PastIsOver, SuccessKept, Idle
<1>2. TypeOK /\ JobInv /\ [Next]_vars => JobInv'
  BY JobsStep
<1>3. TypeOK /\ JobInv /\ MarkInv /\ [Next]_vars => MarkInv'
  BY MarksStep
<1>4. TypeOK /\ MarkInv /\ [Next]_vars => Final
  <2> SUFFICES ASSUME TypeOK, MarkInv, [Next]_vars, NEW d \in Deliveries,
                      record[d] = "success", record'[d] # "success"
               PROVE  \E j \in Jobs : j[1] = d /\ job[j].stalls > 0
    OBVIOUS
  <2>1. ~Smooth(d)
    BY TakenBackByHandler DEF MarkInv, SuccessKept
  <2>2. \A j \in Jobs : job[j].stalls \in Nat
    BY DEF TypeOK, Job
  <2> QED BY <2>1, <2>2 DEF Smooth
<1>5. Spec => [][Final]_vars
  <2> HIDE DEF Final
  <2> QED BY <1>1, <1>2, <1>3, <1>4, InitJobs, DeliveryTypeCorrect, PTL DEF Spec
<1> QED BY <1>5 DEF SuccessIsFinal
=============================================================================
