---------------------------- MODULE Loops_proofs ----------------------------
(***************************************************************************)
(* Theorems about the components of run loops: the ingestion queue, the    *)
(* stream supervisor, the escalation of incidents and the mailing of       *)
(* digests. Each part is about one component and uses nothing of the       *)
(* others; the last part puts them together with the provider breaker.     *)
(***************************************************************************)
EXTENDS LoopsMC, Breaker_proofs, FiniteSetTheorems, FunctionTheorems, TLAPS

-----------------------------------------------------------------------------
(***************************************************************************)
(* The ingestion queue: any jobs, any number of polls, handlers and        *)
(* requeues at a time, any limits, and any number of refused statements,   *)
(* deaths of the process and requeues.                                     *)
(***************************************************************************)

Rows == [status : {"absent", "pending", "processing", "failed", "completed"},
         attempts : Nat, due : BOOLEAN]
Handling == [at : HandlerPlaces, job : IngestionJobs, attempts : Nat]
Requeuing == [at : {"inserting", "deleting"}, job : IngestionJobs]

QueueShape ==
  /\ ingestion \in [IngestionJobs -> Rows]
  /\ deadJobs \subseteq accepted /\ accepted \subseteq IngestionJobs
  /\ handler \in [Handlers -> {<<>>} \cup Handling]
  /\ requeue \in [Requeuers -> {<<>>} \cup Requeuing]

Present(j) == ingestion[j].status # "absent"
Removing(h) == At(h, "removing")
Deleting(r) == requeue[r] # <<>> /\ requeue[r].at = "deleting"

\* Only accepted jobs are anywhere.
Known ==
  /\ \A j \in IngestionJobs : Present(j) => j \in accepted
  /\ \A h \in Handlers : handler[h] # <<>> => handler[h].job \in accepted
  /\ \A r \in Requeuers : requeue[r] # <<>> => requeue[r].job \in accepted

\* A mover that has inserted and is about to delete finds its job in both tables.
Copied ==
  /\ \A h \in Handlers : Removing(h) => handler[h].job \in deadJobs /\ Present(handler[h].job)
  /\ \A r \in Requeuers : Deleting(r) => requeue[r].job \in deadJobs /\ Present(requeue[r].job)

\* At most one mover is about to delete a row of a job.
OneMover ==
  /\ \A g, h \in Handlers :
        Removing(g) /\ Removing(h) /\ handler[g].job = handler[h].job => g = h
  /\ \A q, r \in Requeuers :
        Deleting(q) /\ Deleting(r) /\ requeue[q].job = requeue[r].job => q = r
  /\ \A h \in Handlers, r \in Requeuers :
        Removing(h) /\ Deleting(r) => handler[h].job # requeue[r].job

VanishInv == QueueShape /\ Known /\ NothingVanishes /\ Copied /\ OneMover

LEMMA VanishInit == IngestionInit => VanishInv
<1> SUFFICES ASSUME IngestionInit PROVE VanishInv
  OBVIOUS
<1>1. NoRow \in Rows
  BY DEF NoRow, Rows
<1>2. QueueShape
  BY <1>1 DEF IngestionInit, QueueShape
<1>3. \A j \in IngestionJobs : ~Present(j)
  BY DEF IngestionInit, Present, NoRow
<1>4. Known /\ NothingVanishes /\ Copied /\ OneMover
  BY <1>3 DEF IngestionInit, Known, NothingVanishes, Copied, OneMover, Removing, At, Idle, Deleting
<1> QED BY <1>2, <1>4 DEF VanishInv

-----------------------------------------------------------------------------
(* What the steps have in common *)

\* A step keeps the invariant if it leaves the tables' jobs as they are and
\* starts no new deletion.
LEMMA MoversStay ==
  ASSUME VanishInv, QueueShape',
         \A j \in IngestionJobs : Present(j)' <=> Present(j),
         deadJobs' = deadJobs, accepted' = accepted,
         \A h \in Handlers : handler'[h] # <<>> => handler'[h].job \in accepted,
         \A h \in Handlers : Removing(h)' => Removing(h) /\ handler'[h].job = handler[h].job,
         \A r \in Requeuers : requeue'[r] # <<>> => requeue'[r].job \in accepted,
         \A r \in Requeuers : Deleting(r)' => Deleting(r) /\ requeue'[r].job = requeue[r].job
  PROVE  VanishInv'
<1>1. \A h \in Handlers : Removing(h) => handler[h].job \in IngestionJobs
  BY DEF VanishInv, QueueShape, Known, Removing, At, Idle
<1>2. \A r \in Requeuers : Deleting(r) => requeue[r].job \in IngestionJobs
  BY DEF VanishInv, QueueShape, Known, Deleting
<1>3. Known'
  BY DEF VanishInv, Known
<1>4. NothingVanishes'
  BY DEF VanishInv, QueueShape, NothingVanishes, Present
<1>5. Copied'
  BY <1>1, <1>2 DEF VanishInv, Copied
<1>6. OneMover'
  BY DEF VanishInv, OneMover
<1> QED BY <1>3, <1>4, <1>5, <1>6 DEF VanishInv

\* Handlers whose places change, but not to "removing".
LEMMA MoveType ==
  ASSUME VanishInv, NEW h \in Handlers, ~Idle(h), NEW place \in HandlerPlaces, Move(h, place)
  PROVE  /\ handler' \in [Handlers -> {<<>>} \cup Handling]
         /\ handler'[h] # <<>> /\ handler'[h].at = place /\ handler'[h].job = handler[h].job
         /\ \A g \in Handlers \ {h} : handler'[g] = handler[g]
<1>1. handler[h] \in Handling
  BY DEF VanishInv, QueueShape, Idle
<1>2. handler \in [Handlers -> {<<>>} \cup Handling]
  BY DEF VanishInv, QueueShape
<1>3. /\ handler' = [handler EXCEPT ![h] = [handler[h] EXCEPT !.at = place]]
      /\ [handler[h] EXCEPT !.at = place] \in Handling
  BY <1>1 DEF Move, Handling
<1>4. /\ [handler[h] EXCEPT !.at = place].at = place
      /\ [handler[h] EXCEPT !.at = place].job = handler[h].job
  BY <1>1 DEF Handling
<1>5. \A v \in Handling : v # <<>>
  BY DEF Handling
<1> QED BY <1>2, <1>3, <1>4, <1>5

LEMMA FinishType ==
  ASSUME VanishInv, NEW h \in Handlers, Finish(h)
  PROVE  /\ handler' \in [Handlers -> {<<>>} \cup Handling]
         /\ handler'[h] = <<>>
         /\ \A g \in Handlers \ {h} : handler'[g] = handler[g]
BY DEF Finish, VanishInv, QueueShape

\* An update of a row leaves it where it is.
LEMMA UpdateType ==
  ASSUME VanishInv, NEW j \in IngestionJobs, NEW next \in Rows, next.status # "absent",
         Update(j, next)
  PROVE  /\ ingestion' \in [IngestionJobs -> Rows]
         /\ \A k \in IngestionJobs : Present(k)' <=> Present(k)
BY DEF Update, VanishInv, QueueShape, Present

LEMMA SetStatusType ==
  ASSUME VanishInv, NEW j \in IngestionJobs, NEW status \in {"processing", "completed"},
         SetStatus(j, status)
  PROVE  /\ ingestion' \in [IngestionJobs -> Rows]
         /\ \A k \in IngestionJobs : Present(k)' <=> Present(k)
<1> DEFINE next == [ingestion[j] EXCEPT !.status = status]
<1>1. ingestion[j] \in Rows
  BY DEF VanishInv, QueueShape
<1>2. next \in Rows /\ next.status # "absent"
  BY <1>1 DEF Rows
<1>3. Update(j, next)
  BY DEF SetStatus
<1> HIDE DEF next
<1> QED BY <1>2, <1>3, UpdateType

-----------------------------------------------------------------------------
(* The steps *)

LEMMA EnqueueKeeps ==
  ASSUME VanishInv, NEW j \in IngestionJobs, EnqueueJob(j)
  PROVE  VanishInv'
<1> DEFINE next == [NoRow EXCEPT !.status = "pending"]
<1>1. next \in Rows /\ next.status # "absent"
  BY DEF NoRow, Rows
<1>2. ingestion' = [ingestion EXCEPT ![j] = next] /\ accepted' = accepted \cup {j}
  BY DEF EnqueueJob
<1> HIDE DEF next
<1>3. UNCHANGED <<deadJobs, handler, requeue>>
  BY DEF EnqueueJob
<1>4. ingestion' \in [IngestionJobs -> Rows]
  BY <1>1, <1>2 DEF VanishInv, QueueShape
<1>5. QueueShape'
  BY <1>2, <1>3, <1>4 DEF VanishInv, QueueShape
<1>6. Present(j)' /\ \A k \in IngestionJobs \ {j} : Present(k)' <=> Present(k)
  BY <1>1, <1>2 DEF VanishInv, QueueShape, Present
<1>7. Known' /\ NothingVanishes'
  BY <1>2, <1>3, <1>6 DEF VanishInv, QueueShape, Known, NothingVanishes, Present
<1>8. Copied'
  BY <1>3, <1>6 DEF VanishInv, QueueShape, Known, Copied, Removing, Deleting, At, Idle
<1>9. OneMover'
  BY <1>3 DEF VanishInv, OneMover, Removing, Deleting, At, Idle
<1> QED BY <1>5, <1>7, <1>8, <1>9 DEF VanishInv

\* The rows of a batch are present, so their handlers are about accepted jobs.
LEMMA PollKeeps ==
  ASSUME VanishInv, NEW p \in Polls, PollEnds(p)
  PROVE  VanishInv'
<1> DEFINE batch == Batch(poll[p])
           free == {h \in Handlers : Idle(h)}
           for == CHOOSE f \in [batch -> free] : \A j, k \in batch : j # k => f[j] # f[k]
           taken(h) == \E j \in batch : for[j] = h
           jobOf(h) == CHOOSE j \in batch : for[j] = h
           new(h) == [at |-> "marking", job |-> jobOf(h), attempts |-> ingestion[jobOf(h)].attempts]
<1>1. handler' = [h \in Handlers |-> IF taken(h) THEN new(h) ELSE handler[h]]
  BY DEF PollEnds
<1>2. UNCHANGED <<ingestion, deadJobs, requeue, accepted>>
  BY DEF PollEnds
<1>3. batch \subseteq {j \in IngestionJobs : Present(j)}
  BY DEF Batch, DueJobs, Present
<1> HIDE DEF batch, for
<1>4. \A h \in Handlers : taken(h) => jobOf(h) \in batch
  OBVIOUS
<1> HIDE DEF jobOf, taken
<1>5. \A h \in Handlers : taken(h) =>
        /\ jobOf(h) \in accepted /\ jobOf(h) \in IngestionJobs
        /\ ingestion[jobOf(h)].attempts \in Nat
  BY <1>3, <1>4 DEF VanishInv, Known, QueueShape, Rows
<1>6. \A h \in Handlers : taken(h) => new(h) \in Handling /\ new(h).at = "marking"
  BY <1>5 DEF Handling, HandlerPlaces
<1>7. \A h \in Handlers : taken(h) => new(h).job \in accepted
  BY <1>5
<1> HIDE DEF new
<1>8. QueueShape'
  BY <1>1, <1>2, <1>6 DEF VanishInv, QueueShape
<1>9. \A h \in Handlers : handler'[h] # <<>> => handler'[h].job \in accepted
  BY <1>1, <1>7 DEF VanishInv, Known
<1>10. \A h \in Handlers : Removing(h)' => Removing(h) /\ handler'[h].job = handler[h].job
  BY <1>1, <1>6 DEF Removing, At, Idle
<1> QED BY <1>2, <1>8, <1>9, <1>10, MoversStay DEF VanishInv, Known, Present, Deleting

LEMMA MarkKeeps ==
  ASSUME VanishInv, NEW h \in Handlers, MarkProcessing(h) \/ MarkCompleted(h)
  PROVE  VanishInv'
<1>1. handler[h] # <<>> /\ handler[h].job \in IngestionJobs
  BY DEF MarkProcessing, MarkCompleted, At, Idle, VanishInv, QueueShape, Handling
<1>2. UNCHANGED <<deadJobs, requeue, accepted>>
  BY DEF MarkProcessing, MarkCompleted, counters
<1>3. /\ ingestion' \in [IngestionJobs -> Rows]
      /\ \A k \in IngestionJobs : Present(k)' <=> Present(k)
  BY <1>1, SetStatusType DEF MarkProcessing, MarkCompleted
<1>4. CASE MarkProcessing(h)
  <2>1. /\ handler' \in [Handlers -> {<<>>} \cup Handling]
        /\ handler'[h].at = "completing" /\ handler'[h].job = handler[h].job
        /\ \A g \in Handlers \ {h} : handler'[g] = handler[g]
    BY <1>1, <1>4, MoveType DEF MarkProcessing, Idle, HandlerPlaces
  <2>2. QueueShape'
    BY <1>2, <1>3, <2>1 DEF VanishInv, QueueShape
  <2> QED BY <1>1, <1>2, <1>3, <2>1, <2>2, MoversStay
         DEF VanishInv, Known, Removing, At, Idle, Deleting
<1>5. CASE MarkCompleted(h)
  <2>1. /\ handler' \in [Handlers -> {<<>>} \cup Handling]
        /\ handler'[h] = <<>>
        /\ \A g \in Handlers \ {h} : handler'[g] = handler[g]
    BY <1>5, FinishType DEF MarkCompleted
  <2>2. QueueShape'
    BY <1>2, <1>3, <2>1 DEF VanishInv, QueueShape
  <2> QED BY <1>2, <1>3, <2>1, <2>2, MoversStay DEF VanishInv, Known, Removing, At, Idle, Deleting
<1> QED BY <1>4, <1>5

LEMMA ThrowKeeps ==
  ASSUME VanishInv, NEW h \in Handlers, HandlingThrows(h)
  PROVE  VanishInv'
<1>1. handler[h] # <<>>
  BY DEF HandlingThrows, At, Idle
<1>2. UNCHANGED <<ingestion, deadJobs, requeue, accepted>>
  BY DEF HandlingThrows
<1>3. /\ handler' \in [Handlers -> {<<>>} \cup Handling]
      /\ handler'[h].at = "failing" /\ handler'[h].job = handler[h].job
      /\ \A g \in Handlers \ {h} : handler'[g] = handler[g]
  BY <1>1, MoveType DEF HandlingThrows, Idle, HandlerPlaces
<1>4. QueueShape'
  BY <1>2, <1>3 DEF VanishInv, QueueShape
<1> QED BY <1>1, <1>2, <1>3, <1>4, MoversStay DEF VanishInv, Known, Present, Removing, At, Idle, Deleting

LEMMA FailKeeps ==
  ASSUME VanishInv, NEW h \in Handlers, MarkFailed(h)
  PROVE  VanishInv'
<1> DEFINE attempts == handler[h].attempts + 1
           next == [status |-> "failed", attempts |-> attempts, due |-> attempts >= MaxAttempts]
<1>1. handler[h] # <<>> /\ handler[h].job \in IngestionJobs /\ handler[h].attempts \in Nat
  BY DEF MarkFailed, At, Idle, VanishInv, QueueShape, Handling
<1>2. UNCHANGED <<deadJobs, requeue, accepted>>
  BY DEF MarkFailed, counters
<1>3. next \in Rows /\ next.status # "absent"
  BY <1>1 DEF Rows
<1>4. Update(handler[h].job, next)
  BY DEF MarkFailed
<1> HIDE DEF next
<1>5. /\ ingestion' \in [IngestionJobs -> Rows]
      /\ \A k \in IngestionJobs : Present(k)' <=> Present(k)
  BY <1>1, <1>3, <1>4, UpdateType
<1>6. Move(h, "burying") \/ Finish(h)
  BY DEF MarkFailed
<1>7. /\ handler' \in [Handlers -> {<<>>} \cup Handling]
      /\ \/ handler'[h] = <<>>
         \/ handler'[h].at = "burying" /\ handler'[h].job = handler[h].job
      /\ \A g \in Handlers \ {h} : handler'[g] = handler[g]
  <2>1. CASE Move(h, "burying")
    BY <1>1, <2>1, MoveType DEF Idle, HandlerPlaces
  <2>2. CASE Finish(h)
    BY <2>2, FinishType
  <2> QED BY <1>6, <2>1, <2>2
<1>8. QueueShape'
  BY <1>2, <1>5, <1>7 DEF VanishInv, QueueShape
<1> QED BY <1>1, <1>2, <1>5, <1>7, <1>8, MoversStay
       DEF VanishInv, Known, Removing, At, Idle, Deleting

\* The row is still there when the dead letter is inserted, because the job is
\* accepted and no dead letter.
LEMMA BuryKeeps ==
  ASSUME VanishInv, NEW h \in Handlers, InsertDeadLetter(h)
  PROVE  VanishInv'
<1>1. /\ handler[h] # <<>> /\ handler[h].job \in accepted /\ handler[h].job \in IngestionJobs
      /\ handler[h].job \notin deadJobs
  BY DEF InsertDeadLetter, At, Idle, VanishInv, Known, QueueShape
<1>2. /\ UNCHANGED <<ingestion, requeue, accepted>>
      /\ deadJobs' = deadJobs \cup {handler[h].job}
  BY DEF InsertDeadLetter, counters
<1>3. /\ handler' \in [Handlers -> {<<>>} \cup Handling]
      /\ handler'[h].at = "removing" /\ handler'[h].job = handler[h].job
      /\ \A g \in Handlers \ {h} : handler'[g] = handler[g]
  BY <1>1, MoveType DEF InsertDeadLetter, Idle, HandlerPlaces
<1>4. Present(handler[h].job)
  BY <1>1 DEF VanishInv, NothingVanishes, Present
<1>5. QueueShape'
  BY <1>1, <1>2, <1>3 DEF VanishInv, QueueShape
<1>6. Known' /\ NothingVanishes'
  BY <1>1, <1>2, <1>3 DEF VanishInv, Known, NothingVanishes, Present
<1>7. Copied'
  BY <1>2, <1>3, <1>4 DEF VanishInv, Copied, Present, Removing, Deleting, At, Idle
<1>8. /\ \A g \in Handlers : Removing(g) => handler[g].job # handler[h].job
      /\ \A r \in Requeuers : Deleting(r) => requeue[r].job # handler[h].job
  BY <1>1 DEF VanishInv, Copied
<1>9. OneMover'
  BY <1>2, <1>3, <1>8 DEF VanishInv, OneMover, Removing, Deleting, At, Idle
<1> QED BY <1>5, <1>6, <1>7, <1>9 DEF VanishInv

LEMMA RemoveKeeps ==
  ASSUME VanishInv, NEW h \in Handlers, RemoveBuried(h)
  PROVE  VanishInv'
<1> DEFINE j == handler[h].job
<1>1. Removing(h) /\ j \in IngestionJobs /\ j \in deadJobs
  BY DEF RemoveBuried, Removing, At, Idle, VanishInv, Copied, QueueShape
<1>2. UNCHANGED <<deadJobs, requeue, accepted>> /\ ingestion' = [ingestion EXCEPT ![j] = NoRow]
  BY DEF RemoveBuried, counters
<1>3. /\ handler' \in [Handlers -> {<<>>} \cup Handling]
      /\ handler'[h] = <<>>
      /\ \A g \in Handlers \ {h} : handler'[g] = handler[g]
  BY FinishType DEF RemoveBuried
<1>4. NoRow \in Rows /\ NoRow.status = "absent"
  BY DEF NoRow, Rows
<1>5. QueueShape'
  BY <1>2, <1>3, <1>4 DEF VanishInv, QueueShape
<1>6. \A k \in IngestionJobs : Present(k)' <=> (Present(k) /\ k # j)
  <2> HIDE DEF j
  <2>1. \A k \in IngestionJobs : ingestion'[k] = IF k = j THEN NoRow ELSE ingestion[k]
    BY <1>1, <1>2 DEF VanishInv, QueueShape
  <2>2. Present(j)
    BY <1>1 DEF VanishInv, Copied, j
  <2> QED BY <1>1, <1>4, <2>1, <2>2 DEF Present
<1>7. Known' /\ NothingVanishes'
  BY <1>1, <1>2, <1>3, <1>6 DEF VanishInv, QueueShape, Known, NothingVanishes, Present
<1>8. /\ \A g \in Handlers \ {h} : Removing(g) => handler[g].job # j
      /\ \A r \in Requeuers : Deleting(r) => requeue[r].job # j
  BY <1>1 DEF VanishInv, OneMover
<1>9. Copied'
  BY <1>2, <1>3, <1>6, <1>8 DEF VanishInv, QueueShape, Known, Copied, Removing, Deleting, At, Idle
<1>10. OneMover'
  BY <1>2, <1>3 DEF VanishInv, OneMover, Removing, Deleting, At, Idle
<1> QED BY <1>5, <1>7, <1>9, <1>10 DEF VanishInv

LEMMA DeathKeeps ==
  ASSUME VanishInv, Dies, UNCHANGED <<ingestion, deadJobs, accepted>>
  PROVE  VanishInv'
<1>1. /\ \A h \in Handlers : handler'[h] = <<>>
      /\ \A r \in Requeuers : requeue'[r] = <<>>
  BY DEF Dies
<1>2. QueueShape'
  BY DEF Dies, VanishInv, QueueShape
<1> QED BY <1>1, <1>2, MoversStay DEF Present, Removing, At, Idle, Deleting

LEMMA DelayKeeps ==
  ASSUME VanishInv, NEW j \in IngestionJobs, RetryDelayElapses(j)
  PROVE  VanishInv'
<1> DEFINE next == [ingestion[j] EXCEPT !.due = TRUE]
<1>1. ingestion[j] \in Rows
  BY DEF VanishInv, QueueShape
<1>2. next \in Rows /\ next.status = ingestion[j].status
  BY <1>1 DEF Rows
<1>3. ingestion' = [ingestion EXCEPT ![j] = next]
  BY DEF RetryDelayElapses
<1> HIDE DEF next
<1>4. UNCHANGED <<deadJobs, handler, requeue, accepted>>
  BY DEF RetryDelayElapses, counters
<1>5. QueueShape'
  BY <1>2, <1>3, <1>4 DEF VanishInv, QueueShape
<1>6. \A k \in IngestionJobs : Present(k)' <=> Present(k)
  BY <1>2, <1>3 DEF VanishInv, QueueShape, Present
<1> QED BY <1>4, <1>5, <1>6, MoversStay DEF VanishInv, Known, Removing, At, Idle, Deleting

LEMMA ReadKeeps ==
  ASSUME VanishInv, NEW r \in Requeuers, NEW j \in IngestionJobs, RequeueRead(r, j)
  PROVE  VanishInv'
<1> DEFINE new == [at |-> "inserting", job |-> j]
<1>1. j \in accepted
  BY DEF RequeueRead, VanishInv, QueueShape
<1>2. requeue' = [requeue EXCEPT ![r] = new] /\ UNCHANGED <<ingestion, deadJobs, handler, accepted>>
  BY DEF RequeueRead
<1>3. new \in Requeuing /\ new.at # "deleting" /\ new.job = j
  BY DEF Requeuing
<1> HIDE DEF new
<1>4. QueueShape'
  BY <1>2, <1>3 DEF VanishInv, QueueShape
<1>5. \A q \in Requeuers : requeue'[q] = IF q = r THEN new ELSE requeue[q]
  BY <1>2 DEF VanishInv, QueueShape
<1>6. \A q \in Requeuers : requeue'[q] # <<>> => requeue'[q].job \in accepted
  BY <1>1, <1>3, <1>5 DEF VanishInv, Known
<1>7. \A q \in Requeuers : Deleting(q)' => Deleting(q) /\ requeue'[q].job = requeue[q].job
  BY <1>3, <1>5 DEF Deleting
<1> QED BY <1>2, <1>4, <1>6, <1>7, MoversStay DEF VanishInv, Known, Present, Removing, At, Idle

\* The dead letter is still there when the row is inserted, because the job is
\* accepted and has no row.
LEMMA InsertKeeps ==
  ASSUME VanishInv, NEW r \in Requeuers, RequeueInsert(r)
  PROVE  VanishInv'
<1> DEFINE j == requeue[r].job
           next == [NoRow EXCEPT !.status = "pending"]
<1>1. requeue[r] \in Requeuing /\ j \in accepted /\ j \in IngestionJobs
  BY DEF RequeueInsert, VanishInv, Known, QueueShape
<1>2. UNCHANGED <<deadJobs, handler, accepted>>
  BY DEF RequeueInsert
<1>3. CASE Present(j)
  <2>1. UNCHANGED ingestion /\ requeue' = [requeue EXCEPT ![r] = <<>>]
    BY <1>3 DEF RequeueInsert, Present
  <2>2. QueueShape'
    BY <1>2, <2>1 DEF VanishInv, QueueShape
  <2>3. \A q \in Requeuers : requeue'[q] = IF q = r THEN <<>> ELSE requeue[q]
    BY <2>1 DEF VanishInv, QueueShape
  <2> QED BY <1>2, <2>1, <2>2, <2>3, MoversStay
         DEF VanishInv, Known, Present, Removing, At, Idle, Deleting
<1>4. CASE ~Present(j)
  <2>1. next \in Rows /\ next.status # "absent"
    BY DEF NoRow, Rows
  <2>2. ingestion' = [ingestion EXCEPT ![j] = next]
    BY <1>4 DEF RequeueInsert, Present
  <2> HIDE DEF next
  <2> DEFINE new == [requeue[r] EXCEPT !.at = "deleting"]
  <2>3. requeue' = [requeue EXCEPT ![r] = new]
    BY <1>4 DEF RequeueInsert, Present
  <2>4. new \in Requeuing /\ new.job = j /\ new.at = "deleting"
    BY <1>1 DEF Requeuing
  <2> HIDE DEF new
  <2>5. QueueShape'
    BY <1>1, <1>2, <2>1, <2>2, <2>3, <2>4 DEF VanishInv, QueueShape
  <2>6. \A k \in IngestionJobs : Present(k)' <=> (Present(k) \/ k = j)
    <3> HIDE DEF j
    <3>1. \A k \in IngestionJobs : ingestion'[k] = IF k = j THEN next ELSE ingestion[k]
      BY <1>1, <2>2 DEF VanishInv, QueueShape
    <3> QED BY <1>1, <2>1, <3>1 DEF Present
  <2>7. \A q \in Requeuers : requeue'[q] = IF q = r THEN new ELSE requeue[q]
    BY <2>3 DEF VanishInv, QueueShape
  <2>8. Known' /\ NothingVanishes'
    BY <1>1, <1>2, <2>4, <2>6, <2>7 DEF VanishInv, QueueShape, Known, NothingVanishes, Present
  <2>9. j \in deadJobs
    BY <1>1, <1>4 DEF VanishInv, NothingVanishes, Present
  <2>10. /\ \A h \in Handlers : Removing(h) => handler[h].job # j
         /\ \A q \in Requeuers : Deleting(q) => requeue[q].job # j
    BY <1>4 DEF VanishInv, Copied
  <2>11. Copied'
    BY <1>2, <2>4, <2>6, <2>7, <2>9 DEF VanishInv, QueueShape, Known, Copied, Removing, Deleting, At, Idle
  <2>12. OneMover'
    BY <1>2, <2>4, <2>7, <2>10 DEF VanishInv, OneMover, Removing, Deleting, At, Idle
  <2> QED BY <2>5, <2>8, <2>11, <2>12 DEF VanishInv
<1> QED BY <1>3, <1>4

LEMMA DeleteKeeps ==
  ASSUME VanishInv, NEW r \in Requeuers, RequeueDelete(r)
  PROVE  VanishInv'
<1> DEFINE j == requeue[r].job
<1>1. Deleting(r) /\ Present(j)
  BY DEF RequeueDelete, Deleting, VanishInv, Copied
<1>2. /\ UNCHANGED <<ingestion, handler, accepted>> /\ deadJobs' = deadJobs \ {j}
      /\ requeue' = [requeue EXCEPT ![r] = <<>>]
  BY DEF RequeueDelete, counters
<1>3. QueueShape'
  BY <1>2 DEF VanishInv, QueueShape
<1>4. \A q \in Requeuers : requeue'[q] = IF q = r THEN <<>> ELSE requeue[q]
  BY <1>2 DEF VanishInv, QueueShape
<1>5. Known' /\ NothingVanishes'
  BY <1>1, <1>2, <1>4 DEF VanishInv, Known, NothingVanishes, Present
<1>6. /\ \A h \in Handlers : Removing(h) => handler[h].job # j
      /\ \A q \in Requeuers \ {r} : Deleting(q) => requeue[q].job # j
  BY <1>1 DEF VanishInv, OneMover
<1>7. Copied'
  BY <1>2, <1>4, <1>6 DEF VanishInv, Copied, Present, Removing, Deleting, At, Idle
<1>8. OneMover'
  BY <1>2, <1>4 DEF VanishInv, OneMover, Removing, Deleting, At, Idle
<1> QED BY <1>3, <1>5, <1>7, <1>8 DEF VanishInv

LEMMA VanishStep == VanishInv /\ [IngestionNext]_ingestionVars => VanishInv'
<1> SUFFICES ASSUME VanishInv, [IngestionNext]_ingestionVars PROVE VanishInv'
  OBVIOUS
<1>1. ASSUME NEW j \in IngestionJobs, EnqueueJob(j) \/ RetryDelayElapses(j) PROVE VanishInv'
  BY <1>1, EnqueueKeeps, DelayKeeps
<1>2. ASSUME NEW p \in Polls, PollBegins(p) PROVE VanishInv'
  <2>1. UNCHANGED <<ingestion, deadJobs, handler, requeue, accepted>>
    BY <1>2 DEF PollBegins
  <2> QED BY <2>1 DEF VanishInv, QueueShape, Known, NothingVanishes, Copied, OneMover, Present, Removing,
                      Deleting, At, Idle
<1>3. ASSUME NEW p \in Polls, PollEnds(p) PROVE VanishInv'
  BY <1>3, PollKeeps
<1>4. ASSUME NEW h \in Handlers, HandleJob(h) \/ HandlingThrows(h) PROVE VanishInv'
  <2>1. CASE DeadLetterConflict(h)
    BY <2>1, DeathKeeps DEF DeadLetterConflict
  <2>2. CASE ~DeadLetterConflict(h)
    BY <1>4, <2>2, MarkKeeps, FailKeeps, BuryKeeps, RemoveKeeps, ThrowKeeps DEF HandleJob
  <2> QED BY <2>1, <2>2
<1>5. ASSUME NEW r \in Requeuers, NEW j \in IngestionJobs, RequeueRead(r, j) PROVE VanishInv'
  BY <1>5, ReadKeeps
<1>6. ASSUME NEW r \in Requeuers, RequeueInsert(r) \/ RequeueDelete(r) PROVE VanishInv'
  BY <1>6, InsertKeeps, DeleteKeeps
<1>7. CASE ProcessDies
  BY <1>7, DeathKeeps DEF ProcessDies
<1>8. CASE UNCHANGED ingestionVars
  BY <1>8 DEF ingestionVars, VanishInv, QueueShape, Known, NothingVanishes, Copied, OneMover, Present,
              Removing, Deleting, At, Idle
<1> QED BY <1>1, <1>2, <1>3, <1>4, <1>5, <1>6, <1>7, <1>8 DEF IngestionNext

\* An accepted job is in one of the two tables, whatever handlers, requeues and
\* deaths do to it at once.
THEOREM IngestionNothingVanishes == IngestionSpec => []NothingVanishes
<1>1. VanishInv => NothingVanishes
  BY DEF VanishInv
<1> QED BY <1>1, VanishInit, VanishStep, PTL DEF IngestionSpec

-----------------------------------------------------------------------------
(* Types of the ingestion queue *)

\* A handler has read fewer attempts than there are.
HandledJob == [at : HandlerPlaces, job : IngestionJobs, attempts : 0 .. MaxAttempts - 1]
RequeuedJob == [at : {"inserting", "deleting"}, job : IngestionJobs]

BusyHandlers == {h \in Handlers : ~Idle(h)}

IngestionTypeInv ==
  /\ ingestion \in [IngestionJobs -> IngestionRow]
  /\ \A j \in IngestionJobs : ingestion[j].status = "pending" => ingestion[j].attempts < MaxAttempts
  /\ deadJobs \in SUBSET IngestionJobs
  /\ poll \in [Polls -> 0 .. ConcurrencyLimit]
  /\ handler \in [Handlers -> {<<>>} \cup HandledJob]
  /\ requeue \in [Requeuers -> {<<>>} \cup RequeuedJob]
  /\ processingCount = Cardinality(BusyHandlers)
  /\ accepted \in SUBSET IngestionJobs
  /\ processDied \in BOOLEAN
  /\ refusals \in 0 .. MaxRefusals /\ requeues \in 0 .. MaxRequeues

LEMMA IngestionNumbers ==
  /\ MaxAttempts \in Nat \ {0} /\ ConcurrencyLimit \in Nat \ {0}
  /\ MaxRefusals \in Nat /\ MaxRequeues \in Nat
  /\ 0 \in 0 .. MaxAttempts
  /\ \A S \in SUBSET Handlers : IsFiniteSet(S) /\ Cardinality(S) \in Nat
  /\ \A S \in SUBSET IngestionJobs : IsFiniteSet(S) /\ Cardinality(S) \in Nat
<1>1. ASSUME NEW S \in SUBSET Handlers PROVE IsFiniteSet(S) /\ Cardinality(S) \in Nat
  BY IngestionAssumption, FS_Subset, FS_CardinalityType
<1>2. ASSUME NEW S \in SUBSET IngestionJobs PROVE IsFiniteSet(S) /\ Cardinality(S) \in Nat
  BY IngestionAssumption, FS_Subset, FS_CardinalityType
<1> QED BY <1>1, <1>2, IngestionAssumption

-----------------------------------------------------------------------------
(* Handlers for a batch *)

\* There is a slot for each row, if there are as many slots as rows.
LEMMA SlotsExist ==
  ASSUME NEW B, NEW F, IsFiniteSet(B), IsFiniteSet(F), Cardinality(B) <= Cardinality(F)
  PROVE  \E f \in [B -> F] : \A j, k \in B : j # k => f[j] # f[k]
<1>0. PICK n \in Nat, m \in Nat : n = Cardinality(B) /\ m = Cardinality(F) /\ n <= m
  BY FS_CardinalityType
<1>1. ExistsBijection(B, 1 .. n)
  BY <1>0, FS_CardinalityType, Fun_ExistsBijSymmetric
<1>2. ExistsBijection(1 .. m, F)
  BY <1>0, FS_CardinalityType
<1>3. PICK a : a \in Bijection(B, 1 .. n)
  BY <1>1, Fun_ExistsBij
<1>4. PICK b : b \in Bijection(1 .. m, F)
  BY <1>2, Fun_ExistsBij
<1>5. a \in [B -> 1 .. n] /\ \A j, k \in B : a[j] = a[k] => j = k
  BY <1>3, Fun_BijectionProperties
<1>6. b \in [1 .. m -> F] /\ \A i, k \in 1 .. m : b[i] = b[k] => i = k
  BY <1>4, Fun_BijectionProperties
<1>7. \A j \in B : a[j] \in 1 .. m
  BY <1>0, <1>5
<1> DEFINE f == [j \in B |-> b[a[j]]]
<1>8. f \in [B -> F]
  BY <1>6, <1>7
<1>9. \A j, k \in B : j # k => f[j] # f[k]
  BY <1>5, <1>6, <1>7
<1> QED BY <1>8, <1>9

LEMMA SlotsCounted ==
  ASSUME NEW B, NEW F, IsFiniteSet(B), NEW f \in [B -> F], \A j, k \in B : j # k => f[j] # f[k],
         NEW T, T = {h \in F : \E j \in B : f[j] = h}
  PROVE  IsFiniteSet(T) /\ Cardinality(T) = Cardinality(B)
<1>1. f \in [B -> T]
  OBVIOUS
<1>2. \A j, k \in B : f[j] = f[k] => j = k
  OBVIOUS
<1>3. \A h \in T : \E j \in B : f[j] = h
  OBVIOUS
<1>4. f \in Bijection(B, T)
  BY <1>1, <1>2, <1>3, Fun_IsBij
<1>5. ExistsBijection(B, T)
  BY <1>4, Fun_ExistsBij
<1> QED BY <1>5, FS_Bijection

-----------------------------------------------------------------------------
(* What the steps have in common *)

LEMMA HandlerKinds ==
  ASSUME IngestionTypeInv, NEW h \in Handlers, ~Idle(h)
  PROVE  /\ handler[h] \in HandledJob /\ handler[h].job \in IngestionJobs
         /\ handler[h].attempts \in Nat /\ handler[h].attempts < MaxAttempts
<1>1. handler[h] \in HandledJob
  BY DEF IngestionTypeInv, Idle
<1> QED BY <1>1, IngestionNumbers DEF HandledJob

LEMMA JobsAreHandled == \A v \in HandledJob : v # <<>>
BY DEF HandledJob

\* A handler goes on.
LEMMA MoveTypes ==
  ASSUME IngestionTypeInv, NEW h \in Handlers, ~Idle(h), NEW place \in HandlerPlaces, Move(h, place),
         processingCount' = processingCount
  PROVE  /\ handler' \in [Handlers -> {<<>>} \cup HandledJob]
         /\ processingCount' = Cardinality(BusyHandlers')
<1> DEFINE v == [handler[h] EXCEPT !.at = place]
<1>1. v \in HandledJob
  BY HandlerKinds DEF HandledJob
<1>2. handler' = [handler EXCEPT ![h] = v]
  BY DEF Move
<1> HIDE DEF v
<1>3. handler' \in [Handlers -> {<<>>} \cup HandledJob]
  BY <1>1, <1>2 DEF IngestionTypeInv
<1>4. BusyHandlers' = BusyHandlers
  BY <1>1, <1>2, JobsAreHandled DEF IngestionTypeInv, BusyHandlers, Idle
<1> QED BY <1>3, <1>4 DEF IngestionTypeInv

\* A handler gives its slot back.
LEMMA FinishTypes ==
  ASSUME IngestionTypeInv, NEW h \in Handlers, ~Idle(h), Finish(h)
  PROVE  /\ handler' \in [Handlers -> {<<>>} \cup HandledJob]
         /\ processingCount' = Cardinality(BusyHandlers')
<1>1. handler' = [handler EXCEPT ![h] = <<>>] /\ processingCount' = processingCount - 1
  BY DEF Finish
<1>2. handler' \in [Handlers -> {<<>>} \cup HandledJob]
  BY <1>1 DEF IngestionTypeInv
<1>3. BusyHandlers' = BusyHandlers \ {h} /\ h \in BusyHandlers /\ BusyHandlers \in SUBSET Handlers
  BY <1>1 DEF IngestionTypeInv, BusyHandlers, Idle
<1>4. Cardinality(BusyHandlers') = Cardinality(BusyHandlers) - 1
  BY <1>3, IngestionNumbers, FS_RemoveElement
<1> QED BY <1>1, <1>2, <1>4 DEF IngestionTypeInv

\* A row takes the place of another one; no row is added.
LEMMA UpdateTypes ==
  ASSUME IngestionTypeInv, NEW j \in IngestionJobs, NEW newRow \in IngestionRow,
         newRow.status = "pending" => newRow.attempts < MaxAttempts, Update(j, newRow)
  PROVE  /\ ingestion' \in [IngestionJobs -> IngestionRow]
         /\ \A k \in IngestionJobs : ingestion'[k].status = "pending" => ingestion'[k].attempts < MaxAttempts
BY DEF Update, IngestionTypeInv

LEMMA RowTypes ==
  ASSUME IngestionTypeInv, NEW j \in IngestionJobs, NEW newRow \in IngestionRow,
         newRow.status = "pending" => newRow.attempts < MaxAttempts, ingestion' = [ingestion EXCEPT ![j] = newRow]
  PROVE  /\ ingestion' \in [IngestionJobs -> IngestionRow]
         /\ \A k \in IngestionJobs : ingestion'[k].status = "pending" => ingestion'[k].attempts < MaxAttempts
BY DEF IngestionTypeInv

LEMMA StatusTypes ==
  ASSUME IngestionTypeInv, NEW j \in IngestionJobs, NEW status \in {"processing", "completed"},
         SetStatus(j, status)
  PROVE  /\ ingestion' \in [IngestionJobs -> IngestionRow]
         /\ \A k \in IngestionJobs : ingestion'[k].status = "pending" => ingestion'[k].attempts < MaxAttempts
<1> DEFINE newRow == [ingestion[j] EXCEPT !.status = status]
<1>1. ingestion[j] \in IngestionRow
  BY DEF IngestionTypeInv
<1>2. newRow \in IngestionRow /\ newRow.status # "pending"
  BY <1>1 DEF IngestionRow
<1>3. Update(j, newRow)
  BY DEF SetStatus
<1> HIDE DEF newRow
<1> QED BY <1>2, <1>3, UpdateTypes

LEMMA FreshRows ==
  LET pending == [NoRow EXCEPT !.status = "pending"] IN
  /\ NoRow \in IngestionRow /\ NoRow.status # "pending"
  /\ pending \in IngestionRow /\ pending.attempts < MaxAttempts
<1> DEFINE pending == [NoRow EXCEPT !.status = "pending"]
<1>1. NoRow \in IngestionRow /\ NoRow.status # "pending"
  BY IngestionNumbers DEF NoRow, IngestionRow
<1>2. pending \in IngestionRow /\ pending.attempts = 0
  BY IngestionNumbers DEF NoRow, IngestionRow
<1> QED BY <1>1, <1>2, IngestionNumbers

LEMMA RefusedTypes ==
  ASSUME IngestionTypeInv, Refused
  PROVE  refusals' \in 0 .. MaxRefusals
BY IngestionNumbers DEF IngestionTypeInv, Refused

LEMMA DiesTypes ==
  ASSUME IngestionTypeInv, Dies, UNCHANGED <<ingestion, deadJobs, accepted, requeues>>,
         refusals' \in 0 .. MaxRefusals
  PROVE  IngestionTypeInv'
<1>1. /\ processDied' = TRUE /\ poll' = [p \in Polls |-> 0] /\ handler' = [h \in Handlers |-> <<>>]
      /\ requeue' = [r \in Requeuers |-> <<>>] /\ processingCount' = 0
  BY DEF Dies
<1>2. BusyHandlers' = {}
  BY <1>1 DEF BusyHandlers, Idle
<1>3. processingCount' = Cardinality(BusyHandlers')
  BY <1>1, <1>2, FS_EmptySet
<1>4. poll' \in [Polls -> 0 .. ConcurrencyLimit]
  BY <1>1, IngestionNumbers
<1>5. handler' \in [Handlers -> {<<>>} \cup HandledJob] /\ requeue' \in [Requeuers -> {<<>>} \cup RequeuedJob]
  BY <1>1
<1> QED BY <1>1, <1>3, <1>4, <1>5 DEF IngestionTypeInv

-----------------------------------------------------------------------------
(* Steps *)

LEMMA EnqueueTypes ==
  ASSUME IngestionTypeInv, NEW j \in IngestionJobs, EnqueueJob(j)
  PROVE  IngestionTypeInv'
<1> DEFINE newRow == [NoRow EXCEPT !.status = "pending"]
<1>1. /\ ingestion' = [ingestion EXCEPT ![j] = newRow] /\ accepted' = accepted \cup {j}
      /\ UNCHANGED <<deadJobs, poll, handler, requeue, processingCount, processDied, refusals, requeues>>
  BY DEF EnqueueJob
<1>2. newRow \in IngestionRow /\ (newRow.status = "pending" => newRow.attempts < MaxAttempts)
  BY FreshRows
<1> HIDE DEF newRow
<1> QED BY <1>1, <1>2, RowTypes DEF IngestionTypeInv, BusyHandlers, Idle

LEMMA PollBeginTypes ==
  ASSUME IngestionTypeInv, NEW p \in Polls, PollBegins(p)
  PROVE  IngestionTypeInv'
<1>1. /\ poll' = [poll EXCEPT ![p] = ConcurrencyLimit - processingCount] /\ processingCount < ConcurrencyLimit
      /\ UNCHANGED <<ingestion, deadJobs, handler, requeue, processingCount, accepted, processDied,
                     refusals, requeues>>
  BY DEF PollBegins
<1>2. processingCount \in Nat
  <2>1. BusyHandlers \in SUBSET Handlers
    BY DEF BusyHandlers
  <2> QED BY <2>1, IngestionNumbers DEF IngestionTypeInv
<1>3. ConcurrencyLimit - processingCount \in 0 .. ConcurrencyLimit
  BY <1>1, <1>2, IngestionNumbers
<1>4. poll' \in [Polls -> 0 .. ConcurrencyLimit]
  BY <1>1, <1>3 DEF IngestionTypeInv
<1> QED BY <1>1, <1>4 DEF IngestionTypeInv, BusyHandlers, Idle

LEMMA PollEndTypes ==
  ASSUME IngestionTypeInv, NEW p \in Polls, PollEnds(p)
  PROVE  IngestionTypeInv'
<1> DEFINE batch == Batch(poll[p])
           free == {h \in Handlers : Idle(h)}
           for == CHOOSE f \in [batch -> free] : \A j, k \in batch : j # k => f[j] # f[k]
           taken(h) == \E j \in batch : for[j] = h
           carried(h) == CHOOSE j \in batch : for[j] = h
           new(h) == [at |-> "marking", job |-> carried(h), attempts |-> ingestion[carried(h)].attempts]
           T == {h \in free : taken(h)}
<1>1. /\ handler' = [h \in Handlers |-> IF taken(h) THEN new(h) ELSE handler[h]]
      /\ processingCount' = processingCount + Cardinality(batch)
      /\ Cardinality(batch) <= Cardinality(free)
      /\ poll' = [poll EXCEPT ![p] = 0]
      /\ UNCHANGED <<ingestion, deadJobs, requeue, accepted, processDied, refusals, requeues>>
  BY DEF PollEnds
<1>2. \A j \in batch : j \in IngestionJobs /\ ingestion[j].attempts \in 0 .. MaxAttempts - 1
  <2>1. \A j \in batch : /\ j \in IngestionJobs
                         /\ ingestion[j].status = "pending" \/ ingestion[j].attempts < MaxAttempts
    BY DEF Batch, DueJobs
  <2>2. \A j \in IngestionJobs : ingestion[j].attempts \in 0 .. MaxAttempts
    BY DEF IngestionTypeInv, IngestionRow
  <2> HIDE DEF batch
  <2> QED BY <2>1, <2>2, IngestionNumbers DEF IngestionTypeInv
<1>3. IsFiniteSet(batch) /\ IsFiniteSet(free) /\ Cardinality(batch) \in Nat
  <2>1. batch \in SUBSET IngestionJobs /\ free \in SUBSET Handlers
    BY DEF Batch, DueJobs
  <2> HIDE DEF batch, free
  <2> QED BY <2>1, IngestionNumbers
<1>4. free \subseteq Handlers /\ \A h \in Handlers : h \in free <=> h \notin BusyHandlers
  BY DEF BusyHandlers
<1> HIDE DEF batch, free
<1>5. for \in [batch -> free] /\ \A j, k \in batch : j # k => for[j] # for[k]
  <2>1. \E f \in [batch -> free] : \A j, k \in batch : j # k => f[j] # f[k]
    BY <1>1, <1>3, SlotsExist
  <2> QED BY <2>1
<1> HIDE DEF for
<1>6. IsFiniteSet(T) /\ Cardinality(T) = Cardinality(batch)
  BY <1>3, <1>5, SlotsCounted
<1>7. \A h \in Handlers : taken(h) => h \in T /\ carried(h) \in batch
  BY <1>5
<1>8. \A h \in T : taken(h) /\ h \in free
  OBVIOUS
<1> HIDE DEF T, taken, carried
<1>9. \A h \in Handlers : taken(h) => new(h) \in HandledJob
  BY <1>2, <1>7 DEF HandledJob, HandlerPlaces
<1> HIDE DEF new
<1>10. handler' \in [Handlers -> {<<>>} \cup HandledJob]
  BY <1>1, <1>9 DEF IngestionTypeInv
<1>11. BusyHandlers' = BusyHandlers \cup T /\ BusyHandlers \cap T = {}
  <2>1. \A h \in Handlers : handler'[h] # <<>> <=> taken(h) \/ handler[h] # <<>>
    BY <1>1, <1>9, JobsAreHandled
  <2>2. \A h \in Handlers : taken(h) <=> h \in T
    BY <1>7, <1>8
  <2>3. T \subseteq Handlers /\ BusyHandlers \subseteq Handlers
    BY <1>4, <1>8 DEF BusyHandlers
  <2>4. BusyHandlers' = {h \in Handlers : handler'[h] # <<>>} /\ BusyHandlers = {h \in Handlers : handler[h] # <<>>}
    BY DEF BusyHandlers, Idle
  <2>5. BusyHandlers' = BusyHandlers \cup T
    BY <2>1, <2>2, <2>3, <2>4
  <2>6. BusyHandlers \cap T = {}
    BY <1>4, <1>8
  <2> QED BY <2>5, <2>6
<1>12. processingCount' = Cardinality(BusyHandlers')
  <2>1. IsFiniteSet(BusyHandlers) /\ Cardinality(BusyHandlers) \in Nat
    BY IngestionNumbers DEF BusyHandlers
  <2>2. Cardinality(BusyHandlers \cup T) =
          Cardinality(BusyHandlers) + Cardinality(T) - Cardinality(BusyHandlers \cap T)
    BY <2>1, <1>6, FS_Union
  <2>3. Cardinality(BusyHandlers \cap T) = 0
    BY <1>11, FS_EmptySet
  <2>4. processingCount = Cardinality(BusyHandlers)
    BY DEF IngestionTypeInv
  <2> QED BY <2>1, <2>2, <2>3, <2>4, <1>1, <1>3, <1>6, <1>11
<1>13. poll' \in [Polls -> 0 .. ConcurrencyLimit]
  BY <1>1, IngestionNumbers DEF IngestionTypeInv
<1> QED BY <1>1, <1>10, <1>12, <1>13 DEF IngestionTypeInv

LEMMA MarkTypes ==
  ASSUME IngestionTypeInv, NEW h \in Handlers, MarkProcessing(h) \/ MarkCompleted(h)
  PROVE  IngestionTypeInv'
<1>1. ~Idle(h) /\ handler[h].job \in IngestionJobs
  BY HandlerKinds DEF MarkProcessing, MarkCompleted, At
<1>2. UNCHANGED <<deadJobs, poll, requeue, accepted, processDied, refusals, requeues>>
  BY DEF MarkProcessing, MarkCompleted, counters
<1>3. /\ ingestion' \in [IngestionJobs -> IngestionRow]
      /\ \A k \in IngestionJobs : ingestion'[k].status = "pending" => ingestion'[k].attempts < MaxAttempts
  BY <1>1, StatusTypes DEF MarkProcessing, MarkCompleted
<1>4. handler' \in [Handlers -> {<<>>} \cup HandledJob] /\ processingCount' = Cardinality(BusyHandlers')
  BY <1>1, MoveTypes, FinishTypes DEF MarkProcessing, MarkCompleted, HandlerPlaces
<1> QED BY <1>2, <1>3, <1>4 DEF IngestionTypeInv

LEMMA HandlingThrowsTypes ==
  ASSUME IngestionTypeInv, NEW h \in Handlers, HandlingThrows(h)
  PROVE  IngestionTypeInv'
<1>1. ~Idle(h) /\ Move(h, "failing") /\ refusals' \in 0 .. MaxRefusals
      /\ UNCHANGED <<ingestion, deadJobs, poll, requeue, processingCount, accepted, processDied, requeues>>
  BY RefusedTypes DEF HandlingThrows, At
<1>2. handler' \in [Handlers -> {<<>>} \cup HandledJob] /\ processingCount' = Cardinality(BusyHandlers')
  BY <1>1, MoveTypes DEF HandlerPlaces
<1> QED BY <1>1, <1>2 DEF IngestionTypeInv

LEMMA MarkFailedTypes ==
  ASSUME IngestionTypeInv, NEW h \in Handlers, MarkFailed(h)
  PROVE  IngestionTypeInv'
<1>1. ~Idle(h)
  BY DEF MarkFailed, At
<1>2. PICK n \in 0 .. MaxAttempts : n = handler[h].attempts + 1
  BY <1>1, HandlerKinds, IngestionNumbers
<1> DEFINE newRow == [status |-> "failed", attempts |-> n, due |-> n >= MaxAttempts]
<1>3. newRow \in IngestionRow /\ newRow.status # "pending"
  BY DEF IngestionRow
<1>4. Update(handler[h].job, newRow) /\ UNCHANGED <<deadJobs, poll, requeue, accepted, processDied, refusals, requeues>>
  BY <1>2 DEF MarkFailed, counters
<1> HIDE DEF newRow
<1>5. /\ ingestion' \in [IngestionJobs -> IngestionRow]
      /\ \A k \in IngestionJobs : ingestion'[k].status = "pending" => ingestion'[k].attempts < MaxAttempts
  BY <1>1, <1>3, <1>4, HandlerKinds, UpdateTypes
<1>6. \/ Move(h, "burying") /\ processingCount' = processingCount
      \/ Finish(h)
  BY DEF MarkFailed
<1>7. handler' \in [Handlers -> {<<>>} \cup HandledJob] /\ processingCount' = Cardinality(BusyHandlers')
  BY <1>1, <1>6, MoveTypes, FinishTypes DEF HandlerPlaces
<1> QED BY <1>4, <1>5, <1>7 DEF IngestionTypeInv

LEMMA BuryTypes ==
  ASSUME IngestionTypeInv, NEW h \in Handlers, InsertDeadLetter(h)
  PROVE  IngestionTypeInv'
<1>1. ~Idle(h) /\ Move(h, "removing") /\ deadJobs' = deadJobs \cup {handler[h].job}
      /\ UNCHANGED <<ingestion, poll, requeue, processingCount, accepted, processDied, refusals, requeues>>
  BY DEF InsertDeadLetter, At, counters
<1>2. handler' \in [Handlers -> {<<>>} \cup HandledJob] /\ processingCount' = Cardinality(BusyHandlers')
  BY <1>1, MoveTypes DEF HandlerPlaces
<1>3. deadJobs' \in SUBSET IngestionJobs
  BY <1>1, HandlerKinds DEF IngestionTypeInv
<1> QED BY <1>1, <1>2, <1>3 DEF IngestionTypeInv

LEMMA RemoveTypes ==
  ASSUME IngestionTypeInv, NEW h \in Handlers, RemoveBuried(h)
  PROVE  IngestionTypeInv'
<1>1. ~Idle(h) /\ Finish(h) /\ ingestion' = [ingestion EXCEPT ![handler[h].job] = NoRow]
      /\ UNCHANGED <<deadJobs, poll, requeue, accepted, processDied, refusals, requeues>>
  BY DEF RemoveBuried, At, counters
<1>2. handler' \in [Handlers -> {<<>>} \cup HandledJob] /\ processingCount' = Cardinality(BusyHandlers')
  BY <1>1, FinishTypes
<1>3. NoRow \in IngestionRow /\ NoRow.status # "pending"
  BY FreshRows
<1>4. /\ ingestion' \in [IngestionJobs -> IngestionRow]
      /\ \A k \in IngestionJobs : ingestion'[k].status = "pending" => ingestion'[k].attempts < MaxAttempts
  BY <1>1, <1>3, HandlerKinds, RowTypes
<1> QED BY <1>1, <1>2, <1>4 DEF IngestionTypeInv

LEMMA DeathTypes ==
  ASSUME IngestionTypeInv, ProcessDies \/ \E h \in Handlers : DeadLetterConflict(h)
  PROVE  IngestionTypeInv'
<1>1. Dies /\ UNCHANGED <<ingestion, deadJobs, accepted, requeues>>
  BY DEF ProcessDies, DeadLetterConflict
<1>2. refusals' \in 0 .. MaxRefusals
  BY RefusedTypes DEF ProcessDies, DeadLetterConflict, IngestionTypeInv
<1> QED BY <1>1, <1>2, DiesTypes

LEMMA DelayTypes ==
  ASSUME IngestionTypeInv, NEW j \in IngestionJobs, RetryDelayElapses(j)
  PROVE  IngestionTypeInv'
<1> DEFINE newRow == [ingestion[j] EXCEPT !.due = TRUE]
<1>1. ingestion[j] \in IngestionRow /\ ingestion[j].status = "failed"
  BY DEF IngestionTypeInv, RetryDelayElapses
<1>2. newRow \in IngestionRow /\ newRow.status # "pending"
  BY <1>1 DEF IngestionRow
<1>3. ingestion' = [ingestion EXCEPT ![j] = newRow]
      /\ UNCHANGED <<deadJobs, poll, handler, requeue, processingCount, accepted, processDied, refusals, requeues>>
  BY DEF RetryDelayElapses, counters
<1> HIDE DEF newRow
<1> QED BY <1>2, <1>3, RowTypes DEF IngestionTypeInv, BusyHandlers, Idle

LEMMA RequeueTypes ==
  ASSUME IngestionTypeInv, NEW r \in Requeuers,
         \/ \E j \in IngestionJobs : RequeueRead(r, j)
         \/ RequeueInsert(r) \/ RequeueDelete(r)
  PROVE  IngestionTypeInv'
<1>0. UNCHANGED <<poll, handler, processingCount, accepted, processDied, refusals>>
  BY DEF RequeueRead, RequeueInsert, RequeueDelete, counters
<1>1. ASSUME NEW j \in IngestionJobs, RequeueRead(r, j) PROVE IngestionTypeInv'
  <2> DEFINE v == [at |-> "inserting", job |-> j]
  <2>1. requeue' = [requeue EXCEPT ![r] = v] /\ requeues < MaxRequeues /\ requeues' = requeues + 1
        /\ UNCHANGED <<ingestion, deadJobs>>
    BY <1>1 DEF RequeueRead
  <2>2. v \in RequeuedJob
    BY DEF RequeuedJob
  <2> HIDE DEF v
  <2>3. requeues' \in 0 .. MaxRequeues
    BY <2>1, IngestionNumbers DEF IngestionTypeInv
  <2> QED BY <1>0, <2>1, <2>2, <2>3 DEF IngestionTypeInv, BusyHandlers, Idle
<1>2. ASSUME RequeueInsert(r) PROVE IngestionTypeInv'
  <2> DEFINE j == requeue[r].job
             newRow == [NoRow EXCEPT !.status = "pending"]
             v == [requeue[r] EXCEPT !.at = "deleting"]
  <2>1. requeue[r] \in RequeuedJob /\ j \in IngestionJobs /\ UNCHANGED <<deadJobs, requeues>>
    BY <1>2 DEF RequeueInsert, IngestionTypeInv, RequeuedJob
  <2>2. v \in RequeuedJob
    BY <2>1 DEF RequeuedJob
  <2>3. newRow \in IngestionRow /\ (newRow.status = "pending" => newRow.attempts < MaxAttempts)
    BY FreshRows
  <2>4. \/ ingestion' = [ingestion EXCEPT ![j] = newRow] /\ requeue' = [requeue EXCEPT ![r] = v]
        \/ ingestion' = ingestion /\ requeue' = [requeue EXCEPT ![r] = <<>>]
    BY <1>2 DEF RequeueInsert
  <2> HIDE DEF newRow, v, j
  <2>5. requeue' \in [Requeuers -> {<<>>} \cup RequeuedJob]
    BY <2>2, <2>4 DEF IngestionTypeInv
  <2>6. /\ ingestion' \in [IngestionJobs -> IngestionRow]
        /\ \A k \in IngestionJobs : ingestion'[k].status = "pending" => ingestion'[k].attempts < MaxAttempts
    <3>1. CASE ingestion' = ingestion
      BY <3>1 DEF IngestionTypeInv
    <3>2. CASE ingestion' = [ingestion EXCEPT ![j] = newRow]
      BY <3>2, <2>1, <2>3, RowTypes
    <3> QED BY <3>1, <3>2, <2>4
  <2> QED BY <1>0, <2>1, <2>5, <2>6 DEF IngestionTypeInv, BusyHandlers, Idle
<1>3. ASSUME RequeueDelete(r) PROVE IngestionTypeInv'
  <2>1. requeue' = [requeue EXCEPT ![r] = <<>>] /\ deadJobs' \subseteq deadJobs /\ UNCHANGED <<ingestion, requeues>>
    BY <1>3 DEF RequeueDelete, counters
  <2> QED BY <1>0, <2>1 DEF IngestionTypeInv, BusyHandlers, Idle
<1> QED BY <1>1, <1>2, <1>3

LEMMA IngestionTypeInit == IngestionInit => IngestionTypeInv
<1> SUFFICES ASSUME IngestionInit PROVE IngestionTypeInv
  OBVIOUS
<1>1. \A h \in Handlers : Idle(h)
  BY DEF IngestionInit, Idle
<1>2. BusyHandlers = {}
  BY <1>1 DEF BusyHandlers
<1>3. processingCount = Cardinality(BusyHandlers)
  BY <1>2, FS_EmptySet DEF IngestionInit
<1>4. poll \in [Polls -> 0 .. ConcurrencyLimit] /\ refusals \in 0 .. MaxRefusals /\ requeues \in 0 .. MaxRequeues
  BY IngestionNumbers DEF IngestionInit
<1>5. /\ ingestion \in [IngestionJobs -> IngestionRow]
      /\ \A j \in IngestionJobs : ingestion[j].status # "pending"
  BY FreshRows DEF IngestionInit
<1> QED BY <1>3, <1>4, <1>5 DEF IngestionInit, IngestionTypeInv

LEMMA IngestionTypeStep ==
  ASSUME IngestionTypeInv, [IngestionNext]_ingestionVars
  PROVE  IngestionTypeInv'
<1>1. ASSUME NEW j \in IngestionJobs, EnqueueJob(j) \/ RetryDelayElapses(j) PROVE IngestionTypeInv'
  BY <1>1, EnqueueTypes, DelayTypes
<1>2. ASSUME NEW p \in Polls, PollBegins(p) \/ PollEnds(p) PROVE IngestionTypeInv'
  BY <1>2, PollBeginTypes, PollEndTypes
<1>3. ASSUME NEW h \in Handlers, HandleJob(h) \/ HandlingThrows(h) PROVE IngestionTypeInv'
  <2>1. CASE DeadLetterConflict(h)
    BY <2>1, DeathTypes
  <2>2. CASE ~DeadLetterConflict(h)
    BY <1>3, <2>2, MarkTypes, HandlingThrowsTypes, MarkFailedTypes, BuryTypes, RemoveTypes DEF HandleJob
  <2> QED BY <2>1, <2>2
<1>4. ASSUME NEW r \in Requeuers,
             \/ \E j \in IngestionJobs : RequeueRead(r, j)
             \/ RequeueInsert(r) \/ RequeueDelete(r)
      PROVE  IngestionTypeInv'
  BY <1>4, RequeueTypes
<1>5. CASE ProcessDies
  BY <1>5, DeathTypes
<1>6. CASE UNCHANGED ingestionVars
  BY <1>6 DEF ingestionVars, IngestionTypeInv, BusyHandlers, Idle
<1> QED BY <1>1, <1>2, <1>3, <1>4, <1>5, <1>6 DEF IngestionNext

LEMMA IngestionTypesHold == IngestionTypeInv => IngestionTypeOK
<1> SUFFICES ASSUME IngestionTypeInv PROVE IngestionTypeOK
  OBVIOUS
<1>1. HandledJob \subseteq [at : HandlerPlaces, job : IngestionJobs, attempts : 0 .. MaxAttempts]
  <2>1. 0 .. MaxAttempts - 1 \subseteq 0 .. MaxAttempts
    BY IngestionNumbers
  <2> QED BY <2>1 DEF HandledJob
<1>2. handler \in [Handlers -> {<<>>} \cup [at : HandlerPlaces, job : IngestionJobs, attempts : 0 .. MaxAttempts]]
  BY <1>1 DEF IngestionTypeInv
<1>3. processingCount = Cardinality({h \in Handlers : handler[h] # <<>>})
  BY DEF IngestionTypeInv, BusyHandlers, Idle
<1> QED BY <1>2, <1>3 DEF IngestionTypeInv, IngestionTypeOK, RequeuedJob

\* The types of the state, for any values of the constants.
LEMMA IngestionTypeCorrect == IngestionSpec => []IngestionTypeOK
<1>1. IngestionTypeInv => IngestionTypeOK
  BY IngestionTypesHold
<1> QED BY <1>1, IngestionTypeInit, IngestionTypeStep, PTL DEF IngestionSpec

-----------------------------------------------------------------------------
(***************************************************************************)
(* The stream supervisor: any number of events, of troubles and of         *)
(* reconnects.                                                             *)
(***************************************************************************)

\* Everything but the count of timers left behind, which no bound in the code
\* limits.
StreamShape ==
  /\ streamStatus \in {"connecting", "connected", "reconnecting", "closed", "error"}
  /\ link \in {"none", "fetching", "reading"}
  /\ reconnectCount \in 0 .. MaxReconnectAttempts
  /\ head \in Nat /\ position \in Nat /\ lastCursor \in Nat

\* A connection reads from where the last one was left, once an event was taken.
Resumed == link = "reading" /\ lastCursor # 0 => position = lastCursor

\* Nothing is read that has not happened.
Behind == position <= head /\ lastCursor <= head

FollowInv == StreamShape /\ Resumed /\ Behind

LEMMA FollowInit == StreamInit => FollowInv
<1> SUFFICES ASSUME StreamInit PROVE FollowInv
  OBVIOUS
<1>1. reconnectCount \in 0 .. MaxReconnectAttempts
  BY StreamAssumption DEF StreamInit
<1>2. head \in Nat /\ position \in Nat /\ lastCursor \in Nat /\ Behind
  BY DEF StreamInit, Behind
<1>3. /\ streamStatus \in {"connecting", "connected", "reconnecting", "closed", "error"}
      /\ link \in {"none", "fetching", "reading"} /\ Resumed
  BY DEF StreamInit, Resumed
<1> QED BY <1>1, <1>2, <1>3 DEF FollowInv, StreamShape

\* A step that neither reads nor connects.
LEMMA LoseKeeps ==
  ASSUME FollowInv, UNCHANGED <<head, position, lastCursor>>, link' \in {link, "none", "fetching"},
         streamStatus' \in {"connecting", "connected", "reconnecting", "closed", "error"},
         reconnectCount' \in 0 .. MaxReconnectAttempts
  PROVE  FollowInv'
BY DEF FollowInv, StreamShape, Resumed, Behind

LEMMA ScheduleType ==
  ASSUME FollowInv, ScheduleReconnect
  PROVE  /\ streamStatus' \in {"connecting", "connected", "reconnecting", "closed", "error"}
         /\ reconnectCount' \in 0 .. MaxReconnectAttempts
<1>1. reconnectCount \in 0 .. MaxReconnectAttempts /\ MaxReconnectAttempts \in Nat
  BY StreamAssumption DEF FollowInv, StreamShape
<1>2. CASE reconnectCount >= MaxReconnectAttempts
  BY <1>1, <1>2 DEF ScheduleReconnect
<1>3. CASE ~(reconnectCount >= MaxReconnectAttempts)
  BY <1>1, <1>3 DEF ScheduleReconnect
<1> QED BY <1>2, <1>3

LEMMA FollowStep == FollowInv /\ [StreamNext]_streamVars => FollowInv'
<1> SUFFICES ASSUME FollowInv, [StreamNext]_streamVars PROVE FollowInv'
  OBVIOUS
<1>1. /\ streamStatus \in {"connecting", "connected", "reconnecting", "closed", "error"}
      /\ reconnectCount \in 0 .. MaxReconnectAttempts
  BY DEF FollowInv, StreamShape
<1>2. CASE Connected
  <2>1. position' \in Nat /\ position' <= head
    BY <1>2 DEF Connected, FollowInv, StreamShape, Behind
  <2>2. reconnectCount' \in 0 .. MaxReconnectAttempts
    BY <1>2, StreamAssumption DEF Connected
  <2>3. Resumed'
    BY <1>2 DEF Connected, Resumed
  <2> QED BY <1>2, <2>1, <2>2, <2>3 DEF Connected, FollowInv, StreamShape, Behind
<1>3. CASE ProcessLine
  <2>1. /\ position' \in Nat /\ lastCursor' = position' /\ position' <= head /\ UNCHANGED head
    BY <1>3 DEF ProcessLine, FollowInv, StreamShape
  <2>2. UNCHANGED <<streamStatus, reconnectCount, link>>
    BY <1>3 DEF ProcessLine, schedule
  <2> QED BY <2>1, <2>2 DEF FollowInv, StreamShape, Resumed, Behind
<1>4. CASE Fails \/ Unreachable
  <2>1. link' = "none" /\ UNCHANGED <<head, position, lastCursor>> /\ ScheduleReconnect
    BY <1>4 DEF Fails, Unreachable, Drop
  <2> QED BY <2>1, ScheduleType, LoseKeeps
<1>5. CASE StreamEnds \/ ConnectTimesOut \/ StrayTimerFires
  <2>1. /\ link' = "none" /\ UNCHANGED <<head, position, lastCursor, streamStatus, reconnectCount>>
    BY <1>5 DEF StreamEnds, ConnectTimesOut, StrayTimerFires, Drop, schedule
  <2> QED BY <1>1, <2>1, LoseKeeps
<1>6. CASE ReconnectTimerFires
  BY <1>1, <1>6, LoseKeeps DEF ReconnectTimerFires
<1>7. CASE GapCheck
  BY <1>1, <1>7, LoseKeeps DEF GapCheck, schedule
<1>8. CASE Stop
  BY <1>1, <1>8, LoseKeeps DEF Stop
<1>9. CASE EventHappens
  <2>1. head' = head + 1 /\ UNCHANGED <<position, lastCursor, link, streamStatus, reconnectCount>>
    BY <1>9 DEF EventHappens, schedule
  <2>2. head' \in Nat /\ Behind'
    BY <2>1 DEF FollowInv, StreamShape, Behind
  <2> QED BY <2>1, <2>2 DEF FollowInv, StreamShape, Resumed
<1>10. CASE UNCHANGED streamVars
  BY <1>1, <1>10, LoseKeeps DEF streamVars
<1> QED BY <1>2, <1>3, <1>4, <1>5, <1>6, <1>7, <1>8, <1>9, <1>10 DEF StreamNext

\* Across any connections and reconnects, no event is taken twice and none
\* between two taken events is left out (_processLine, _connect).
THEOREM StreamNextEventFollows == StreamSpec => NextEventFollows
<1>1. FollowInv /\ [StreamNext]_streamVars
        => [lastCursor' # lastCursor => lastCursor = 0 \/ lastCursor' = lastCursor + 1]_streamVars
  <2> SUFFICES ASSUME FollowInv, [StreamNext]_streamVars, lastCursor' # lastCursor, lastCursor # 0
               PROVE  lastCursor' = lastCursor + 1
    OBVIOUS
  <2>1. ProcessLine
    BY DEF StreamNext, streamVars, Connected, Fails, Unreachable, StreamEnds, ConnectTimesOut,
           StrayTimerFires, ReconnectTimerFires, GapCheck, Stop, EventHappens
  <2>2. position = lastCursor
    BY <2>1 DEF ProcessLine, FollowInv, Resumed
  <2> QED BY <2>1, <2>2 DEF ProcessLine
<1> QED BY <1>1, FollowInit, FollowStep, PTL DEF StreamSpec, NextEventFollows

\* Every timer left behind is of a trouble, or of the connection that stop ended.
TimersCounted == strayTimers <= troubles + (IF stopped THEN 1 ELSE 0)

StreamTypeInv == StreamTypeOK /\ TimersCounted

LEMMA StreamTypeInit == StreamInit => StreamTypeInv
<1> SUFFICES ASSUME StreamInit PROVE StreamTypeInv
  OBVIOUS
<1>1. strayTimers = 0 /\ troubles = 0 /\ stopped = FALSE
  BY DEF StreamInit
<1>2. TimersCounted
  BY <1>1 DEF TimersCounted
<1>3. 0 \in 0 .. MaxReconnectAttempts /\ 0 \in 0 .. MaxEvents /\ 0 \in 0 .. MaxTroubles
      /\ 0 \in 0 .. MaxTroubles + 1
  BY StreamAssumption
<1> QED BY <1>2, <1>3 DEF StreamInit, StreamTypeInv, StreamTypeOK

LEMMA TroubleScheduleType ==
  ASSUME StreamTypeInv, ScheduleReconnect
  PROVE  /\ streamStatus' \in {"connecting", "connected", "reconnecting", "closed", "error"}
         /\ reconnectCount' \in 0 .. MaxReconnectAttempts
         /\ reconnectTimer' \in BOOLEAN /\ outage' \in BOOLEAN
<1>1. /\ reconnectCount \in 0 .. MaxReconnectAttempts /\ MaxReconnectAttempts \in Nat
      /\ outage \in BOOLEAN /\ reconnectTimer \in BOOLEAN
  BY StreamAssumption DEF StreamTypeInv, StreamTypeOK
<1>2. CASE reconnectCount >= MaxReconnectAttempts
  BY <1>1, <1>2 DEF ScheduleReconnect, StreamTypeInv, StreamTypeOK
<1>3. CASE ~(reconnectCount >= MaxReconnectAttempts)
  BY <1>1, <1>3 DEF ScheduleReconnect
<1> QED BY <1>2, <1>3

LEMMA StreamTypeStep == StreamTypeInv /\ [StreamNext]_streamVars => StreamTypeInv'
<1> SUFFICES ASSUME StreamTypeInv, [StreamNext]_streamVars PROVE StreamTypeInv'
  OBVIOUS
<1> USE StreamAssumption DEF StreamTypeInv, StreamTypeOK, TimersCounted, schedule
<1>1. CASE Connected
  <2>1. position' \in 0 .. MaxEvents /\ reconnectCount' \in 0 .. MaxReconnectAttempts
    BY <1>1 DEF Connected
  <2> QED BY <1>1, <2>1 DEF Connected
<1>2. CASE ProcessLine
  <2>1. position' \in 0 .. MaxEvents /\ lastCursor' = position'
    BY <1>2 DEF ProcessLine
  <2>2. UNCHANGED <<streamStatus, reconnectCount, reconnectTimer, outage, link, strayTimers, head,
                    stopped, silent, troubles>> /\ gapDetected' = FALSE
    BY <1>2 DEF ProcessLine
  <2> QED BY <2>1, <2>2
<1>3. CASE Fails
  BY <1>3, TroubleScheduleType DEF Fails, Trouble, Drop
<1>4. CASE Unreachable
  BY <1>4, TroubleScheduleType DEF Unreachable, Trouble, Drop, LeaveTimer
<1>5. CASE StreamEnds
  BY <1>5 DEF StreamEnds, Trouble, Drop
<1>6. CASE ConnectTimesOut
  BY <1>6 DEF ConnectTimesOut, Trouble, Drop
<1>7. CASE StrayTimerFires
  <2>1. strayTimers' \in 0 .. MaxTroubles + 1 /\ strayTimers' <= strayTimers
    BY <1>7 DEF StrayTimerFires
  <2> QED BY <2>1, <1>7 DEF StrayTimerFires
<1>8. CASE ReconnectTimerFires
  BY <1>8 DEF ReconnectTimerFires
<1>9. CASE GapCheck
  BY <1>9 DEF GapCheck
<1>10. CASE Stop
  <2>1. strayTimers <= troubles /\ strayTimers' <= troubles + 1 /\ strayTimers' \in Nat
    BY <1>10 DEF Stop, LeaveTimer
  <2>2. UNCHANGED <<reconnectCount, outage, head, position, lastCursor, gapDetected, silent, troubles>>
        /\ stopped' = TRUE /\ streamStatus' = "closed" /\ reconnectTimer' = FALSE /\ link' = "none"
    BY <1>10 DEF Stop
  <2>3. strayTimers' \in 0 .. MaxTroubles + 1
    BY <2>1
  <2> QED BY <2>1, <2>2, <2>3
<1>11. CASE EventHappens
  BY <1>11 DEF EventHappens
<1>12. CASE UNCHANGED streamVars
  BY <1>12 DEF streamVars
<1> QED BY <1>1, <1>2, <1>3, <1>4, <1>5, <1>6, <1>7, <1>8, <1>9, <1>10, <1>11, <1>12 DEF StreamNext

\* The types of the state, for any values of the constants.
LEMMA StreamTypeCorrect == StreamSpec => []StreamTypeOK
<1>1. StreamTypeInv => StreamTypeOK
  BY DEF StreamTypeInv
<1> QED BY <1>1, StreamTypeInit, StreamTypeStep, PTL DEF StreamSpec

-----------------------------------------------------------------------------
(***************************************************************************)
(* The escalation of incidents: any number of escalations at a time, any   *)
(* levels and any rules.                                                   *)
(***************************************************************************)

\* Where an escalation may be, and what it may have seen.
Escalator == [at : {"none", "waiting", "reading", "writing"}, saw : 0 .. MaxLevel]

\* An escalation that is about to write has seen a level that has a rule.
SawRule ==
  \A e \in Escalators :
    escalator[e].at = "writing" => HasRule(escalator[e].saw) /\ escalator[e].saw >= 1

LevelInv == EscalationTypeOK /\ SawRule

LEMMA EndOfType ==
  ASSUME NEW e
  PROVE  EndOf(e) \in Escalator /\ EndOf(e).at \in {"none", "waiting"}
BY EscalationAssumption DEF EndOf, Escalator

LEMMA LevelInit == EscalationInit => LevelInv
<1> SUFFICES ASSUME EscalationInit PROVE LevelInv
  OBVIOUS
<1>1. /\ 0 \in 0 .. MaxEngineRequests /\ 0 \in 0 .. MaxIncidentRequests
      /\ 0 \in 0 .. MaxLevel /\ 1 \in 1 .. MaxLevel
  BY EscalationAssumption
<1> QED BY <1>1 DEF EscalationInit, LevelInv, EscalationTypeOK, SawRule

LEMMA LevelStep == LevelInv /\ [EscalationNext]_escalationVars => LevelInv'
<1> SUFFICES ASSUME LevelInv, [EscalationNext]_escalationVars
             PROVE  LevelInv'
  OBVIOUS
<1> USE DEF LevelInv, EscalationTypeOK, SawRule
<1>1. escalator \in [Escalators -> Escalator]
  BY DEF Escalator
<1>2. ASSUME NEW e \in Escalators, StartEngine(e) \/ LoopEnds(e) \/ MonitorIncident(e)
      PROVE  LevelInv'
  <2>1. engineRequests' \in 0 .. MaxEngineRequests
    BY <1>2, EscalationAssumption
    DEF StartEngine, LoopEnds, MonitorIncident, EngineRequest
  <2>2. /\ isRunning' \in BOOLEAN /\ overlap' \in BOOLEAN
        /\ UNCHANGED <<incident, incidentRequests>>
    BY <1>2 DEF StartEngine, LoopEnds, MonitorIncident, Enter
  <2>3. \E at \in {"none", "waiting", "reading"} :
          escalator' = [escalator EXCEPT ![e].at = at]
    BY <1>2 DEF StartEngine, LoopEnds, MonitorIncident, Enter
  <2> QED BY <2>1, <2>2, <2>3
<1>3. ASSUME NEW e \in Escalators, EscalateManually(e)
      PROVE  LevelInv'
  <2>1. incidentRequests' \in 0 .. MaxIncidentRequests
    BY <1>3, EscalationAssumption DEF EscalateManually, IncidentRequest
  <2> QED BY <1>3, <2>1 DEF EscalateManually, Enter
<1>4. ASSUME NEW e \in Escalators, ReadForEscalation(e)
      PROVE  LevelInv'
  <2>1. incident.level \in 0 .. MaxLevel /\ incident.level >= 1
    BY EscalationAssumption
  <2>2. PICK next \in Escalator :
          /\ escalator' = [escalator EXCEPT ![e] = next]
          /\ next.at = "writing" => HasRule(next.saw) /\ next.saw >= 1
    <3>1. CASE HasRule(incident.level)
      <4> DEFINE next == [at |-> "writing", saw |-> incident.level]
      <4>1. next \in Escalator /\ HasRule(next.saw) /\ next.saw >= 1
        BY <2>1, <3>1 DEF Escalator
      <4> QED BY <4>1, <3>1, <1>4 DEF ReadForEscalation
    <3>2. CASE ~HasRule(incident.level)
      BY <3>2, <1>4, EndOfType DEF ReadForEscalation
    <3> QED BY <3>1, <3>2
  <2>3. escalator' \in [Escalators -> Escalator] /\ SawRule'
    BY <1>1, <2>2
  <2> QED BY <1>4, <2>3 DEF ReadForEscalation, Escalator
<1>5. ASSUME NEW e \in Escalators, WriteEscalation(e)
      PROVE  LevelInv'
  <2>1. escalator[e].saw + 1 \in 1 .. MaxLevel
    BY <1>5, EscalationAssumption DEF WriteEscalation, HasRule
  <2>2. escalator' = [escalator EXCEPT ![e] = EndOf(e)]
    BY <1>5 DEF WriteEscalation
  <2>3. escalator' \in [Escalators -> Escalator] /\ SawRule'
    BY <1>1, <2>2, EndOfType
  <2> QED BY <1>5, <2>1, <2>3 DEF WriteEscalation, Escalator
<1>6. CASE StopEngine
  <2>1. engineRequests' \in 0 .. MaxEngineRequests
    BY <1>6, EscalationAssumption DEF StopEngine, EngineRequest
  <2> QED BY <1>6, <2>1 DEF StopEngine
<1>7. CASE Acknowledge \/ Resolve
  <2>1. incidentRequests' \in 0 .. MaxIncidentRequests
    BY <1>7, EscalationAssumption DEF Acknowledge, Resolve, IncidentRequest
  <2> QED BY <1>7, <2>1 DEF Acknowledge, Resolve
<1>8. CASE LevelTimesOut
  BY <1>8 DEF LevelTimesOut
<1>9. CASE UNCHANGED escalationVars
  BY <1>9 DEF escalationVars
<1> QED BY <1>2, <1>3, <1>4, <1>5, <1>6, <1>7, <1>8, <1>9
        DEF EscalationNext, EscalatorStep, Escalators

\* An escalation that nothing has overlapped is the only one, a loop's, and what
\* it has decided on still holds.
StillDue ==
  ~overlap => \A e \in Busy :
    /\ \A f \in Busy : f = e
    /\ IsDue
    /\ escalator[e].at = "writing" => escalator[e].saw = incident.level

DueInv == LevelInv /\ StillDue

LEMMA StillDueStep == DueInv /\ [EscalationNext]_escalationVars => StillDue'
<1> SUFFICES ASSUME DueInv, [EscalationNext]_escalationVars
             PROVE  StillDue'
  OBVIOUS
<1> USE DEF DueInv, LevelInv, EscalationTypeOK, StillDue, Busy
<1>1. ASSUME NEW e \in Escalators, StartEngine(e) \/ LoopEnds(e)
      PROVE  StillDue'
  BY <1>1 DEF StartEngine, LoopEnds, IsDue
<1>2. ASSUME NEW e \in Escalators, MonitorIncident(e)
      PROVE  StillDue'
  BY <1>2 DEF MonitorIncident, Enter, IsDue
<1>3. ASSUME NEW e \in Manuals, EscalateManually(e)
      PROVE  StillDue'
  BY <1>3 DEF EscalateManually, Enter
<1>4. ASSUME NEW e \in Escalators, ReadForEscalation(e)
      PROVE  StillDue'
  <2>1. /\ escalator' = [escalator EXCEPT ![e] = escalator'[e]]
        /\ escalator[e].at = "reading"
        /\ escalator'[e].at = "writing" => escalator'[e].saw = incident.level
        /\ UNCHANGED <<incident, overlap>>
    BY <1>4, EndOfType DEF ReadForEscalation
  <2> QED BY <2>1 DEF IsDue
<1>5. ASSUME NEW e \in Escalators, WriteEscalation(e)
      PROVE  StillDue'
  <2>1. /\ escalator' = [escalator EXCEPT ![e] = EndOf(e)]
        /\ escalator[e].at = "writing"
        /\ UNCHANGED overlap
    BY <1>5 DEF WriteEscalation
  <2> QED BY <2>1, EndOfType
<1>6. CASE StopEngine
  BY <1>6 DEF StopEngine, IsDue
<1>7. CASE Acknowledge \/ Resolve
  BY <1>7 DEF Acknowledge, Resolve
<1>8. CASE LevelTimesOut
  BY <1>8 DEF LevelTimesOut, IsDue
<1>9. CASE UNCHANGED escalationVars
  BY <1>9 DEF escalationVars, IsDue
<1> QED BY <1>1, <1>2, <1>3, <1>4, <1>5, <1>6, <1>7, <1>8, <1>9
        DEF EscalationNext, EscalatorStep, Escalators

\* A step that changes the level of an incident without an overlap raises it by
\* one, and only one that is due.
THEOREM EscalationRaisedWhenDue == EscalationSpec => RaisedOnlyWhenDue
<1>1. EscalationInit => DueInv
  BY LevelInit DEF EscalationInit, DueInv, StillDue, Busy
<1>2. DueInv /\ [EscalationNext]_escalationVars => DueInv'
  BY LevelStep, StillDueStep DEF DueInv
<1> DEFINE Raised == (incident'.level # incident.level /\ ~overlap)
                       => IsDue /\ incident'.level = incident.level + 1
<1>3. DueInv /\ [EscalationNext]_escalationVars => [Raised]_escalationVars
  <2> SUFFICES ASSUME DueInv, EscalationNext PROVE Raised
    BY DEF escalationVars
  <2> USE DEF DueInv, LevelInv, EscalationTypeOK
  <2>1. ASSUME NEW e \in Escalators, WriteEscalation(e)
        PROVE  Raised
    BY <2>1 DEF WriteEscalation, StillDue, Busy
  <2>2. CASE incident'.level = incident.level
    BY <2>2
  <2>3. ASSUME NEW e \in Escalators, EscalatorStep(e)
        PROVE  Raised
    BY <2>1, <2>2, <2>3 DEF EscalatorStep, ReadForEscalation
  <2>4. CASE LevelTimesOut \/ Acknowledge \/ Resolve \/ StopEngine
    BY <2>4, <2>2 DEF LevelTimesOut, Acknowledge, Resolve, StopEngine
  <2>5. ASSUME NEW e, StartEngine(e) \/ LoopEnds(e) \/ MonitorIncident(e) \/ EscalateManually(e)
        PROVE  Raised
    BY <2>5, <2>2 DEF StartEngine, LoopEnds, MonitorIncident, EscalateManually
  <2> QED BY <2>3, <2>4, <2>5 DEF EscalationNext
<1>4. QED BY <1>1, <1>2, <1>3, PTL DEF EscalationSpec, RaisedOnlyWhenDue

\* The types of the state, for any values of the constants.
LEMMA EscalationTypeCorrect == EscalationSpec => []EscalationTypeOK
<1>1. LevelInv => EscalationTypeOK
  BY DEF LevelInv
<1> QED BY <1>1, LevelInit, LevelStep, PTL DEF EscalationSpec

-----------------------------------------------------------------------------
(***************************************************************************)
(* The mailing of digests: any digests and users, any number of jobs at a  *)
(* time, of alerts per digest, of attempts and of faults.                  *)
(***************************************************************************)

DigestState == [status : {"absent", "pending", "sent", "failed"}, attempts : 0 .. MaxDigestAttempts]
JobState == [at : DigestPlaces, of : Digests, list : [Digests -> 0 .. NotListed]]

\* A job has a list from the moment it reads one, and is at an entry of it; an
\* entry is that of a delivery with an attempt left.
ListKept ==
  \A j \in DigestJobs :
    /\ job[j].at \in {"none", "generating", "saving"} =>
         \A d \in Digests : job[j].list[d] = NotListed
    /\ job[j].at \in {"mailing", "marking", "failing"} => job[j].list[job[j].of] # NotListed
    /\ \A d \in Digests : job[j].list[d] # NotListed =>
         job[j].list[d] < MaxDigestAttempts /\ digest[d].status # "absent"

\* One job saves the items of a delivery.
SavedByOne ==
  \A j \in DigestJobs : job[j].at = "saving" =>
    /\ digestItems[job[j].of] < ItemCount /\ digest[job[j].of].status # "absent"
    /\ \A k \in DigestJobs : job[k].at = "saving" /\ job[k].of = job[j].of => k = j

RowsKept ==
  \A d \in Digests :
    /\ digest[d].status \in {"absent", "pending"} => digest[d].attempts < MaxDigestAttempts
    /\ digest[d].status = "absent" => digestItems[d] = 0 /\ mailed[d] = 0 /\ d \notin partial

\* A delivery that one job has at a time and nothing has spoilt
HadByOne(d) == \A j, k \in DigestJobs : Works(j, d) /\ Works(k, d) => j = k

Stored(d) ==
  digest[d].status # "absent" =>
    \/ digestItems[d] = ItemCount
    \/ \E j \in DigestJobs : job[j].at = "saving" /\ job[j].of = d

Whole(d) ==
  /\ HadByOne(d) /\ Stored(d)
  /\ d \notin partial /\ mailed[d] <= 1
  /\ \A j \in DigestJobs : job[j].list[d] # NotListed => digest[d].status # "sent"
  /\ \A j \in DigestJobs : job[j].at = "marking" /\ job[j].of = d => mailed[d] = 1
  /\ digest[d].status = "sent" => mailed[d] = 1
  /\ mailed[d] = 1 =>
       digest[d].status = "sent" \/ \E j \in DigestJobs : job[j].at = "marking" /\ job[j].of = d

DigestInv ==
  /\ DigestTypeOK /\ ListKept /\ SavedByOne /\ RowsKept
  /\ \A d \in Digests \ (shared \cup spoilt) : Whole(d)

LEMMA NoJobIsOne ==
  /\ NoJob \in JobState /\ NoJob.at = "none" /\ NoJob.of \in Digests
  /\ \A d \in Digests : NoJob.list[d] = NotListed
  /\ NotListed \in 0 .. NotListed /\ NotListed \in Nat
<1>1. NotListed \in 0 .. NotListed /\ NotListed \in Nat
  BY DigestAssumption DEF NotListed
<1>2. (CHOOSE d \in Digests : TRUE) \in Digests
  BY DigestAssumption
<1> QED BY <1>1, <1>2 DEF NoJob, JobState, DigestPlaces

LEMMA WorksOrListed ==
  ASSUME NEW j \in DigestJobs, NEW d \in Digests
  PROVE  Works(j, d) <=> \/ job[j].list[d] # NotListed
                         \/ job[j].at = "saving" /\ job[j].of = d
BY DEF Works, Listed, Of

LEMMA DigestInitially == DigestInit => DigestInv
<1> SUFFICES ASSUME DigestInit PROVE DigestInv
  OBVIOUS
<1>1. /\ \A j \in DigestJobs : job[j] = NoJob
      /\ \A d \in Digests : digest[d].status = "absent" /\ mailed[d] = 0
      /\ \A d \in Digests : digestItems[d] = 0 /\ digest[d].attempts = 0
      /\ partial = {}
  BY DEF DigestInit
<1>2. DigestTypeOK
  <2>1. /\ 0 \in 0 .. MaxDigestAttempts /\ 0 \in 0 .. ItemCount
        /\ 0 \in 0 .. MaxDigestAttempts + 1 /\ 0 \in 0 .. MaxDigestFaults
    BY DigestAssumption
  <2>2. job \in [DigestJobs -> JobState]
    BY NoJobIsOne DEF DigestInit
  <2> QED BY <2>1, <2>2 DEF DigestInit, DigestTypeOK, JobState
<1>3. ListKept /\ SavedByOne
  BY <1>1, NoJobIsOne DEF ListKept, SavedByOne
<1>4. RowsKept
  BY <1>1, DigestAssumption DEF RowsKept
<1>5. ASSUME NEW d \in Digests PROVE Whole(d)
  <2>1. HadByOne(d)
    BY <1>1, NoJobIsOne, WorksOrListed DEF HadByOne
  <2> QED BY <1>1, <2>1, NoJobIsOne DEF Whole, Stored
<1> QED BY <1>2, <1>3, <1>4, <1>5 DEF DigestInv

\* A step of one job leaves the others.
Others(j) == \A k \in DigestJobs : k # j => job'[k] = job[k]

LEMMA JobMoves ==
  ASSUME DigestInv, NEW j \in DigestJobs, NEW to \in DigestPlaces, job' = [job EXCEPT ![j].at = to]
  PROVE  /\ job' \in [DigestJobs -> JobState] /\ Others(j)
         /\ job'[j].at = to /\ job'[j].of = job[j].of /\ job'[j].list = job[j].list
BY DEF DigestInv, DigestTypeOK, JobState, Others

LEMMA EntryDone ==
  ASSUME DigestInv, NEW j \in DigestJobs, NextEntry(j)
  PROVE  /\ job' \in [DigestJobs -> JobState] /\ Others(j)
         /\ job'[j].at = "sending" /\ job'[j].of = job[j].of
         /\ job'[j].list[job[j].of] = NotListed
         /\ \A d \in Digests : d # job[j].of => job'[j].list[d] = job[j].list[d]
<1>1. job \in [DigestJobs -> JobState] /\ job[j].of \in Digests
      /\ job[j].list \in [Digests -> 0 .. NotListed]
  BY DEF DigestInv, DigestTypeOK, JobState
<1>2. NotListed \in 0 .. NotListed
  BY NoJobIsOne
<1> DEFINE list == [job[j].list EXCEPT ![job[j].of] = NotListed]
<1>3. list \in [Digests -> 0 .. NotListed] /\ list[job[j].of] = NotListed
      /\ \A d \in Digests : d # job[j].of => list[d] = job[j].list[d]
  BY <1>1, <1>2
<1>4. job'[j].at = "sending" /\ job'[j].of = job[j].of /\ job'[j].list = list /\ Others(j)
  BY <1>1 DEF NextEntry, Of, JobState, Others
<1>5. job' \in [DigestJobs -> JobState]
  <2> DEFINE begun == [job EXCEPT ![j].at = "sending"]
             next == [begun[j] EXCEPT !.list = list]
  <2>1. begun \in [DigestJobs -> JobState] /\ begun[j].list = job[j].list
    BY <1>1 DEF JobState, DigestPlaces
  <2>2. job' = [begun EXCEPT ![j] = next]
    BY <2>1 DEF NextEntry, Of
  <2> HIDE DEF list, begun
  <2>3. next \in JobState
    BY <1>3, <2>1 DEF JobState
  <2> QED BY <2>1, <2>2, <2>3
<1> QED BY <1>3, <1>4, <1>5

\* A delivery that a step leaves alone stays as it is.
LEMMA WholeStays ==
  ASSUME NEW d \in Digests, Whole(d),
         digest'[d] = digest[d], digestItems'[d] = digestItems[d],
         d \notin partial', mailed'[d] = mailed[d],
         \A k \in DigestJobs :
            /\ job'[k].list[d] = job[k].list[d]
            /\ (job'[k].at = "saving" /\ job'[k].of = d) <=> (job[k].at = "saving" /\ job[k].of = d)
            /\ (job'[k].at = "marking" /\ job'[k].of = d) <=> (job[k].at = "marking" /\ job[k].of = d)
  PROVE  Whole(d)'
<1>1. \A k \in DigestJobs : Works(k, d)' <=> Works(k, d)
  BY DEF Works, Listed, Of
<1>2. HadByOne(d)' /\ Stored(d)'
  BY <1>1 DEF Whole, HadByOne, Stored
<1> QED BY <1>2 DEF Whole

\* Nobody has a delivery that is not there.
LEMMA AbsentIsFree ==
  ASSUME DigestInv, NEW d \in Digests, digest[d].status = "absent", NEW k \in DigestJobs
  PROVE  /\ job[k].list[d] = NotListed
         /\ ~(job[k].at \in {"saving", "mailing", "marking", "failing"} /\ job[k].of = d)
BY DEF DigestInv, ListKept, SavedByOne

\* A job that is at an entry of its list, or saves, has that delivery.
LEMMA AtIsHis ==
  ASSUME DigestInv, NEW j \in DigestJobs,
         job[j].at \in {"saving", "mailing", "marking", "failing"}
  PROVE  Works(j, job[j].of)
<1>1. job[j].of \in Digests
  BY DEF DigestInv, DigestTypeOK
<1>2. CASE job[j].at = "saving"
  BY <1>2 DEF Works, Of
<1>3. CASE job[j].at \in {"mailing", "marking", "failing"}
  BY <1>1, <1>3 DEF DigestInv, ListKept, Works, Listed
<1> QED BY <1>2, <1>3

LEMMA DigestStep == DigestInv /\ [DigestNext]_digestVars => DigestInv'
<1> SUFFICES ASSUME DigestInv, [DigestNext]_digestVars PROVE DigestInv'
  OBVIOUS
<1>1. /\ digest \in [Digests -> DigestState] /\ digestItems \in [Digests -> 0 .. ItemCount]
      /\ job \in [DigestJobs -> JobState] /\ mailed \in [Digests -> 0 .. MaxDigestAttempts + 1]
      /\ partial \in SUBSET Digests /\ shared \in SUBSET Digests /\ spoilt \in SUBSET Digests
      /\ digestFaults \in 0 .. MaxDigestFaults
  BY DEF DigestInv, DigestTypeOK, DigestState, JobState
<1>2. \A j \in DigestJobs : /\ job[j].at \in DigestPlaces /\ job[j].of \in Digests
                            /\ job[j].list \in [Digests -> 0 .. NotListed]
                            /\ \A d \in Digests : job[j].list[d] \in 0 .. NotListed
  BY <1>1 DEF JobState
<1>3. ListKept /\ SavedByOne /\ RowsKept /\ \A d \in Digests \ (shared \cup spoilt) : Whole(d)
  BY DEF DigestInv
<1>4. ItemCount \in Nat \ {0} /\ MaxDigestAttempts \in Nat \ {0} /\ MaxDigestFaults \in Nat
      /\ NotListed = MaxDigestAttempts + 1 /\ NotListed \in 0 .. NotListed
  BY DigestAssumption, NoJobIsOne DEF NotListed
<1>5. DigestFault => digestFaults' \in 0 .. MaxDigestFaults
  BY <1>1, <1>4 DEF DigestFault
<1> DEFINE Types == /\ digest' \in [Digests -> DigestState]
                    /\ digestItems' \in [Digests -> 0 .. ItemCount]
                    /\ job' \in [DigestJobs -> JobState]
                    /\ mailed' \in [Digests -> 0 .. MaxDigestAttempts + 1]
                    /\ partial' \in SUBSET Digests /\ shared' \in SUBSET Digests
                    /\ spoilt' \in SUBSET Digests /\ digestFaults' \in 0 .. MaxDigestFaults
           Wholes == \A d \in Digests \ (shared' \cup spoilt') : Whole(d)'
           Kept == Types /\ ListKept' /\ SavedByOne' /\ RowsKept' /\ Wholes
<1> SUFFICES Kept
  BY DEF DigestInv, DigestTypeOK, DigestState, JobState
<1>6. ASSUME NEW j \in DigestJobs, JobStarts(j)
      PROVE  Kept
  <2>1. /\ job[j].at = "none" /\ job' = [job EXCEPT ![j].at = "generating"]
        /\ UNCHANGED <<digest, digestItems, mailed, partial, shared, spoilt, digestFaults>>
    BY <1>6 DEF JobStarts, JobGoes
  <2>2. /\ job' \in [DigestJobs -> JobState] /\ Others(j)
        /\ job'[j].at = "generating" /\ job'[j].of = job[j].of /\ job'[j].list = job[j].list
    BY <2>1, JobMoves DEF DigestPlaces
  <2>3. ListKept'
    BY <2>1, <2>2, <1>3 DEF ListKept, Others
  <2>4. SavedByOne'
    BY <2>1, <2>2, <1>3 DEF SavedByOne, Others
  <2>5. RowsKept'
    BY <2>1, <1>3 DEF RowsKept
  <2>6. Wholes
    <3>1. \A d \in Digests \ (shared \cup spoilt) : Whole(d) /\ d \notin partial
      BY <1>3 DEF Whole
    <3>2. \A k \in DigestJobs : job'[k].list = job[k].list /\ job'[k].of = job[k].of
             /\ (job'[k].at = job[k].at \/ (job[k].at = "none" /\ job'[k].at = "generating"))
      <4> SUFFICES ASSUME NEW k \in DigestJobs
                   PROVE  /\ job'[k].list = job[k].list /\ job'[k].of = job[k].of
                          /\ (job'[k].at = job[k].at \/ (job[k].at = "none" /\ job'[k].at = "generating"))
        OBVIOUS
      <4>1. CASE k = j
        BY <4>1, <2>1, <2>2
      <4>2. CASE k # j
        BY <4>2, <2>2 DEF Others
      <4> QED BY <4>1, <4>2
    <3> QED BY <3>1, <3>2, <2>1, WholeStays
  <2> QED BY <2>1, <2>2, <2>3, <2>4, <2>5, <2>6, <1>1
<1>7. ASSUME NEW j \in DigestJobs, NEW d \in Digests, CreateDigestDelivery(j, d)
      PROVE  Kept
  <2> DEFINE entry == [digest[d] EXCEPT !.status = "pending"]
  <2>1. /\ job[j].at = "generating" /\ digest[d].status = "absent"
        /\ digest' = [digest EXCEPT ![d] = entry]
        /\ UNCHANGED <<digestItems, mailed, partial, shared, spoilt, digestFaults>>
    BY <1>7 DEF CreateDigestDelivery
  <2>2. /\ job' \in [DigestJobs -> JobState] /\ Others(j)
        /\ job'[j].at = "saving" /\ job'[j].of = d /\ job'[j].list = job[j].list
    BY <1>7, <1>1 DEF CreateDigestDelivery, JobState, DigestPlaces, Others
  <2>7. entry \in DigestState /\ entry.status = "pending" /\ entry.attempts = digest[d].attempts
    BY <1>1 DEF DigestState
  <2> HIDE DEF entry
  <2>8. /\ digest' \in [Digests -> DigestState] /\ digest'[d] = entry
        /\ \A e \in Digests : e # d => digest'[e] = digest[e]
    BY <2>1, <2>7, <1>1
  <2>9. \A k \in DigestJobs : /\ job[k].list[d] = NotListed
                             /\ ~(job[k].at \in {"saving", "mailing", "marking", "failing"} /\ job[k].of = d)
    BY <2>1, AbsentIsFree
  <2>10. digestItems[d] = 0 /\ mailed[d] = 0 /\ d \notin partial /\ digest[d].attempts < MaxDigestAttempts
    BY <2>1, <1>3 DEF RowsKept
  <2>3. ListKept'
    BY <2>1, <2>2, <2>7, <2>8, <1>2, <1>3 DEF ListKept, Others
  <2>4. SavedByOne'
    <3>1. \A k \in DigestJobs \ {j} : job'[k] = job[k]
      BY <2>2 DEF Others
    <3>2. \A k \in DigestJobs \ {j} : job[k].at = "saving" => job[k].of # d
      BY <2>9
    <3>3. digestItems'[d] < ItemCount /\ digest'[d].status # "absent"
      BY <2>1, <2>7, <2>8, <2>10, <1>4
    <3> QED BY <3>1, <3>2, <3>3, <2>1, <2>2, <2>8, <1>2, <1>3 DEF SavedByOne
  <2>5. RowsKept'
    BY <2>1, <2>7, <2>8, <2>10, <1>3 DEF RowsKept
  <2>6. Wholes
    <3>1. Whole(d)'
      <4>1. \A k \in DigestJobs : job'[k].list[d] = NotListed
              /\ ((job'[k].at = "saving" /\ job'[k].of = d) <=> k = j)
              /\ ~(job'[k].at = "marking" /\ job'[k].of = d)
        BY <2>2, <2>9 DEF Others
      <4>2. HadByOne(d)' /\ Stored(d)'
        BY <4>1 DEF HadByOne, Stored, Works, Listed, Of
      <4> QED BY <4>1, <4>2, <2>1, <2>7, <2>8, <2>10 DEF Whole
    <3>2. ASSUME NEW e \in Digests \ (shared \cup spoilt), e # d
          PROVE  Whole(e)'
      <4>1. Whole(e) /\ e \notin partial
        BY <1>3 DEF Whole
      <4>2. \A k \in DigestJobs :
               /\ job'[k].list[e] = job[k].list[e]
               /\ (job'[k].at = "saving" /\ job'[k].of = e) <=> (job[k].at = "saving" /\ job[k].of = e)
               /\ (job'[k].at = "marking" /\ job'[k].of = e) <=> (job[k].at = "marking" /\ job[k].of = e)
        BY <3>2, <2>1, <2>2 DEF Others
      <4> QED BY <4>1, <4>2, <3>2, <2>1, <2>8, WholeStays
    <3> QED BY <3>1, <3>2, <2>1
  <2> QED BY <2>1, <2>2, <2>3, <2>4, <2>5, <2>6, <2>8, <1>1
<1>8. ASSUME NEW j \in DigestJobs, SaveItem(j)
      PROVE  Kept
  <2> DEFINE to == IF digestItems[job[j].of] + 1 = ItemCount THEN "generating" ELSE "saving"
             d == job[j].of
  <2>1. /\ job[j].at = "saving" /\ job' = [job EXCEPT ![j].at = to]
        /\ digestItems' = [digestItems EXCEPT ![d] = digestItems[d] + 1] /\ d \in Digests
        /\ UNCHANGED <<digest, mailed, partial, shared, spoilt, digestFaults>>
    BY <1>8, <1>2 DEF SaveItem, JobGoes, Of
  <2>7. digestItems[d] \in Nat /\ digestItems[d] < ItemCount
    BY <2>1, <1>1, <1>3 DEF SavedByOne
  <2>8. to \in {"generating", "saving"} /\ (to = "saving" => digestItems[d] + 1 < ItemCount)
        /\ (to = "generating" => digestItems[d] + 1 = ItemCount)
    BY <2>7, <1>4
  <2> HIDE DEF to
  <2>2. /\ job' \in [DigestJobs -> JobState] /\ Others(j)
        /\ job'[j].at = to /\ job'[j].of = job[j].of /\ job'[j].list = job[j].list
    BY <2>1, <2>8, JobMoves DEF DigestPlaces
  <2>9. /\ digestItems' \in [Digests -> 0 .. ItemCount] /\ digestItems'[d] = digestItems[d] + 1
        /\ \A e \in Digests : e # d => digestItems'[e] = digestItems[e]
    BY <2>1, <2>7, <1>1, <1>4
  <2>3. ListKept'
    BY <2>1, <2>2, <2>8, <1>2, <1>3 DEF ListKept, Others
  <2>4. SavedByOne'
    BY <2>1, <2>2, <2>8, <2>9, <1>2, <1>3 DEF SavedByOne, Others
  <2>5. RowsKept'
    <3>1. digest[d].status # "absent"
      BY <2>1, <1>3 DEF SavedByOne
    <3> QED BY <3>1, <2>1, <2>9, <1>3 DEF RowsKept
  <2>6. Wholes
    <3>1. ASSUME d \notin shared \cup spoilt PROVE Whole(d)'
      <4>1. Whole(d)
        BY <3>1, <2>1, <1>3
      <4>2. \A k \in DigestJobs : /\ job'[k].list = job[k].list /\ job'[k].of = job[k].of
               /\ (job'[k].at = job[k].at \/ (k = j /\ job'[k].at = to))
        <5> SUFFICES ASSUME NEW k \in DigestJobs
                     PROVE  /\ job'[k].list = job[k].list /\ job'[k].of = job[k].of
                            /\ (job'[k].at = job[k].at \/ (k = j /\ job'[k].at = to))
          OBVIOUS
        <5>1. CASE k = j
          BY <5>1, <2>2
        <5>2. CASE k # j
          BY <5>2, <2>2 DEF Others
        <5> QED BY <5>1, <5>2
      <4>3. \A k \in DigestJobs : Works(k, d)' => Works(k, d)
        BY <4>2, <2>1 DEF Works, Listed, Of
      <4>4. HadByOne(d)'
        BY <4>1, <4>3 DEF Whole, HadByOne
      <4>5. Stored(d)'
        BY <2>1, <2>2, <2>8, <2>9 DEF Stored
      <4>6. \A k \in DigestJobs : (job'[k].at = "marking" /\ job'[k].of = d) <=> (job[k].at = "marking" /\ job[k].of = d)
        BY <4>2, <2>1, <2>8
      <4> QED BY <4>1, <4>2, <4>4, <4>5, <4>6, <2>1 DEF Whole
    <3>2. ASSUME NEW e \in Digests \ (shared \cup spoilt), e # job[j].of
          PROVE  Whole(e)'
      <4>1. Whole(e) /\ e \notin partial
        BY <1>3, <2>1 DEF Whole
      <4>2. \A k \in DigestJobs :
               /\ job'[k].list[e] = job[k].list[e]
               /\ (job'[k].at = "saving" /\ job'[k].of = e) <=> (job[k].at = "saving" /\ job[k].of = e)
               /\ (job'[k].at = "marking" /\ job'[k].of = e) <=> (job[k].at = "marking" /\ job[k].of = e)
        BY <3>2, <2>1, <2>2 DEF Others
      <4> QED BY <4>1, <4>2, <3>2, <2>9, <2>1, WholeStays
    <3> QED BY <3>1, <3>2, <2>1
  <2> QED BY <2>1, <2>2, <2>3, <2>4, <2>5, <2>6, <2>9, <1>1
<1>9. ASSUME NEW j \in DigestJobs, SaveThrows(j)
      PROVE  Kept
  <2>1. /\ job[j].at = "saving" /\ job' = [job EXCEPT ![j].at = "generating"]
        /\ spoilt' = spoilt \cup {job[j].of} /\ digestFaults' \in 0 .. MaxDigestFaults
        /\ UNCHANGED <<digest, digestItems, mailed, partial, shared>>
    BY <1>9, <1>5 DEF SaveThrows, JobGoes, Of
  <2>2. /\ job' \in [DigestJobs -> JobState] /\ Others(j)
        /\ job'[j].at = "generating" /\ job'[j].of = job[j].of /\ job'[j].list = job[j].list
    BY <2>1, JobMoves DEF DigestPlaces
  <2>3. ListKept'
    BY <2>1, <2>2, <1>2, <1>3 DEF ListKept, Others
  <2>4. SavedByOne'
    BY <2>1, <2>2, <1>2, <1>3 DEF SavedByOne, Others
  <2>5. RowsKept'
    BY <2>1, <1>3 DEF RowsKept
  <2>6. Wholes
    <3>2. ASSUME NEW e \in Digests \ (shared' \cup spoilt'), e # job[j].of
          PROVE  Whole(e)'
      <4>1. Whole(e) /\ e \notin partial
        BY <1>3, <2>1 DEF Whole
      <4>2. \A k \in DigestJobs :
               /\ job'[k].list[e] = job[k].list[e]
               /\ (job'[k].at = "saving" /\ job'[k].of = e) <=> (job[k].at = "saving" /\ job[k].of = e)
               /\ (job'[k].at = "marking" /\ job'[k].of = e) <=> (job[k].at = "marking" /\ job[k].of = e)
        BY <3>2, <2>1, <2>2 DEF Others
      <4> QED BY <4>1, <4>2, <3>2, <2>1, WholeStays
    <3> QED BY <3>2, <2>1
  <2> QED BY <2>1, <2>2, <2>3, <2>4, <2>5, <2>6, <1>1, <1>2
<1>10. ASSUME NEW j \in DigestJobs, ListPending(j)
       PROVE  Kept
  <2> DEFINE pending == {d \in Digests : IsPending(d)}
             list == [d \in Digests |-> IF d \in pending THEN digest[d].attempts ELSE NotListed]
  <2>1. /\ job[j].at = "generating"
        /\ job' = [job EXCEPT ![j].at = "sending", ![j].list = list]
        /\ shared' = shared \cup {d \in pending : \E k \in DigestJobs \ {j} : Works(k, d)}
        /\ UNCHANGED <<digest, digestItems, mailed, partial, spoilt, digestFaults>>
    BY <1>10 DEF ListPending
  <2>7. \A d \in pending : /\ digest[d].attempts \in Nat /\ digest[d].attempts < MaxDigestAttempts
                           /\ digest[d].attempts # NotListed /\ digest[d].attempts \in 0 .. NotListed
                           /\ digest[d].status \notin {"absent", "sent"}
    <3>1. \A d \in pending : /\ digest[d].attempts < MaxDigestAttempts
                             /\ digest[d].status \notin {"absent", "sent"}
      BY <1>3 DEF IsPending, RowsKept
    <3>2. \A d \in pending : digest[d].attempts \in 0 .. MaxDigestAttempts
      BY <1>1 DEF DigestState
    <3>3. \A n \in 0 .. MaxDigestAttempts : n < MaxDigestAttempts =>
             n \in Nat /\ n # NotListed /\ n \in 0 .. NotListed
      BY <1>4
    <3> HIDE DEF pending
    <3> QED BY <3>1, <3>2, <3>3
  <2>9. pending \subseteq Digests
    OBVIOUS
  <2>8. /\ list \in [Digests -> 0 .. NotListed]
        /\ \A d \in pending : list[d] # NotListed /\ list[d] < MaxDigestAttempts
        /\ \A d \in Digests \ pending : list[d] = NotListed
    <3> HIDE DEF pending
    <3>0. NotListed \in 0 .. NotListed
      BY <1>4
    <3>1. /\ \A d \in pending : list[d] = digest[d].attempts
          /\ \A d \in Digests \ pending : list[d] = NotListed
      BY <2>9
    <3>2. \A d \in Digests : (IF d \in pending THEN digest[d].attempts ELSE NotListed) \in 0 .. NotListed
      BY <2>7, <3>0
    <3>3. list \in [Digests -> 0 .. NotListed]
      BY <3>2
    <3> QED BY <3>1, <3>3, <2>7
  <2> HIDE DEF list, pending
  <2>2. /\ job' \in [DigestJobs -> JobState] /\ Others(j)
        /\ job'[j].at = "sending" /\ job'[j].of = job[j].of /\ job'[j].list = list
    <3> DEFINE begun == [job EXCEPT ![j].at = "sending"]
    <3>1. begun \in [DigestJobs -> JobState] /\ begun[j].at = "sending" /\ begun[j].of = job[j].of
          /\ \A k \in DigestJobs : k # j => begun[k] = job[k]
      BY <1>1 DEF JobState, DigestPlaces
    <3>2. job' = [begun EXCEPT ![j].list = list]
      BY <2>1
    <3> HIDE DEF begun
    <3> QED BY <3>1, <3>2, <2>8 DEF JobState, Others
  <2>3. ListKept'
    <3>1. ASSUME NEW k \in DigestJobs
          PROVE  /\ job'[k].at \in {"none", "generating", "saving"} =>
                      \A e \in Digests : job'[k].list[e] = NotListed
                 /\ job'[k].at \in {"mailing", "marking", "failing"} => job'[k].list[job'[k].of] # NotListed
                 /\ \A e \in Digests : job'[k].list[e] # NotListed =>
                      job'[k].list[e] < MaxDigestAttempts /\ digest'[e].status # "absent"
      <4>1. CASE k = j
        BY <4>1, <2>1, <2>2, <2>7, <2>8
      <4>2. CASE k # j
        BY <4>2, <2>1, <2>2, <1>3 DEF ListKept, Others
      <4> QED BY <4>1, <4>2
    <3> QED BY <3>1 DEF ListKept
  <2>4. SavedByOne'
    BY <2>1, <2>2, <1>2, <1>3 DEF SavedByOne, Others
  <2>5. RowsKept'
    BY <2>1, <1>3 DEF RowsKept
  <2>6. Wholes
    <3> SUFFICES ASSUME NEW d \in Digests \ (shared' \cup spoilt') PROVE Whole(d)'
      OBVIOUS
    <3>1. Whole(d) /\ d \notin partial
      BY <2>1, <1>3 DEF Whole
    <3>2. \A k \in DigestJobs : (job'[k].at \in {"saving", "marking"} /\ job'[k].of = d) <=>
                                (job[k].at \in {"saving", "marking"} /\ job[k].of = d)
      BY <2>1, <2>2 DEF Others
    <3>3. \A k \in DigestJobs : job'[k].at \in {"saving", "marking"} => job'[k].at = job[k].at
      BY <2>1, <2>2 DEF Others
    <3>4. CASE d \in pending
      <4>1. \A k \in DigestJobs \ {j} : ~ Works(k, d)
        BY <3>4, <2>1
      <4>2. \A k \in DigestJobs \ {j} : ~ Works(k, d)'
        BY <4>1, <2>2 DEF Works, Listed, Of, Others
      <4>3. HadByOne(d)'
        BY <4>2 DEF HadByOne
      <4>4. Stored(d)'
        <5>1. \A k \in DigestJobs : job[k].at = "saving" => job'[k] = job[k]
          BY <2>1, <2>2 DEF Others
        <5> QED BY <5>1, <3>1, <2>1 DEF Whole, Stored
      <4>5. digest'[d].status # "sent"
        BY <3>4, <2>1, <2>7
      <4>6. \A k \in DigestJobs : job'[k].at = "marking" /\ job'[k].of = d <=> job[k].at = "marking" /\ job[k].of = d
        BY <2>1, <2>2 DEF Others
      <4> QED BY <3>1, <4>3, <4>4, <4>5, <4>6, <2>1 DEF Whole
    <3>5. CASE d \notin pending
      <4>1. \A k \in DigestJobs : job'[k].list[d] = job[k].list[d]
        <5>1. job'[j].list[d] = job[j].list[d]
          BY <3>5, <2>1, <2>2, <2>8, <1>3 DEF ListKept
        <5> QED BY <5>1, <2>2 DEF Others
      <4> QED BY <4>1, <3>1, <3>2, <3>3, <2>1, <2>2, WholeStays DEF Others
    <3> QED BY <3>4, <3>5
  <2> QED BY <2>1, <2>2, <2>3, <2>4, <2>5, <2>6, <2>9, <1>1
<1>11. ASSUME NEW j \in DigestJobs, NEW d \in Digests, ReadItems(j, d)
       PROVE  Kept
  <2>1. /\ job[j].at = "sending" /\ job[j].list[d] # NotListed
        /\ job' = [job EXCEPT ![j].at = "mailing", ![j].of = d]
        /\ partial' = IF digestItems[d] < ItemCount THEN partial \cup {d} ELSE partial
        /\ UNCHANGED <<digest, digestItems, mailed, shared, spoilt, digestFaults>>
    BY <1>11 DEF ReadItems, Listed
  <2>2. /\ job' \in [DigestJobs -> JobState] /\ Others(j)
        /\ job'[j].at = "mailing" /\ job'[j].of = d /\ job'[j].list = job[j].list
    BY <2>1, <1>1 DEF JobState, DigestPlaces, Others
  <2>3. ListKept'
    BY <2>1, <2>2, <1>2, <1>3 DEF ListKept, Others
  <2>4. SavedByOne'
    BY <2>1, <2>2, <1>2, <1>3 DEF SavedByOne, Others
  <2>5. RowsKept'
    <3>1. digest[d].status # "absent"
      BY <2>1, <1>3 DEF ListKept
    <3> QED BY <3>1, <2>1, <1>3 DEF RowsKept
  \* Of a delivery no other job has, nobody saves items any more.
  <2>7. ASSUME d \notin shared \cup spoilt PROVE digestItems[d] = ItemCount
    <3>1. Whole(d) /\ Works(j, d) /\ digest[d].status # "absent"
      BY <2>1, <2>7, <1>3 DEF Works, Listed, ListKept
    <3>2. ~ \E k \in DigestJobs : job[k].at = "saving" /\ job[k].of = d
      <4> SUFFICES ASSUME NEW k \in DigestJobs, job[k].at = "saving", job[k].of = d PROVE FALSE
        OBVIOUS
      <4>1. Works(k, d)
        BY DEF Works, Of
      <4>2. k = j
        BY <4>1, <3>1 DEF Whole, HadByOne
      <4> QED BY <4>2, <2>1
    <3> QED BY <3>1, <3>2 DEF Whole, Stored
  <2>6. Wholes
    <3> SUFFICES ASSUME NEW e \in Digests \ (shared \cup spoilt) PROVE Whole(e)'
      BY <2>1
    <3>1. Whole(e) /\ e \notin partial
      BY <1>3 DEF Whole
    <3>2. e \notin partial'
      BY <3>1, <2>1, <2>7, <1>4
    <3>3. \A k \in DigestJobs :
             /\ job'[k].list[e] = job[k].list[e]
             /\ (job'[k].at = "saving" /\ job'[k].of = e) <=> (job[k].at = "saving" /\ job[k].of = e)
             /\ (job'[k].at = "marking" /\ job'[k].of = e) <=> (job[k].at = "marking" /\ job[k].of = e)
      BY <2>1, <2>2 DEF Others
    <3> QED BY <3>1, <3>2, <3>3, <2>1, WholeStays
  <2> QED BY <2>1, <2>2, <2>3, <2>4, <2>5, <2>6, <1>1
<1>12. ASSUME NEW j \in DigestJobs, SendDigestEmail(j)
       PROVE  Kept
  <2> DEFINE d == job[j].of
  <2>1. /\ job[j].at = "mailing" /\ job' = [job EXCEPT ![j].at = "marking"]
        /\ mailed' = [mailed EXCEPT ![d] = IF mailed[d] > MaxDigestAttempts THEN mailed[d] ELSE mailed[d] + 1]
        /\ UNCHANGED <<digest, digestItems, partial, shared, spoilt, digestFaults>> /\ d \in Digests
    BY <1>12, <1>2 DEF SendDigestEmail, JobGoes, Of
  <2>2. /\ job' \in [DigestJobs -> JobState] /\ Others(j)
        /\ job'[j].at = "marking" /\ job'[j].of = job[j].of /\ job'[j].list = job[j].list
    BY <2>1, JobMoves DEF DigestPlaces
  <2>7. mailed' \in [Digests -> 0 .. MaxDigestAttempts + 1]
    <3>1. mailed[d] \in 0 .. MaxDigestAttempts + 1
      BY <2>1, <1>1
    <3>2. (IF mailed[d] > MaxDigestAttempts THEN mailed[d] ELSE mailed[d] + 1) \in 0 .. MaxDigestAttempts + 1
      BY <3>1, <1>4
    <3> QED BY <3>2, <2>1, <1>1
  <2>8. \A e \in Digests : e # d => mailed'[e] = mailed[e]
    BY <2>1, <1>1
  <2>3. ListKept'
    BY <2>1, <2>2, <1>2, <1>3 DEF ListKept, Others
  <2>4. SavedByOne'
    BY <2>1, <2>2, <1>2, <1>3 DEF SavedByOne, Others
  <2>5. RowsKept'
    <3>1. digest[d].status # "absent"
      BY <2>1, <1>3 DEF ListKept
    <3> QED BY <3>1, <2>1, <2>8, <1>3 DEF RowsKept
  <2>6. Wholes
    <3>1. ASSUME d \notin shared \cup spoilt PROVE Whole(d)'
      <4>1. Whole(d)
        BY <3>1, <2>1, <1>3
      <4>2. Works(j, d)
        BY <2>1, AtIsHis
      <4>3. ~ \E k \in DigestJobs : job[k].at = "marking" /\ job[k].of = d
        <5>1. ASSUME NEW k \in DigestJobs, job[k].at = "marking", job[k].of = d PROVE FALSE
          <6>1. Works(k, d)
            BY <5>1, AtIsHis
          <6>2. k = j
            BY <6>1, <4>1, <4>2 DEF Whole, HadByOne
          <6> QED BY <6>2, <5>1, <2>1
        <5> QED BY <5>1
      <4>4. digest[d].status # "sent" /\ digest[d].status # "absent"
        BY <2>1, <4>1, <1>3 DEF Whole, ListKept
      <4>5. mailed[d] = 0 /\ mailed'[d] = 1
        <5>1. mailed[d] \in Nat /\ mailed[d] <= 1 /\ mailed[d] # 1
          BY <4>1, <4>3, <4>4, <2>1, <1>1 DEF Whole
        <5>2. mailed[d] = 0
          BY <5>1
        <5> QED BY <5>2, <2>1, <1>1, <1>4
      <4>6. \A k \in DigestJobs : Works(k, d)' => Works(k, d)
        BY <2>1, <2>2 DEF Works, Listed, Of, Others
      <4>7. HadByOne(d)'
        BY <4>1, <4>6 DEF Whole, HadByOne
      <4>8. Stored(d)'
        <5>1. \A k \in DigestJobs : job[k].at = "saving" => job'[k] = job[k]
          BY <2>1, <2>2 DEF Others
        <5> QED BY <5>1, <4>1, <2>1 DEF Whole, Stored
      <4>9. \A k \in DigestJobs : job'[k].list = job[k].list
        BY <2>2 DEF Others
      <4> QED BY <4>1, <4>4, <4>5, <4>7, <4>8, <4>9, <2>1, <2>2 DEF Whole
    <3>2. ASSUME NEW e \in Digests \ (shared \cup spoilt), e # job[j].of
          PROVE  Whole(e)'
      <4>1. Whole(e) /\ e \notin partial
        BY <1>3, <2>1 DEF Whole
      <4>2. \A k \in DigestJobs :
               /\ job'[k].list[e] = job[k].list[e]
               /\ (job'[k].at = "saving" /\ job'[k].of = e) <=> (job[k].at = "saving" /\ job[k].of = e)
               /\ (job'[k].at = "marking" /\ job'[k].of = e) <=> (job[k].at = "marking" /\ job[k].of = e)
        BY <3>2, <2>1, <2>2 DEF Others
      <4> QED BY <4>1, <4>2, <3>2, <2>8, <2>1, WholeStays
    <3> QED BY <3>1, <3>2, <2>1
  <2> QED BY <2>1, <2>2, <2>3, <2>4, <2>5, <2>6, <2>7, <1>1
<1>13. ASSUME NEW j \in DigestJobs, SendThrows(j) \/ MarkThrows(j)
       PROVE  Kept
  <2>1. /\ job[j].at \in {"mailing", "marking"} /\ job' = [job EXCEPT ![j].at = "failing"]
        /\ (job[j].at = "mailing" /\ spoilt' = spoilt) \/ spoilt' = spoilt \cup {job[j].of}
        /\ digestFaults' \in 0 .. MaxDigestFaults
        /\ UNCHANGED <<digest, digestItems, mailed, partial, shared>>
    BY <1>13, <1>1, <1>5 DEF SendThrows, MarkThrows, JobGoes, Of
  <2>2. /\ job' \in [DigestJobs -> JobState] /\ Others(j)
        /\ job'[j].at = "failing" /\ job'[j].of = job[j].of /\ job'[j].list = job[j].list
    BY <2>1, JobMoves DEF DigestPlaces
  <2>3. ListKept'
    BY <2>1, <2>2, <1>2, <1>3 DEF ListKept, Others
  <2>4. SavedByOne'
    BY <2>1, <2>2, <1>2, <1>3 DEF SavedByOne, Others
  <2>5. RowsKept'
    BY <2>1, <1>3 DEF RowsKept
  <2>6. Wholes
    <3>1. ASSUME job[j].of \notin shared \cup spoilt' PROVE Whole(job[j].of)'
      <4>1. job[j].at = "mailing" /\ spoilt' = spoilt
        BY <3>1, <2>1
      <4>2. Whole(job[j].of) /\ job[j].of \notin partial /\ job[j].of \in Digests
        BY <4>1, <3>1, <1>2, <1>3 DEF Whole
      <4> QED BY <4>1, <4>2, <2>1, <2>2, WholeStays DEF Others
    <3>2. ASSUME NEW e \in Digests \ (shared' \cup spoilt'), e # job[j].of
          PROVE  Whole(e)'
      <4>1. Whole(e) /\ e \notin partial
        BY <1>3, <2>1 DEF Whole
      <4>2. \A k \in DigestJobs :
               /\ job'[k].list[e] = job[k].list[e]
               /\ (job'[k].at = "saving" /\ job'[k].of = e) <=> (job[k].at = "saving" /\ job[k].of = e)
               /\ (job'[k].at = "marking" /\ job'[k].of = e) <=> (job[k].at = "marking" /\ job[k].of = e)
        BY <3>2, <2>1, <2>2 DEF Others
      <4> QED BY <4>1, <4>2, <3>2, <2>1, WholeStays
    <3> QED BY <3>1, <3>2, <2>1
  <2> QED BY <2>1, <2>2, <2>3, <2>4, <2>5, <2>6, <1>1, <1>2
<1>14. ASSUME NEW j \in DigestJobs, MarkSent(j)
       PROVE  Kept
  <2>12. PICK d \in Digests : job[j].of = d
    BY <1>2
  <2> DEFINE attempts == job[j].list[d] + 1
             status == "sent"
             entry == [status |-> status, attempts |-> attempts]
  <2>1. /\ job[j].at = "marking" /\ NextEntry(j) /\ digest' = [digest EXCEPT ![d] = entry] /\ d \in Digests
        /\ UNCHANGED <<digestItems, mailed, partial, shared, spoilt, digestFaults>>
    BY <1>14, <2>12 DEF MarkSent, Of
  <2>2. /\ job' \in [DigestJobs -> JobState] /\ Others(j)
        /\ job'[j].at = "sending" /\ job'[j].of = d /\ job'[j].list[d] = NotListed
        /\ \A e \in Digests : e # d => job'[j].list[e] = job[j].list[e]
    BY <2>1, <2>12, EntryDone
  <2>7. /\ job[j].list[d] # NotListed /\ job[j].list[d] \in Nat /\ job[j].list[d] < MaxDigestAttempts
        /\ digest[d].status # "absent"
    BY <2>1, <2>12, <1>2, <1>3 DEF ListKept
  <2>8. attempts \in 0 .. MaxDigestAttempts
    BY <2>7, <1>4
  <2>9. status = "sent"
    BY <2>7, <2>8, <1>4
  <2> HIDE DEF attempts, status
  <2>10. entry \in DigestState /\ entry.status = status /\ entry.attempts = attempts
    BY <2>8, <2>9 DEF DigestState
  <2> HIDE DEF entry
  <2>11. /\ digest' \in [Digests -> DigestState] /\ digest'[d] = entry
         /\ \A e \in Digests : e # d => digest'[e] = digest[e]
    BY <2>1, <2>10, <1>1
  <2>3. ListKept'
    <3>1. ASSUME NEW k \in DigestJobs
          PROVE  /\ job'[k].at \in {"none", "generating", "saving"} =>
                      \A e \in Digests : job'[k].list[e] = NotListed
                 /\ job'[k].at \in {"mailing", "marking", "failing"} => job'[k].list[job'[k].of] # NotListed
                 /\ \A e \in Digests : job'[k].list[e] # NotListed =>
                      job'[k].list[e] < MaxDigestAttempts /\ digest'[e].status # "absent"
      <4>1. \A e \in Digests : digest[e].status # "absent" => digest'[e].status # "absent"
        BY <2>9, <2>10, <2>11
      <4>2. CASE k = j
        BY <4>1, <4>2, <2>2, <1>3 DEF ListKept
      <4>3. CASE k # j
        BY <4>1, <4>3, <2>2, <1>3 DEF ListKept, Others
      <4> QED BY <4>2, <4>3
    <3> QED BY <3>1 DEF ListKept
  <2>4. SavedByOne'
    <3>1. \A k \in DigestJobs : job'[k].at = "saving" => job'[k] = job[k]
      BY <2>2 DEF Others
    <3>2. \A e \in Digests : digest[e].status # "absent" => digest'[e].status # "absent"
      BY <2>9, <2>10, <2>11
    <3> QED BY <3>1, <3>2, <2>1, <1>2, <1>3 DEF SavedByOne
  <2>5. RowsKept'
    BY <2>1, <2>9, <2>10, <2>11, <1>3 DEF RowsKept
  <2>6. Wholes
    <3>1. ASSUME d \notin shared \cup spoilt PROVE Whole(d)'
      <4>1. Whole(d)
        BY <3>1, <2>1, <1>3
      <4>2. Works(j, d)
        BY <2>1, <2>12, AtIsHis
      <4>3. \A k \in DigestJobs : Works(k, d) => k = j
        BY <4>1, <4>2 DEF Whole, HadByOne
      <4>4. \A k \in DigestJobs : ~ Works(k, d)'
        <5>1. ASSUME NEW k \in DigestJobs, k # j PROVE ~ Works(k, d)'
          <6>1. ~ Works(k, d) /\ job'[k] = job[k]
            BY <5>1, <4>3, <2>2 DEF Others
          <6> QED BY <6>1 DEF Works, Listed, Of
        <5>2. ~ Works(j, d)'
          BY <2>2 DEF Works, Listed, Of
        <5> QED BY <5>1, <5>2
      <4>5. \A k \in DigestJobs : job'[k].list[d] = NotListed
        BY <4>4, <2>1 DEF Works, Listed
      <4>6. \A k \in DigestJobs : ~(job[k].at \in {"saving", "marking"} /\ job[k].of = d /\ k # j)
        BY <4>3, AtIsHis
      <4>7. \A k \in DigestJobs : ~(job'[k].at = "marking" /\ job'[k].of = d)
        BY <4>6, <2>2 DEF Others
      <4>8. HadByOne(d)'
        BY <4>4 DEF HadByOne
      <4>9. Stored(d)'
        <5>1. ~ \E k \in DigestJobs : job[k].at = "saving" /\ job[k].of = d
          BY <4>6, <2>1
        <5> QED BY <5>1, <4>1, <2>1, <2>7 DEF Whole, Stored
      <4>10. mailed[d] = 1
        BY <4>1, <2>1, <2>12 DEF Whole
      <4> QED BY <4>1, <4>5, <4>7, <4>8, <4>9, <4>10, <2>1, <2>9, <2>10, <2>11 DEF Whole
    <3>2. ASSUME NEW e \in Digests \ (shared \cup spoilt), e # d
          PROVE  Whole(e)'
      <4>1. Whole(e) /\ e \notin partial
        BY <1>3 DEF Whole
      <4>2. \A k \in DigestJobs :
               /\ job'[k].list[e] = job[k].list[e]
               /\ (job'[k].at = "saving" /\ job'[k].of = e) <=> (job[k].at = "saving" /\ job[k].of = e)
               /\ (job'[k].at = "marking" /\ job'[k].of = e) <=> (job[k].at = "marking" /\ job[k].of = e)
        BY <3>2, <2>1, <2>2, <2>12 DEF Others
      <4> QED BY <4>1, <4>2, <3>2, <2>1, <2>11, WholeStays
    <3> QED BY <3>1, <3>2, <2>1
  <2> QED BY <2>1, <2>2, <2>3, <2>4, <2>5, <2>6, <2>11, <1>1
<1>15. ASSUME NEW j \in DigestJobs, MarkDigestFailed(j)
       PROVE  Kept
  <2>12. PICK d \in Digests : job[j].of = d
    BY <1>2
  <2> DEFINE attempts == job[j].list[d] + 1
             status == IF attempts >= MaxDigestAttempts THEN "failed" ELSE "pending"
             entry == [status |-> status, attempts |-> attempts]
  <2>1. /\ job[j].at = "failing" /\ NextEntry(j) /\ digest' = [digest EXCEPT ![d] = entry] /\ d \in Digests
        /\ UNCHANGED <<digestItems, mailed, partial, shared, spoilt, digestFaults>>
    BY <1>15, <2>12 DEF MarkDigestFailed, Of
  <2>2. /\ job' \in [DigestJobs -> JobState] /\ Others(j)
        /\ job'[j].at = "sending" /\ job'[j].of = d /\ job'[j].list[d] = NotListed
        /\ \A e \in Digests : e # d => job'[j].list[e] = job[j].list[e]
    BY <2>1, <2>12, EntryDone
  <2>7. /\ job[j].list[d] # NotListed /\ job[j].list[d] \in Nat /\ job[j].list[d] < MaxDigestAttempts
        /\ digest[d].status # "absent"
    BY <2>1, <2>12, <1>2, <1>3 DEF ListKept
  <2>8. attempts \in 0 .. MaxDigestAttempts
    BY <2>7, <1>4
  <2>9. status \in {"failed", "pending"} /\ (status = "pending" => attempts < MaxDigestAttempts)
    BY <2>7, <2>8, <1>4
  <2> HIDE DEF attempts, status
  <2>10. entry \in DigestState /\ entry.status = status /\ entry.attempts = attempts
    BY <2>8, <2>9 DEF DigestState
  <2> HIDE DEF entry
  <2>11. /\ digest' \in [Digests -> DigestState] /\ digest'[d] = entry
         /\ \A e \in Digests : e # d => digest'[e] = digest[e]
    BY <2>1, <2>10, <1>1
  <2>3. ListKept'
    <3>1. ASSUME NEW k \in DigestJobs
          PROVE  /\ job'[k].at \in {"none", "generating", "saving"} =>
                      \A e \in Digests : job'[k].list[e] = NotListed
                 /\ job'[k].at \in {"mailing", "marking", "failing"} => job'[k].list[job'[k].of] # NotListed
                 /\ \A e \in Digests : job'[k].list[e] # NotListed =>
                      job'[k].list[e] < MaxDigestAttempts /\ digest'[e].status # "absent"
      <4>1. \A e \in Digests : digest[e].status # "absent" => digest'[e].status # "absent"
        BY <2>9, <2>10, <2>11
      <4>2. CASE k = j
        BY <4>1, <4>2, <2>2, <1>3 DEF ListKept
      <4>3. CASE k # j
        BY <4>1, <4>3, <2>2, <1>3 DEF ListKept, Others
      <4> QED BY <4>2, <4>3
    <3> QED BY <3>1 DEF ListKept
  <2>4. SavedByOne'
    <3>1. \A k \in DigestJobs : job'[k].at = "saving" => job'[k] = job[k]
      BY <2>2 DEF Others
    <3>2. \A e \in Digests : digest[e].status # "absent" => digest'[e].status # "absent"
      BY <2>9, <2>10, <2>11
    <3> QED BY <3>1, <3>2, <2>1, <1>2, <1>3 DEF SavedByOne
  <2>5. RowsKept'
    BY <2>1, <2>9, <2>10, <2>11, <1>3 DEF RowsKept
  <2>6. Wholes
    <3>1. ASSUME d \notin shared \cup spoilt PROVE Whole(d)'
      <4>1. Whole(d)
        BY <3>1, <2>1, <1>3
      <4>2. Works(j, d)
        BY <2>1, <2>12, AtIsHis
      <4>3. \A k \in DigestJobs : Works(k, d) => k = j
        BY <4>1, <4>2 DEF Whole, HadByOne
      <4>4. \A k \in DigestJobs : ~ Works(k, d)'
        <5>1. ASSUME NEW k \in DigestJobs, k # j PROVE ~ Works(k, d)'
          <6>1. ~ Works(k, d) /\ job'[k] = job[k]
            BY <5>1, <4>3, <2>2 DEF Others
          <6> QED BY <6>1 DEF Works, Listed, Of
        <5>2. ~ Works(j, d)'
          BY <2>2 DEF Works, Listed, Of
        <5> QED BY <5>1, <5>2
      <4>5. \A k \in DigestJobs : job'[k].list[d] = NotListed
        BY <4>4, <2>1 DEF Works, Listed
      <4>6. \A k \in DigestJobs : ~(job[k].at \in {"saving", "marking"} /\ job[k].of = d /\ k # j)
        BY <4>3, AtIsHis
      <4>7. \A k \in DigestJobs : ~(job'[k].at = "marking" /\ job'[k].of = d)
        BY <4>6, <2>2 DEF Others
      <4>8. HadByOne(d)'
        BY <4>4 DEF HadByOne
      <4>9. Stored(d)'
        <5>1. ~ \E k \in DigestJobs : job[k].at = "saving" /\ job[k].of = d
          BY <4>6, <2>1
        <5> QED BY <5>1, <4>1, <2>1, <2>7 DEF Whole, Stored
      <4>10. mailed[d] # 1
        <5>1. digest[d].status # "sent"
          BY <4>1, <2>7 DEF Whole
        <5>2. ~ \E k \in DigestJobs : job[k].at = "marking" /\ job[k].of = d
          BY <4>6, <2>1
        <5> QED BY <5>1, <5>2, <4>1 DEF Whole
      <4> QED BY <4>1, <4>5, <4>7, <4>8, <4>9, <4>10, <2>1, <2>9, <2>10, <2>11 DEF Whole
    <3>2. ASSUME NEW e \in Digests \ (shared \cup spoilt), e # d
          PROVE  Whole(e)'
      <4>1. Whole(e) /\ e \notin partial
        BY <1>3 DEF Whole
      <4>2. \A k \in DigestJobs :
               /\ job'[k].list[e] = job[k].list[e]
               /\ (job'[k].at = "saving" /\ job'[k].of = e) <=> (job[k].at = "saving" /\ job[k].of = e)
               /\ (job'[k].at = "marking" /\ job'[k].of = e) <=> (job[k].at = "marking" /\ job[k].of = e)
        BY <3>2, <2>1, <2>2, <2>12 DEF Others
      <4> QED BY <4>1, <4>2, <3>2, <2>1, <2>11, WholeStays
    <3> QED BY <3>1, <3>2, <2>1
  <2> QED BY <2>1, <2>2, <2>3, <2>4, <2>5, <2>6, <2>11, <1>1
<1>16. ASSUME NEW j \in DigestJobs, JobReturns(j) \/ JobDies(j)
       PROVE  Kept
  <2>1. /\ job' = [job EXCEPT ![j] = NoJob]
        /\ UNCHANGED <<digest, digestItems, mailed, partial, shared>>
        /\ digestFaults' \in 0 .. MaxDigestFaults
        /\ spoilt \subseteq spoilt' /\ spoilt' \subseteq Digests
        /\ \A d \in Digests \ spoilt' : ~ Works(j, d)
    <3>1. CASE JobReturns(j)
      BY <3>1, <1>1 DEF JobReturns, Works
    <3>2. CASE JobDies(j)
      BY <3>2, <1>1, <1>5 DEF JobDies
    <3> QED BY <1>16, <3>1, <3>2
  <2>2. /\ job' \in [DigestJobs -> JobState] /\ Others(j)
        /\ job'[j].at = "none" /\ \A d \in Digests : job'[j].list[d] = NotListed
    BY <2>1, <1>1, NoJobIsOne DEF Others
  <2>3. ListKept'
    <3>1. ASSUME NEW k \in DigestJobs
          PROVE  /\ job'[k].at \in {"none", "generating", "saving"} =>
                      \A e \in Digests : job'[k].list[e] = NotListed
                 /\ job'[k].at \in {"mailing", "marking", "failing"} => job'[k].list[job'[k].of] # NotListed
                 /\ \A e \in Digests : job'[k].list[e] # NotListed =>
                      job'[k].list[e] < MaxDigestAttempts /\ digest'[e].status # "absent"
      <4>1. CASE k = j
        BY <4>1, <2>2
      <4>2. CASE k # j
        BY <4>2, <2>1, <2>2, <1>3 DEF ListKept, Others
      <4> QED BY <4>1, <4>2
    <3> QED BY <3>1 DEF ListKept
  <2>4. SavedByOne'
    <3>1. \A k \in DigestJobs : job'[k].at = "saving" => job'[k] = job[k]
      BY <2>2 DEF Others
    <3> QED BY <3>1, <2>1, <1>2, <1>3 DEF SavedByOne
  <2>5. RowsKept'
    BY <2>1, <1>3 DEF RowsKept
  <2>6. Wholes
    <3> SUFFICES ASSUME NEW d \in Digests \ (shared' \cup spoilt') PROVE Whole(d)'
      OBVIOUS
    <3>1. Whole(d) /\ d \notin partial /\ ~ Works(j, d)
      BY <2>1, <1>3 DEF Whole
    <3>2. job[j].list[d] = NotListed
          /\ ~(job[j].at \in {"saving", "marking"} /\ job[j].of = d)
      BY <3>1, AtIsHis DEF Works, Listed
    <3>3. \A k \in DigestJobs :
             /\ job'[k].list[d] = job[k].list[d]
             /\ (job'[k].at = "saving" /\ job'[k].of = d) <=> (job[k].at = "saving" /\ job[k].of = d)
             /\ (job'[k].at = "marking" /\ job'[k].of = d) <=> (job[k].at = "marking" /\ job[k].of = d)
      BY <3>2, <2>2 DEF Others
    <3> QED BY <3>1, <3>3, <2>1, WholeStays
  <2> QED BY <2>1, <2>2, <2>3, <2>4, <2>5, <2>6, <1>1
<1>17. CASE UNCHANGED digestVars
  <2>1. \A d \in Digests \ (shared \cup spoilt) : Whole(d) /\ d \notin partial
    BY <1>3 DEF Whole
  <2>2. Wholes
    BY <1>17, <2>1, WholeStays DEF digestVars
  <2> QED BY <1>17, <2>2, <1>1, <1>3 DEF digestVars, ListKept, SavedByOne, RowsKept
<1> HIDE DEF Kept
<1> QED BY <1>6, <1>7, <1>8, <1>9, <1>10, <1>11, <1>12, <1>13, <1>14, <1>15, <1>16, <1>17
        DEF DigestNext, JobStep

\* A delivery that one job had at a time and nothing spoilt is mailed once.
THEOREM DigestsAreMailedOnce == DigestSpec => []MailedOnce
<1>1. DigestInv => MailedOnce
  <2> SUFFICES ASSUME DigestInv, NEW d \in Digests \ (shared \cup spoilt)
               PROVE  /\ mailed[d] <= 1 /\ d \notin partial
                      /\ digest[d].status = "sent" => mailed[d] = 1
                      /\ mailed[d] = 1 => \/ digest[d].status = "sent"
                                          \/ \E j \in DigestJobs : job[j].at = "marking" /\ Of(j) = d
    BY DEF MailedOnce
  <2> QED BY DEF DigestInv, Whole, Of
<1> QED BY <1>1, DigestInitially, DigestStep, PTL DEF DigestSpec

\* The types of the state, for any values of the constants.
LEMMA DigestTypeCorrect == DigestSpec => []DigestTypeOK
<1>1. DigestInv => DigestTypeOK
  BY DEF DigestInv
<1> QED BY <1>1, DigestInitially, DigestStep, PTL DEF DigestSpec

-----------------------------------------------------------------------------
(***************************************************************************)
(* The components of the run together.                                     *)
(***************************************************************************)

\* A behaviour of the run is one of each of its components: one of them takes the
\* steps, and the others keep still.
LEMMA LoopsRunTheirComponents ==
  LoopsSpec =>
    BreakerSpec /\ StreamSpec /\ IngestionSpec /\ EscalationSpec /\ DigestSpec
<1>1. LoopsInit =>
        BreakerInit /\ StreamInit /\ IngestionInit /\ EscalationInit /\ DigestInit
  BY DEF LoopsInit
<1>2. ASSUME [LoopsNext]_loopsVars
      PROVE
        [BreakerNext]_breakerVars /\ [StreamNext]_streamVars /\
        [IngestionNext]_ingestionVars /\ [EscalationNext]_escalationVars /\
        [DigestNext]_digestVars
  <2>1. CASE BreakerRuns
    BY <2>1 DEF BreakerRuns
  <2>2. CASE StreamRuns
    BY <2>2 DEF StreamRuns
  <2>3. CASE IngestionRuns
    BY <2>3 DEF IngestionRuns
  <2>4. CASE EscalationRuns
    BY <2>4 DEF EscalationRuns
  <2>5. CASE DigestRuns
    BY <2>5 DEF DigestRuns
  <2>6. CASE UNCHANGED loopsVars
    BY <2>6 DEF loopsVars
  <2> QED BY <1>2, <2>1, <2>2, <2>3, <2>4, <2>5, <2>6 DEF LoopsNext
<1> QED BY <1>1, <1>2, PTL
       DEF LoopsSpec, BreakerSpec, StreamSpec, IngestionSpec, EscalationSpec, DigestSpec

\* Whatever the timers, polls and handlers do, the queue's processingCount is the number
\* of its busy handlers (ingestionQueueManager.service.ts), every timer the supervisor
\* left behind is of a trouble of its stream (horizonStreamSupervisor.service.ts), and a
\* digest is mailed at most once more than it has attempts (digestScheduler.service.ts).
THEOREM LoopsKeepTypes == LoopsSpec => []LoopsTypeOK
BY LoopsRunTheirComponents, BreakerTypeCorrect, StreamTypeCorrect, IngestionTypeCorrect,
   EscalationTypeCorrect, DigestTypeCorrect, PTL
   DEF LoopsTypeOK
=============================================================================
