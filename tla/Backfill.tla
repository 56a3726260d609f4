------------------------------ MODULE Backfill ------------------------------
(***************************************************************************)
(* services/backfillOrchestrator.ts: a range is cut into chunks, a pool of *)
(* workers takes them in order, retries each, and the list of completed    *)
(* chunks lets a later run resume.                                         *)
(*                                                                         *)
(* Runs follow each other; each is given the completed chunks of the one   *)
(* before, and may be given another chunk size.  A worker is cut at its two*)
(* awaits: the rate-limit sleep and processChunk.  onEvent may throw.      *)
(***************************************************************************)
EXTENDS Integers, FiniteSets

CONSTANTS
  RangeEnd,        \* the range is 0 .. RangeEnd - 1
  ChunkSizes, ConcurrencyLevels,
  Workers,         \* as many as the greatest concurrency
  MaxRetries,
  MaxBackfillRuns, \* bound: runs one after the other
  MaxSinkFaults    \* bound: events the sink refuses

ASSUME BackfillAssumption ==
  /\ RangeEnd \in Nat \ {0} /\ IsFiniteSet(Workers)
  /\ ChunkSizes \in SUBSET (Nat \ {0}) /\ ChunkSizes # {}
  /\ ConcurrencyLevels \in SUBSET (1 .. Cardinality(Workers)) /\ ConcurrencyLevels # {}
  /\ MaxRetries \in Nat /\ MaxBackfillRuns \in Nat /\ MaxSinkFaults \in Nat

VARIABLES
  phase,      \* "idle", "running", "resolved" or "rejected"
  size, pool, \* chunkSize and poolSize of the run
  given,      \* completedChunks of the run
  cursor,     \* entries of pending that were taken
  worker,     \* what each worker does: its chunk and attempt
  completed, failed,
  inFlight,
  processed,  \* units of the range that were processed, over all runs
  resized,    \* a resumed run has another chunk size
  runsLeft, sinkFaults

backfillVars == <<phase, size, pool, given, cursor, worker, completed, failed, inFlight,
                  processed, resized, runsLeft, sinkFaults>>

settings == <<size, pool, given, resized, runsLeft>>

Least(a, b) == IF a < b THEN a ELSE b

Units == 0 .. RangeEnd - 1

\* planChunks: chunk i is [i * size, Min(i * size + size, rangeEnd)).
ChunkCount(n) == (RangeEnd + n - 1) \div n
ChunkIndexes(n) == 0 .. ChunkCount(n) - 1

\* Seeded fault: the last chunk takes the end of the range as inclusive.
ChunkToLast(i, n) == i * n .. Least(i * n + n, RangeEnd - 1) - 1

Chunk(i, n) == i * n .. Least(i * n + n, RangeEnd) - 1

\* pending, in ascending order: the k-th chunk that is not yet completed
Pending == ChunkIndexes(size) \ given
NthPending(k) == CHOOSE i \in Pending : Cardinality({j \in Pending : j < i}) = k

NoWork == [at |-> "none", chunk |-> 0, attempt |-> 0]

BackfillTypeOK ==
  /\ phase \in {"idle", "running", "resolved", "rejected"}
  /\ size \in ChunkSizes /\ pool \in 0 .. Cardinality(Workers)
  /\ given \in SUBSET Units /\ completed \in SUBSET Units /\ failed \in SUBSET Units
  /\ cursor \in 0 .. RangeEnd
  /\ worker \in [Workers -> [at : {"none", "looking", "sleeping", "processing"},
                             chunk : Units, attempt : 0 .. MaxRetries + 1]]
  /\ inFlight \in 0 .. Cardinality(Workers)
  /\ processed \in SUBSET Units
  /\ resized \in BOOLEAN
  /\ runsLeft \in 0 .. MaxBackfillRuns /\ sinkFaults \in 0 .. MaxSinkFaults

BackfillInit ==
  /\ phase = "idle"
  /\ size = (CHOOSE n \in ChunkSizes : TRUE) /\ pool = 0
  /\ given = {} /\ completed = {} /\ failed = {}
  /\ cursor = 0 /\ inFlight = 0
  /\ worker = [w \in Workers |-> NoWork]
  /\ processed = {}
  /\ resized = FALSE /\ runsLeft = MaxBackfillRuns /\ sinkFaults = 0

-----------------------------------------------------------------------------

\* runBackfill, resuming from the result there is.  A rejected run has none,
\* so its caller starts from the beginning (when its last worker has ended: a
\* second run beside it is left out).
RunBackfill(n, concurrency) ==
  /\ phase # "running" /\ runsLeft > 0
  /\ runsLeft' = runsLeft - 1
  /\ \A w \in Workers : worker[w].at = "none"
  /\ phase' = "running"
  /\ size' = n
  /\ given' = IF phase = "resolved" THEN completed ELSE {}
  /\ resized' = (given' # {} /\ (resized \/ n # size))
  /\ completed' = given' /\ failed' = {}
  /\ cursor' = 0 /\ inFlight' = 0
  /\ LET pending == Cardinality(ChunkIndexes(n) \ given') IN
     pool' = IF pending = 0 THEN 1 ELSE Least(concurrency, pending)
  /\ \E chosen \in SUBSET Workers :
       /\ Cardinality(chosen) = pool'
       /\ worker' = [w \in Workers |->
                       IF w \in chosen THEN [NoWork EXCEPT !.at = "looking"] ELSE NoWork]
  /\ UNCHANGED <<processed, sinkFaults>>

\* A worker takes the next chunk, unless there is none, and sleeps.
TakeChunk(w) ==
  /\ worker[w].at = "looking" /\ cursor < Cardinality(Pending)
  /\ cursor' = cursor + 1
  /\ worker' = [worker EXCEPT ![w] = [at |-> "sleeping", chunk |-> NthPending(cursor),
                                      attempt |-> 0]]
  /\ UNCHANGED <<phase, settings, completed, failed, inFlight, processed, sinkFaults>>

NoChunkLeft(w) ==
  /\ worker[w].at = "looking" /\ cursor >= Cardinality(Pending)
  /\ worker' = [worker EXCEPT ![w] = NoWork]
  /\ UNCHANGED <<phase, settings, cursor, completed, failed, inFlight, processed,
                 sinkFaults>>

\* chunk-start is emitted and processChunk called for the n-th time.
Attempt(w, n) == worker' = [worker EXCEPT ![w].at = "processing", ![w].attempt = n]

StartChunk(w) ==
  /\ worker[w].at = "sleeping"
  /\ inFlight' = inFlight + 1
  /\ Attempt(w, 1)
  /\ UNCHANGED <<phase, settings, cursor, completed, failed, processed, sinkFaults>>

\* The chunk is settled: the worker looks for the next.
Settle(w) ==
  /\ inFlight' = inFlight - 1
  /\ worker' = [worker EXCEPT ![w].at = "looking"]

ChunkSucceeds(w) ==
  /\ worker[w].at = "processing"
  /\ processed' = processed \cup Chunk(worker[w].chunk, size)
  /\ completed' = completed \cup {worker[w].chunk}
  /\ Settle(w)
  /\ UNCHANGED <<phase, settings, cursor, failed, sinkFaults>>

\* The attempt failed: another, or the chunk is given up.
RetryOrGiveUp(w) ==
  IF worker[w].attempt > MaxRetries
    THEN failed' = failed \cup {worker[w].chunk} /\ Settle(w)
    ELSE Attempt(w, worker[w].attempt + 1) /\ UNCHANGED <<failed, inFlight>>

ChunkFails(w) ==
  /\ worker[w].at = "processing"
  /\ RetryOrGiveUp(w)
  /\ UNCHANGED <<phase, settings, cursor, completed, processed, sinkFaults>>

SinkThrows == sinkFaults < MaxSinkFaults /\ sinkFaults' = sinkFaults + 1

\* chunk-success is emitted inside the try: a chunk that is processed counts as
\* an error when the sink throws.
SuccessEventThrows(w) ==
  /\ worker[w].at = "processing"
  /\ SinkThrows
  /\ processed' = processed \cup Chunk(worker[w].chunk, size)
  /\ RetryOrGiveUp(w)
  /\ UNCHANGED <<phase, settings, cursor, completed>>

\* Outside of the try, a sink that throws rejects the run, whose lists are lost;
\* the other workers go on.
EventThrows(w) ==
  /\ worker[w].at \in {"sleeping", "processing"}
  /\ SinkThrows
  /\ phase' = "rejected"
  /\ worker' = [worker EXCEPT ![w] = NoWork]
  /\ inFlight' = IF worker[w].at = "sleeping" THEN inFlight + 1 ELSE inFlight
  /\ \E units \in {{}, Chunk(worker[w].chunk, size)} :
       processed' = processed \cup (IF worker[w].at = "processing" THEN units ELSE {})
  /\ UNCHANGED <<settings, cursor, completed, failed>>

Resolve ==
  /\ phase = "running"
  /\ \A w \in Workers : worker[w].at = "none"
  /\ phase' = "resolved"
  /\ UNCHANGED <<settings, cursor, worker, completed, failed, inFlight, processed,
                 sinkFaults>>

BackfillWorker(w) ==
  TakeChunk(w) \/ NoChunkLeft(w) \/ StartChunk(w) \/ ChunkSucceeds(w) \/ ChunkFails(w)

BackfillNext ==
  \/ \E n \in ChunkSizes, concurrency \in ConcurrencyLevels : RunBackfill(n, concurrency)
  \/ \E w \in Workers : BackfillWorker(w) \/ SuccessEventThrows(w) \/ EventThrows(w)
  \/ Resolve

BackfillSpec == BackfillInit /\ [][BackfillNext]_backfillVars

-----------------------------------------------------------------------------
(* Properties *)

\* A run that resolves has put every chunk on exactly one list, and when none
\* failed the whole range has been processed, by this run or the ones it
\* resumes, provided they used one chunk size (pending, completed, failed).
ResolvedIsComplete ==
  phase = "resolved" =>
    /\ completed \cap failed = {}
    /\ ~resized => /\ completed \cup failed = ChunkIndexes(size)
                   /\ failed = {} => processed = Units
                   /\ \A i \in completed : Chunk(i, size) \subseteq processed
==============================================================================
