--------------------------- MODULE Records_proofs ---------------------------
(***************************************************************************)
(* Theorems about the components that move a record of the database        *)
(* through its life: the decommission of a source, the backfill of a gap   *)
(* and the rotation of admins. Each part is about one component and uses   *)
(* nothing of the others; the last part puts the components of run records *)
(* together.                                                               *)
(***************************************************************************)
EXTENDS RecordsMC, Alerts_proofs, Breaker_proofs, FiniteSetTheorems,
        FunctionTheorems, TLAPS

-----------------------------------------------------------------------------
(***************************************************************************)
(* The decommission of a source: any number of concurrent requests and     *)
(* sweeps and any number of requests in a behaviour.                       *)
(***************************************************************************)

-----------------------------------------------------------------------------
(* Type correctness *)

LEMMA NoOperationType ==
  /\ NoRecord \in DecommissionRow
  /\ NoOperation \in [at : OperatorPlaces, saw : DecommissionRow, progress : ProgressLevels]
<1>1. NoRecord \in DecommissionRow
  BY DEF NoRecord, DecommissionRow, ProgressLevels, UnderWay
<1> QED BY <1>1 DEF NoOperation, OperatorPlaces, ProgressLevels

LEMMA DecommissionInitType == DecommissionInit => DecommissionTypeOK
<1> SUFFICES ASSUME DecommissionInit PROVE DecommissionTypeOK
  OBVIOUS
<1>1. decommission \in DecommissionRow
  BY NoOperationType DEF DecommissionInit
<1>2. operator \in [Operators -> [at : OperatorPlaces, saw : DecommissionRow,
                                 progress : ProgressLevels]]
  BY NoOperationType DEF DecommissionInit
<1>3. crossed \in BOOLEAN
  BY DEF DecommissionInit
<1>4. operations \in 0 .. MaxDecommissions
  BY DecommissionAssumption DEF DecommissionInit
<1> QED BY <1>1, <1>2, <1>3, <1>4 DEF DecommissionTypeOK

LEMMA ReadsRowType ==
  ASSUME DecommissionTypeOK, NEW o \in Operators, NEW place \in OperatorPlaces,
         NEW progress \in ProgressLevels, ReadsRow(o, place, progress)
  PROVE  DecommissionTypeOK'
BY DecommissionAssumption DEF ReadsRow, DecommissionTypeOK

LEMMA WritesRowType ==
  ASSUME DecommissionTypeOK, NEW o \in Operators, NEW place \in OperatorPlaces,
         NEW newRow \in DecommissionRow, WritesRow(o, place, newRow)
  PROVE  DecommissionTypeOK'
BY NoOperationType DEF WritesRow, DecommissionTypeOK

LEMMA DecommissionNextType ==
  DecommissionTypeOK /\ [DecommissionNext]_decommissionVars => DecommissionTypeOK'
<1> SUFFICES ASSUME DecommissionTypeOK, [DecommissionNext]_decommissionVars
             PROVE  DecommissionTypeOK'
  OBVIOUS
<1>1. ASSUME NEW o \in Operators, StartWrite(o) PROVE DecommissionTypeOK'
  <2>1. [status |-> "deprecated", progress |-> "none", elapsed |-> FALSE,
         fallback |-> TRUE, ready |-> FALSE] \in DecommissionRow
    BY DEF DecommissionRow, UnderWay, ProgressLevels
  <2> QED BY <1>1, <2>1, WritesRowType DEF StartWrite, OperatorPlaces
<1>2. ASSUME NEW o \in Operators, ProgressWrite(o) PROVE DecommissionTypeOK'
  <2> DEFINE newRow == [decommission EXCEPT
          !.status = IF operator[o].progress = "all" THEN operator[o].saw.status ELSE "migrating",
          !.progress = operator[o].progress,
          !.ready = operator[o].progress = "all" /\ operator[o].saw.elapsed]
  <2>1. newRow \in DecommissionRow
    BY DEF DecommissionRow, UnderWay, DecommissionTypeOK
  <2>2. WritesRow(o, "progressing", newRow)
    BY <1>2 DEF ProgressWrite
  <2> QED BY <2>1, <2>2, WritesRowType DEF OperatorPlaces
<1>3. ASSUME NEW o \in Operators, CompleteWrite(o) PROVE DecommissionTypeOK'
  <2>1. [decommission EXCEPT !.status = "completed", !.fallback = FALSE] \in DecommissionRow
    BY DEF DecommissionRow, DecommissionTypeOK
  <2> QED BY <1>3, <2>1, WritesRowType DEF CompleteWrite, OperatorPlaces
<1>4. ASSUME NEW o \in Operators, RollbackWrite(o) PROVE DecommissionTypeOK'
  <2>1. [decommission EXCEPT !.status = "rolled_back", !.fallback = FALSE, !.ready = FALSE]
          \in DecommissionRow
    BY DEF DecommissionRow, DecommissionTypeOK
  <2> QED BY <1>4, <2>1, WritesRowType DEF RollbackWrite, OperatorPlaces
<1>5. ASSUME NEW o \in Operators, SweepFlag(o) PROVE DecommissionTypeOK'
  <2>1. [decommission EXCEPT !.ready = CouldComplete(operator[o].saw)] \in DecommissionRow
    BY DEF DecommissionRow, DecommissionTypeOK, CouldComplete
  <2> QED BY <1>5, <2>1, WritesRowType DEF SweepFlag, OperatorPlaces
<1>6. ASSUME NEW o \in Operators, CheckCompletion(o) PROVE DecommissionTypeOK'
  BY <1>6, NoOperationType DEF CheckCompletion, DecommissionTypeOK, OperatorPlaces
<1>7. ASSUME NEW o \in Operators,
             \/ StartRead(o) \/ CompleteRead(o) \/ RollbackRead(o) \/ SweepReadiness(o)
             \/ \E progress \in ProgressLevels : ProgressRead(o, progress)
      PROVE  DecommissionTypeOK'
  BY <1>7, ReadsRowType
  DEF StartRead, CompleteRead, RollbackRead, SweepReadiness, ProgressRead, OperatorPlaces,
      ProgressLevels
<1>8. CASE PeriodElapses
  BY <1>8 DEF PeriodElapses, DecommissionTypeOK, DecommissionRow
<1>9. CASE UNCHANGED decommissionVars
  BY <1>9 DEF decommissionVars, DecommissionTypeOK
<1> QED BY <1>1, <1>2, <1>3, <1>4, <1>5, <1>6, <1>7, <1>8, <1>9 DEF DecommissionNext

\* The row, the operations and what they have read keep their types.
THEOREM DecommissionTypeCorrect == DecommissionSpec => []DecommissionTypeOK
BY DecommissionInitType, DecommissionNextType, PTL DEF DecommissionSpec

-----------------------------------------------------------------------------
(* The fallback *)

\* An update of progress has read a row that was under way: its status is what
\* such a write may bring back.
FallbackInv ==
  /\ FallbackOnlyUnderWay
  /\ \A o \in Operators :
       operator[o].at = "progressing" => operator[o].saw.status \in UnderWay

LEMMA FallbackStep ==
  DecommissionTypeOK /\ FallbackInv /\ [DecommissionNext]_decommissionVars => FallbackInv'
<1> SUFFICES ASSUME DecommissionTypeOK, FallbackInv, [DecommissionNext]_decommissionVars
             PROVE  FallbackInv'
  OBVIOUS
<1> USE DEF FallbackInv, FallbackOnlyUnderWay
<1>1. ASSUME NEW o \in Operators, NEW place \in OperatorPlaces, NEW progress \in ProgressLevels,
             ReadsRow(o, place, progress), place = "progressing" => IsUnderWay
      PROVE  FallbackInv'
  BY <1>1 DEF ReadsRow, IsUnderWay, DecommissionTypeOK
<1>2. ASSUME NEW o \in Operators, NEW place \in OperatorPlaces, NEW newRow \in DecommissionRow,
             WritesRow(o, place, newRow), newRow.fallback => newRow.status \in UnderWay
      PROVE  FallbackInv'
  BY <1>2 DEF WritesRow, NoOperation, DecommissionTypeOK
<1>3. ASSUME NEW o \in Operators, StartWrite(o) PROVE FallbackInv'
  BY <1>3 DEF StartWrite, WritesRow, NoOperation, UnderWay, DecommissionTypeOK
<1>4. ASSUME NEW o \in Operators, ProgressWrite(o) PROVE FallbackInv'
  <2>1. decommission'.status \in UnderWay
    BY <1>4 DEF ProgressWrite, WritesRow, UnderWay, DecommissionTypeOK, DecommissionRow
  <2> QED BY <1>4, <2>1 DEF ProgressWrite, WritesRow, NoOperation, DecommissionTypeOK
<1>5. ASSUME NEW o \in Operators, CompleteWrite(o) \/ RollbackWrite(o) PROVE FallbackInv'
  <2>1. decommission'.fallback = FALSE
    <3>1. CASE CompleteWrite(o)
      BY <3>1 DEF CompleteWrite, WritesRow, DecommissionTypeOK, DecommissionRow
    <3>2. CASE RollbackWrite(o)
      BY <3>2 DEF RollbackWrite, WritesRow, DecommissionTypeOK, DecommissionRow
    <3> QED BY <1>5, <3>1, <3>2
  <2>2. operator' = [operator EXCEPT ![o] = NoOperation]
    BY <1>5 DEF CompleteWrite, RollbackWrite, WritesRow
  <2> QED BY <2>1, <2>2 DEF NoOperation, DecommissionTypeOK
<1>6. ASSUME NEW o \in Operators, SweepFlag(o) PROVE FallbackInv'
  BY <1>6 DEF SweepFlag, WritesRow, NoOperation, DecommissionTypeOK, DecommissionRow
<1>7. ASSUME NEW o \in Operators, CheckCompletion(o) PROVE FallbackInv'
  BY <1>7 DEF CheckCompletion, NoOperation, DecommissionTypeOK
<1>8. ASSUME NEW o \in Operators, NEW progress \in ProgressLevels, ProgressRead(o, progress)
      PROVE  FallbackInv'
  BY <1>8, <1>1 DEF ProgressRead, OperatorPlaces
<1>9. ASSUME NEW o \in Operators,
             StartRead(o) \/ CompleteRead(o) \/ RollbackRead(o) \/ SweepReadiness(o)
      PROVE  FallbackInv'
  BY <1>9, <1>1 DEF StartRead, CompleteRead, RollbackRead, SweepReadiness, OperatorPlaces,
                    ProgressLevels
<1>10. CASE PeriodElapses
  BY <1>10 DEF PeriodElapses, DecommissionTypeOK, DecommissionRow
<1>11. CASE UNCHANGED decommissionVars
  BY <1>11 DEF decommissionVars
<1> QED BY <1>3, <1>4, <1>5, <1>6, <1>7, <1>8, <1>9, <1>10, <1>11 DEF DecommissionNext

\* No interleaving of operations leaves the fallback on outside of a
\* decommission that is under way.
THEOREM DecommissionFallback == DecommissionSpec => []FallbackOnlyUnderWay
<1>1. DecommissionInit => FallbackInv
  BY DEF DecommissionInit, FallbackInv, FallbackOnlyUnderWay, NoRecord, NoOperation
<1>2. FallbackInv => FallbackOnlyUnderWay
  BY DEF FallbackInv
<1> QED BY <1>1, <1>2, FallbackStep, DecommissionTypeCorrect, PTL DEF DecommissionSpec

-----------------------------------------------------------------------------
(* Completion *)

UnderWayNow(o) == operator[o].at # "none"

\* As long as no two operations have crossed, the one that is under way has read
\* the row as it still is, but for the period that may have elapsed since.
NotCrossed ==
  /\ \A o, p \in Operators : UnderWayNow(o) /\ UnderWayNow(p) => o = p
  /\ \A o \in Operators : UnderWayNow(o) =>
       /\ operator[o].saw.status = decommission.status
       /\ operator[o].saw.progress = decommission.progress
       /\ operator[o].saw.elapsed => decommission.elapsed
       /\ operator[o].at = "progressing" => decommission.status \in UnderWay
       /\ operator[o].at = "completing" => CouldComplete(decommission)

CompletionInv == CompletionEarned /\ (~crossed => NotCrossed)

LEMMA CompletionReads ==
  ASSUME DecommissionTypeOK, CompletionInv, NEW o \in Operators, NEW place \in OperatorPlaces,
         NEW progress \in ProgressLevels, ReadsRow(o, place, progress),
         place # "completing", place = "progressing" => IsUnderWay
  PROVE  CompletionInv'
<1>1. CompletionEarned'
  BY DEF ReadsRow, CompletionInv, CompletionEarned, CouldComplete
<1>2. ASSUME ~crossed' PROVE NotCrossed'
  <2>1. ~crossed /\ \A p \in Operators : operator[p].at = "none"
    BY <1>2 DEF ReadsRow
  <2>2. \A p \in Operators \ {o} : operator'[p] = operator[p]
    BY DEF ReadsRow, DecommissionTypeOK
  <2>3. /\ operator'[o].at = place /\ operator'[o].saw = decommission
        /\ decommission' = decommission
    BY DEF ReadsRow, DecommissionTypeOK
  <2> QED BY <2>1, <2>2, <2>3 DEF NotCrossed, UnderWayNow, IsUnderWay
<1> QED BY <1>1, <1>2 DEF CompletionInv

\* A write of the only operation under way leaves none.
LEMMA CompletionWrites ==
  ASSUME DecommissionTypeOK, CompletionInv, NEW o \in Operators,
         NEW place \in OperatorPlaces \ {"none"}, NEW newRow, WritesRow(o, place, newRow),
         ~crossed => (/\ newRow.status = "completed" => CouldComplete(newRow)
                      /\ newRow.status \in UnderWay => newRow.fallback
                      /\ newRow.ready => CouldComplete(newRow))
  PROVE  CompletionInv'
<1>1. crossed' = crossed /\ decommission' = newRow /\ operator[o].at # "none"
  BY DEF WritesRow
<1>2. CompletionEarned'
  BY <1>1 DEF CompletionEarned
<1>3. ASSUME ~crossed' PROVE NotCrossed'
  <2>1. \A p \in Operators \ {o} : operator[p].at = "none"
    BY <1>1, <1>3 DEF CompletionInv, NotCrossed, UnderWayNow
  <2>2. \A p \in Operators : operator'[p].at = "none"
    BY <2>1 DEF WritesRow, NoOperation, DecommissionTypeOK
  <2> QED BY <2>2 DEF NotCrossed, UnderWayNow
<1> QED BY <1>2, <1>3 DEF CompletionInv

LEMMA CompletionStep ==
  DecommissionTypeOK /\ CompletionInv /\ [DecommissionNext]_decommissionVars => CompletionInv'
<1> SUFFICES ASSUME DecommissionTypeOK, CompletionInv, [DecommissionNext]_decommissionVars
             PROVE  CompletionInv'
  OBVIOUS
<1>1. ASSUME NEW o \in Operators, StartWrite(o) PROVE CompletionInv'
  <2> DEFINE newRow == [status |-> "deprecated", progress |-> "none", elapsed |-> FALSE,
                     fallback |-> TRUE, ready |-> FALSE]
  <2>1. WritesRow(o, "starting", newRow)
    BY <1>1 DEF StartWrite
  <2>2. newRow.status # "completed" /\ newRow.fallback /\ ~newRow.ready
    OBVIOUS
  <2> HIDE DEF newRow
  <2> QED BY <2>1, <2>2, CompletionWrites DEF OperatorPlaces
<1>2. ASSUME NEW o \in Operators, ProgressWrite(o) PROVE CompletionInv'
  <2> DEFINE saw == operator[o].saw
             progress == operator[o].progress
             newRow == [decommission EXCEPT
                       !.status = IF progress = "all" THEN saw.status ELSE "migrating",
                       !.progress = progress,
                       !.ready = progress = "all" /\ saw.elapsed]
  <2>1. WritesRow(o, "progressing", newRow)
    BY <1>2 DEF ProgressWrite
  <2>2. /\ newRow.status = IF progress = "all" THEN saw.status ELSE "migrating"
        /\ newRow.progress = progress
        /\ newRow.fallback = decommission.fallback /\ newRow.elapsed = decommission.elapsed
    BY DEF DecommissionTypeOK, DecommissionRow
  <2>3. newRow.ready <=> progress = "all" /\ saw.elapsed
    BY DEF DecommissionTypeOK, DecommissionRow
  <2>4. operator[o].at = "progressing"
    BY <2>1 DEF WritesRow
  <2> HIDE DEF newRow
  <2>5. ASSUME ~crossed
        PROVE  /\ newRow.status = "completed" => CouldComplete(newRow)
               /\ newRow.status \in UnderWay => newRow.fallback
               /\ newRow.ready => CouldComplete(newRow)
    <3>1. /\ saw.status = decommission.status /\ decommission.status \in UnderWay
          /\ saw.elapsed => decommission.elapsed
      BY <2>4, <2>5 DEF CompletionInv, NotCrossed, UnderWayNow
    <3>2. decommission.fallback
      BY <3>1, <2>5 DEF CompletionInv, CompletionEarned
    <3>3. newRow.status # "completed"
      BY <3>1, <2>2 DEF UnderWay
    <3>4. newRow.ready => CouldComplete(newRow)
      BY <3>1, <2>2, <2>3 DEF CouldComplete
    <3> QED BY <3>2, <3>3, <3>4, <2>2
  <2> QED BY <2>1, <2>5, CompletionWrites DEF OperatorPlaces
<1>3. ASSUME NEW o \in Operators, CompleteWrite(o) PROVE CompletionInv'
  <2> DEFINE newRow == [decommission EXCEPT !.status = "completed", !.fallback = FALSE]
  <2>1. WritesRow(o, "completing", newRow)
    BY <1>3 DEF CompleteWrite
  <2>2. newRow.status = "completed" /\ (CouldComplete(decommission) => CouldComplete(newRow))
    BY DEF DecommissionTypeOK, DecommissionRow, CouldComplete
  <2>3. operator[o].at = "completing"
    BY <2>1 DEF WritesRow
  <2>4. ~crossed => CouldComplete(decommission)
    BY <2>3 DEF CompletionInv, NotCrossed, UnderWayNow
  <2> HIDE DEF newRow
  <2> QED BY <2>1, <2>2, <2>4, CompletionWrites DEF OperatorPlaces, UnderWay
<1>4. ASSUME NEW o \in Operators, RollbackWrite(o) PROVE CompletionInv'
  <2> DEFINE newRow == [decommission EXCEPT !.status = "rolled_back", !.fallback = FALSE,
                                         !.ready = FALSE]
  <2>1. WritesRow(o, "rollingBack", newRow)
    BY <1>4 DEF RollbackWrite
  <2>2. newRow.status = "rolled_back" /\ ~newRow.ready
    BY DEF DecommissionTypeOK, DecommissionRow
  <2> HIDE DEF newRow
  <2> QED BY <2>1, <2>2, CompletionWrites DEF OperatorPlaces, UnderWay
<1>5. ASSUME NEW o \in Operators, SweepFlag(o) PROVE CompletionInv'
  <2> DEFINE newRow == [decommission EXCEPT !.ready = CouldComplete(operator[o].saw)]
  <2>1. WritesRow(o, "sweeping", newRow)
    BY <1>5 DEF SweepFlag
  <2>2. /\ newRow.status = decommission.status /\ newRow.progress = decommission.progress
        /\ newRow.fallback = decommission.fallback /\ newRow.elapsed = decommission.elapsed
    BY DEF DecommissionTypeOK, DecommissionRow
  <2>3. newRow.ready <=> CouldComplete(operator[o].saw)
    BY DEF DecommissionTypeOK, DecommissionRow
  <2>4. operator[o].at = "sweeping"
    BY <2>1 DEF WritesRow
  <2> HIDE DEF newRow
  <2>5. ASSUME ~crossed PROVE newRow.ready => CouldComplete(newRow)
    <3>1. /\ operator[o].saw.progress = decommission.progress
          /\ operator[o].saw.elapsed => decommission.elapsed
      BY <2>4, <2>5 DEF CompletionInv, NotCrossed, UnderWayNow
    <3> QED BY <3>1, <2>2, <2>3 DEF CouldComplete
  <2>6. ASSUME ~crossed PROVE /\ newRow.status = "completed" => CouldComplete(newRow)
                              /\ newRow.status \in UnderWay => newRow.fallback
    BY <2>2, <2>6 DEF CompletionInv, CompletionEarned, CouldComplete
  <2> QED BY <2>1, <2>5, <2>6, CompletionWrites DEF OperatorPlaces
<1>6. ASSUME NEW o \in Operators, CheckCompletion(o) PROVE CompletionInv'
  <2>1. crossed' = crossed /\ decommission' = decommission /\ operator[o].at # "none"
    BY <1>6 DEF CheckCompletion
  <2>2. CompletionEarned'
    BY <2>1 DEF CompletionInv, CompletionEarned, CouldComplete
  <2>3. \A p \in Operators \ {o} : operator'[p] = operator[p]
    BY <1>6 DEF CheckCompletion, DecommissionTypeOK
  <2>4. \/ operator'[o].at = "none"
        \/ /\ operator'[o].at = "completing" /\ operator'[o].saw = operator[o].saw
           /\ CouldComplete(decommission)
    BY <1>6 DEF CheckCompletion, NoOperation, DecommissionTypeOK
  <2>5. ASSUME ~crossed' PROVE NotCrossed'
    <3>1. NotCrossed
      BY <2>1, <2>5 DEF CompletionInv
    <3>2. CouldComplete(decommission)' <=> CouldComplete(decommission)
      BY <2>1 DEF CouldComplete
    <3> QED BY <3>1, <3>2, <2>1, <2>3, <2>4 DEF NotCrossed, UnderWayNow
  <2> QED BY <2>2, <2>5 DEF CompletionInv
<1>7. ASSUME NEW o \in Operators, NEW progress \in ProgressLevels, ProgressRead(o, progress)
      PROVE  CompletionInv'
  BY <1>7, CompletionReads DEF ProgressRead, OperatorPlaces
<1>8. ASSUME NEW o \in Operators,
             StartRead(o) \/ CompleteRead(o) \/ RollbackRead(o) \/ SweepReadiness(o)
      PROVE  CompletionInv'
  BY <1>8, CompletionReads DEF StartRead, CompleteRead, RollbackRead, SweepReadiness,
                               OperatorPlaces, ProgressLevels
<1>9. CASE PeriodElapses
  <2>1. /\ decommission'.status = decommission.status
        /\ decommission'.progress = decommission.progress
        /\ decommission'.fallback = decommission.fallback
        /\ decommission'.ready = decommission.ready
        /\ operator' = operator /\ crossed' = crossed
    BY <1>9 DEF PeriodElapses, DecommissionTypeOK, DecommissionRow
  <2>2. decommission'.elapsed
    BY <1>9 DEF PeriodElapses, DecommissionTypeOK, DecommissionRow
  <2>3. CompletionEarned'
    BY <2>1, <2>2 DEF CompletionInv, CompletionEarned, CouldComplete
  <2>4. ~crossed' => NotCrossed'
    BY <2>1, <2>2 DEF CompletionInv, NotCrossed, UnderWayNow, CouldComplete
  <2> QED BY <2>3, <2>4 DEF CompletionInv
<1>10. CASE UNCHANGED decommissionVars
  BY <1>10 DEF decommissionVars, CompletionInv, CompletionEarned, NotCrossed, UnderWayNow,
               CouldComplete
<1> QED BY <1>1, <1>2, <1>3, <1>4, <1>5, <1>6, <1>7, <1>8, <1>9, <1>10 DEF DecommissionNext

\* As long as no two operations cross, a completed source was ready for it and
\* the flags tell the truth.
THEOREM DecommissionCompletion == DecommissionSpec => []CompletionEarned
<1>1. DecommissionInit => CompletionInv
  BY DEF DecommissionInit, CompletionInv, CompletionEarned, NotCrossed, UnderWayNow, NoRecord,
         NoOperation, UnderWay
<1>2. CompletionInv => CompletionEarned
  BY DEF CompletionInv
<1> QED BY <1>1, <1>2, CompletionStep, DecommissionTypeCorrect, PTL DEF DecommissionSpec

-----------------------------------------------------------------------------
(***************************************************************************)
(* The backfill orchestrator: any chunks, any number of workers and        *)
(* attempts, any failures, deaths and rejected writes.                     *)
(***************************************************************************)

\* Entries of P that come before i
Rank(P, i) == Cardinality({j \in P : j < i})

\* The chunks that were taken, or settled before
Taken(c) == {i \in Pending : Rank(Pending, i) < c}

Busy == {w \in Workers : worker[w].at \in {"sleeping", "processing"}}

BackfillTypes ==
  /\ size \in Nat \ {0} /\ cursor \in Nat
  /\ given \in SUBSET Nat /\ completed \in SUBSET Nat /\ failed \in SUBSET Nat
  /\ worker \in [Workers -> [at : {"none", "looking", "sleeping", "processing"},
                             chunk : Nat, attempt : Nat]]
  /\ processed \in SUBSET Units
  /\ resized \in BOOLEAN

\* Every chunk that was taken is on one of the lists or in the hands of one
\* worker.
EachInOnePlace ==
  phase \in {"running", "resolved"} =>
    /\ given \subseteq completed /\ completed \ given \subseteq Taken(cursor)
    /\ failed \subseteq Taken(cursor)
    /\ completed \cap failed = {}
    /\ \A w \in Busy : worker[w].chunk \in Taken(cursor) \ (completed \cup failed)
    /\ \A v, w \in Busy : worker[v].chunk = worker[w].chunk => v = w
    /\ \A i \in Taken(cursor) : i \in completed \cup failed \/ \E w \in Busy : worker[w].chunk = i

\* A run ends when its workers have found no chunk left.
EndsWhenTaken ==
  /\ phase = "running" => \/ cursor >= Cardinality(Pending)
                          \/ \E w \in Workers : worker[w].at # "none"
  /\ phase = "resolved" => cursor >= Cardinality(Pending) /\ Busy = {}

\* While the chunk size stays the same the lists name what was processed.
CompletedIsProcessed ==
  ~resized => /\ given \subseteq ChunkIndexes(size)
              /\ \A i \in completed : Chunk(i, size) \subseteq processed

BackfillInv == BackfillTypes /\ EachInOnePlace /\ EndsWhenTaken /\ CompletedIsProcessed

-----------------------------------------------------------------------------
(* Chunks *)

LEMMA ChunksCover ==
  ASSUME NEW n \in Nat \ {0}
  PROVE  /\ ChunkCount(n) \in Nat
         /\ \A u \in Units : \E i \in ChunkIndexes(n) : u \in Chunk(i, n)
         /\ \A i \in Nat : Chunk(i, n) \subseteq Units
<1> USE BackfillAssumption DEF Units, Chunk, ChunkIndexes, ChunkCount, Least
<1> DEFINE m == ChunkCount(n)
<1>1. m \in Nat /\ m * n <= RangeEnd + n - 1 /\ RangeEnd + n - 1 < m * n + n
  OBVIOUS
<1>2. ASSUME NEW u \in Units PROVE \E i \in ChunkIndexes(n) : u \in Chunk(i, n)
  <2> DEFINE i == u \div n
  <2>1. i \in Nat /\ i * n <= u /\ u < i * n + n
    OBVIOUS
  <2>2. i < m
    <3>1. ASSUME m <= i PROVE m * n <= i * n
      BY <3>1, <1>1, <2>1
    <3> QED BY <3>1, <1>1, <2>1
  <2>3. i * n \in Nat
    BY <2>1
  <2>4. u \in Chunk(i, n)
    <3> HIDE DEF i
    <3> QED BY <2>1, <2>3
  <2>5. i \in ChunkIndexes(n)
    <3> HIDE DEF i, m
    <3>1. m = ChunkCount(n)
      BY DEF m
    <3> HIDE DEF ChunkCount
    <3> QED BY <3>1, <1>1, <2>1, <2>2
  <2> QED BY <2>4, <2>5
<1>3. ASSUME NEW i \in Nat PROVE Chunk(i, n) \subseteq Units
  <2>1. i * n \in Nat
    OBVIOUS
  <2> QED BY <2>1
<1> QED BY <1>1, <1>2, <1>3

-----------------------------------------------------------------------------
(* The order in which chunks are taken *)

LEMMA RankType ==
  ASSUME NEW P \in SUBSET Nat, IsFiniteSet(P), NEW i \in P
  PROVE  Rank(P, i) \in Nat /\ Rank(P, i) < Cardinality(P)
<1> DEFINE A == {j \in P : j < i}
<1>1. A \in SUBSET P /\ A # P
  OBVIOUS
<1>2. IsFiniteSet(A) /\ Cardinality(A) <= Cardinality(P) /\ Cardinality(A) # Cardinality(P)
  BY <1>1, FS_Subset
<1>3. Cardinality(A) \in Nat /\ Cardinality(P) \in Nat
  BY <1>2, FS_CardinalityType
<1> QED BY <1>2, <1>3 DEF Rank

LEMMA RankOrder ==
  ASSUME NEW P \in SUBSET Nat, IsFiniteSet(P), NEW i \in P, NEW k \in P, i < k
  PROVE  Rank(P, i) < Rank(P, k)
<1> DEFINE A == {j \in P : j < i}
           B == {j \in P : j < k}
<1>1. A \in SUBSET B /\ A # B
  <2>1. i \in B /\ i \notin A
    OBVIOUS
  <2>2. \A j \in P : j < i => j < k
    OBVIOUS
  <2> QED BY <2>1, <2>2
<1>2. IsFiniteSet(B)
  BY FS_Subset
<1>3. IsFiniteSet(A) /\ Cardinality(A) <= Cardinality(B) /\ Cardinality(A) # Cardinality(B)
  BY <1>1, <1>2, FS_Subset
<1>4. Cardinality(A) \in Nat /\ Cardinality(B) \in Nat
  BY <1>2, <1>3, FS_CardinalityType
<1> QED BY <1>3, <1>4 DEF Rank

LEMMA RankOnto ==
  ASSUME NEW P \in SUBSET Nat, IsFiniteSet(P), NEW k \in Nat, k < Cardinality(P)
  PROVE  \E i \in P : Rank(P, i) = k
<1> DEFINE n == Cardinality(P)
           T == 0 .. n - 1
           f == [i \in P |-> Rank(P, i)]
<1>0. n \in Nat
  BY FS_CardinalityType
<1>1. f \in Injection(P, T)
  <2>1. f \in [P -> T]
    BY <1>0, RankType
  <2>2. ASSUME NEW a \in P, NEW b \in P, f[a] = f[b] PROVE a = b
    <3>1. Rank(P, a) = Rank(P, b) /\ Rank(P, a) \in Nat
      BY <2>2, RankType
    <3>2. ~ (a < b) /\ ~ (b < a)
      BY <3>1, RankOrder
    <3> QED BY <3>2
  <2> HIDE DEF f
  <2> QED BY <2>1, <2>2 DEF Injection, IsInjective
<1>2. IsFiniteSet(T) /\ Cardinality(T) = n
  <2>1. 0 \in Int /\ n - 1 \in Int
    BY <1>0
  <2>2. IsFiniteSet(T) /\ Cardinality(T) = IF 0 > n - 1 THEN 0 ELSE n - 1 - 0 + 1
    BY <2>1, FS_Interval
  <2> HIDE DEF T, n
  <2> QED BY <2>2, <1>0
<1>3. f \in Surjection(P, T)
  BY <1>1, <1>2, FS_Injection
<1>4. k \in T
  BY <1>0
<1>5. \E i \in P : f[i] = k
  BY <1>3, <1>4 DEF Surjection
<1> QED BY <1>5

LEMMA PendingFinite ==
  ASSUME BackfillTypes
  PROVE  Pending \in SUBSET Nat /\ IsFiniteSet(Pending) /\ Cardinality(Pending) \in Nat
<1>1. ChunkCount(size) \in Nat
  BY ChunksCover DEF BackfillTypes
<1>2. IsFiniteSet(ChunkIndexes(size)) /\ ChunkIndexes(size) \subseteq Nat
  BY <1>1, FS_Interval DEF ChunkIndexes
<1>3. Pending \in SUBSET ChunkIndexes(size)
  BY DEF Pending
<1> QED BY <1>2, <1>3, FS_Subset, FS_CardinalityType

LEMMA TakeNext ==
  ASSUME BackfillTypes, cursor < Cardinality(Pending)
  PROVE  /\ NthPending(cursor) \in Pending /\ NthPending(cursor) \notin Taken(cursor)
         /\ Taken(cursor + 1) = Taken(cursor) \cup {NthPending(cursor)}
<1> DEFINE next == NthPending(cursor)
<1>0. Pending \in SUBSET Nat /\ IsFiniteSet(Pending) /\ cursor \in Nat
  BY PendingFinite DEF BackfillTypes
<1>1. \E i \in Pending : Rank(Pending, i) = cursor
  BY <1>0, RankOnto
<1>2. next \in Pending /\ Rank(Pending, next) = cursor
  BY <1>1 DEF NthPending, Rank
<1> HIDE DEF next
<1>3. ASSUME NEW i \in Pending, Rank(Pending, i) = cursor PROVE i = next
  <2>1. i \in Nat /\ next \in Nat
    BY <1>0, <1>2
  <2>2. CASE i < next
    <3>1. Rank(Pending, i) < Rank(Pending, next)
      BY <2>2, <1>0, <1>2, RankOrder
    <3> QED BY <3>1, <1>0, <1>2, <1>3
  <2>3. CASE next < i
    <3>1. Rank(Pending, next) < Rank(Pending, i)
      BY <2>3, <1>0, <1>2, RankOrder
    <3> QED BY <3>1, <1>0, <1>2, <1>3
  <2> QED BY <2>1, <2>2, <2>3
<1>4. \A i \in Pending : Rank(Pending, i) \in Nat
  BY <1>0, RankType
<1>5. ASSUME NEW i \in Pending
      PROVE  Rank(Pending, i) < cursor + 1 <=> Rank(Pending, i) < cursor \/ i = next
  BY <1>0, <1>2, <1>3, <1>4
<1>6. next \notin Taken(cursor)
  BY <1>0, <1>2 DEF Taken
<1>7. Taken(cursor + 1) = Taken(cursor) \cup {next}
  BY <1>2, <1>5 DEF Taken
<1> QED BY <1>2, <1>6, <1>7 DEF next

LEMMA AllTaken ==
  ASSUME BackfillTypes, cursor >= Cardinality(Pending)
  PROVE  Taken(cursor) = Pending
<1>1. \A i \in Pending : Rank(Pending, i) \in Nat /\ Rank(Pending, i) < Cardinality(Pending)
  BY PendingFinite, RankType
<1> QED BY <1>1, PendingFinite DEF Taken, BackfillTypes

-----------------------------------------------------------------------------
(* Steps *)

\* What a step does to the worker that takes it
Moves(w, at, chunk) ==
  /\ worker' \in [Workers -> [at : {"none", "looking", "sleeping", "processing"},
                              chunk : Nat, attempt : Nat]]
  /\ worker'[w].at = at /\ worker'[w].chunk = chunk
  /\ \A v \in Workers : v # w => worker'[v] = worker[v]

LEMMA WorkerRecord ==
  ASSUME BackfillTypes, NEW w \in Workers
  PROVE  /\ worker[w] \in [at : {"none", "looking", "sleeping", "processing"},
                           chunk : Nat, attempt : Nat]
         /\ worker[w].chunk \in Nat /\ worker[w].attempt \in Nat
BY DEF BackfillTypes

LEMMA AttemptMoves ==
  ASSUME BackfillTypes, NEW w \in Workers, NEW n \in Nat, Attempt(w, n)
  PROVE  Moves(w, "processing", worker[w].chunk)
<1> DEFINE t == [worker[w] EXCEPT !.at = "processing", !.attempt = n]
<1>1. /\ t \in [at : {"none", "looking", "sleeping", "processing"}, chunk : Nat, attempt : Nat]
      /\ t.at = "processing" /\ t.chunk = worker[w].chunk
  BY WorkerRecord
<1>2. worker' = [worker EXCEPT ![w] = t]
  BY DEF Attempt
<1> HIDE DEF t
<1> QED BY <1>1, <1>2 DEF Moves, BackfillTypes

LEMMA SettleMoves ==
  ASSUME BackfillTypes, NEW w \in Workers, Settle(w)
  PROVE  Moves(w, "looking", worker[w].chunk)
<1> DEFINE t == [worker[w] EXCEPT !.at = "looking"]
<1>1. /\ t \in [at : {"none", "looking", "sleeping", "processing"}, chunk : Nat, attempt : Nat]
      /\ t.at = "looking" /\ t.chunk = worker[w].chunk
  BY WorkerRecord
<1>2. worker' = [worker EXCEPT ![w] = t]
  BY DEF Settle
<1> HIDE DEF t
<1> QED BY <1>1, <1>2 DEF Moves, BackfillTypes

LEMMA NoWorkType ==
  /\ NoWork \in [at : {"none", "looking", "sleeping", "processing"}, chunk : Nat, attempt : Nat]
  /\ NoWork.at = "none"
BY DEF NoWork

LEMMA StopMoves ==
  ASSUME BackfillTypes, NEW w \in Workers, worker' = [worker EXCEPT ![w] = NoWork]
  PROVE  Moves(w, "none", NoWork.chunk)
BY NoWorkType DEF Moves, BackfillTypes

\* A step that moves a worker, and no list, within one chunk
LEMMA KeepsItsChunk ==
  ASSUME BackfillInv, NEW w \in Workers, w \in Busy,
         NEW at \in {"sleeping", "processing"}, Moves(w, at, worker[w].chunk),
         UNCHANGED <<phase, settings, cursor, completed, failed>>,
         processed \subseteq processed', processed' \subseteq Units
  PROVE  BackfillInv'
<1> USE DEF BackfillInv, settings
<1>1. BackfillTypes'
  BY DEF BackfillTypes, Moves
<1>2. Taken(cursor)' = Taken(cursor) /\ Pending' = Pending
  BY DEF Taken, Pending
<1>3. Busy' = Busy /\ \A v \in Workers : worker'[v].chunk = worker[v].chunk
  BY DEF Busy, Moves
<1>4. EachInOnePlace'
  BY <1>2, <1>3 DEF EachInOnePlace, Busy
<1>5. EndsWhenTaken'
  BY <1>2, <1>3 DEF EndsWhenTaken, Busy
<1>6. CompletedIsProcessed'
  BY DEF CompletedIsProcessed
<1> QED BY <1>1, <1>4, <1>5, <1>6

\* The chunk is put on one of the lists.
LEMMA PutsItsChunk ==
  ASSUME BackfillInv, NEW w \in Workers, w \in Busy, Moves(w, "looking", worker[w].chunk),
         UNCHANGED <<phase, settings, cursor>>,
         \/ /\ completed' = completed \cup {worker[w].chunk} /\ failed' = failed
            /\ Chunk(worker[w].chunk, size) \subseteq processed'
         \/ failed' = failed \cup {worker[w].chunk} /\ completed' = completed,
         processed \subseteq processed', processed' \subseteq Units
  PROVE  BackfillInv'
<1> USE DEF BackfillInv, settings
<1>0. worker[w].chunk \in Nat
  BY WorkerRecord
<1>1. BackfillTypes'
  BY <1>0 DEF BackfillTypes, Moves
<1>2. Taken(cursor)' = Taken(cursor) /\ Pending' = Pending
  BY DEF Taken, Pending
<1>3. Busy' = Busy \ {w} /\ \A v \in Workers : worker'[v].chunk = worker[v].chunk
  BY DEF Busy, Moves
<1>4. EachInOnePlace'
  <2>0. SUFFICES ASSUME phase' \in {"running", "resolved"} PROVE EachInOnePlace'
    BY DEF EachInOnePlace
  <2> DEFINE c == worker[w].chunk
  <2>1. c \in Taken(cursor) /\ c \notin completed /\ c \notin failed
    BY <2>0 DEF EachInOnePlace
  <2>2. completed' \cup failed' = completed \cup failed \cup {c}
    OBVIOUS
  <2>3. completed' \cap failed' = {}
    BY <2>0, <2>1 DEF EachInOnePlace
  <2>4. /\ given' \subseteq completed' /\ completed' \ given' \subseteq Taken(cursor)
        /\ failed' \subseteq Taken(cursor)
    BY <2>0, <2>1 DEF EachInOnePlace
  <2>5. \A v \in Busy' : worker'[v].chunk \in Taken(cursor) \ (completed' \cup failed')
    BY <2>0, <2>2, <1>3 DEF EachInOnePlace, Busy
  <2>6. \A v, u \in Busy' : worker'[v].chunk = worker'[u].chunk => v = u
    BY <2>0, <1>3 DEF EachInOnePlace, Busy
  <2>7. ASSUME NEW i \in Taken(cursor)
        PROVE  i \in completed' \cup failed' \/ \E v \in Busy' : worker'[v].chunk = i
    <3>1. CASE i \in completed \cup failed
      BY <3>1, <2>2
    <3>2. ASSUME NEW v \in Busy, worker[v].chunk = i
          PROVE  i \in completed' \cup failed' \/ \E u \in Busy' : worker'[u].chunk = i
      BY <3>2, <2>2, <1>3 DEF Busy
    <3> QED BY <3>1, <3>2, <2>0 DEF EachInOnePlace
  <2> QED BY <1>2, <2>3, <2>4, <2>5, <2>6, <2>7 DEF EachInOnePlace
<1>5. EndsWhenTaken'
  <2>1. worker'[w].at # "none" /\ phase # "resolved"
    BY DEF EndsWhenTaken, Moves
  <2> QED BY <2>1, <1>2 DEF EndsWhenTaken
<1>6. CompletedIsProcessed'
  BY DEF CompletedIsProcessed
<1> QED BY <1>1, <1>4, <1>5, <1>6

LEMMA TakeKeeps ==
  ASSUME BackfillInv, NEW w \in Workers, TakeChunk(w)
  PROVE  BackfillInv'
<1> USE DEF BackfillInv, settings
<1> DEFINE c == NthPending(cursor)
           t == [at |-> "sleeping", chunk |-> c, attempt |-> 0]
<1>0. /\ worker[w].at = "looking" /\ cursor' = cursor + 1 /\ cursor \in Nat
      /\ UNCHANGED <<phase, settings, completed, failed, processed>>
  BY DEF TakeChunk, BackfillTypes
<1>1. c \in Pending /\ c \notin Taken(cursor) /\ Taken(cursor + 1) = Taken(cursor) \cup {c}
      /\ c \in Nat
  BY TakeNext, PendingFinite DEF TakeChunk
<1>2. /\ t \in [at : {"none", "looking", "sleeping", "processing"}, chunk : Nat, attempt : Nat]
      /\ t.at = "sleeping" /\ t.chunk = c
  BY <1>1
<1>3. worker' = [worker EXCEPT ![w] = t]
  BY DEF TakeChunk
<1> HIDE DEF t, c
<1>4. Moves(w, "sleeping", c)
  BY <1>2, <1>3 DEF Moves, BackfillTypes
<1>5. PICK k : k = c
  OBVIOUS
<1>6. BackfillTypes'
  BY <1>0, <1>4 DEF BackfillTypes, Moves
<1>7. Taken(cursor)' = Taken(cursor) \cup {k} /\ Pending' = Pending
  BY <1>0, <1>1, <1>5 DEF Taken, Pending
<1>8. Busy' = Busy \cup {w} /\ w \notin Busy /\ worker'[w].chunk = k
      /\ \A v \in Busy : worker'[v].chunk = worker[v].chunk
  BY <1>0, <1>4, <1>5 DEF Busy, Moves
<1>9. EachInOnePlace'
  <2>0. SUFFICES ASSUME phase' \in {"running", "resolved"} PROVE EachInOnePlace'
    BY DEF EachInOnePlace
  <2>1. EachInOnePlace /\ phase \in {"running", "resolved"}
    BY <2>0, <1>0
  <2>2. k \notin completed \cup failed
    BY <2>1, <1>1, <1>5 DEF EachInOnePlace, Pending
  <2>3. \A v \in Busy' : worker'[v].chunk \in Taken(cursor)' \ (completed \cup failed)
    BY <2>1, <2>2, <1>7, <1>8 DEF EachInOnePlace
  <2>4. \A v, u \in Busy' : worker'[v].chunk = worker'[u].chunk => v = u
    <3>1. \A v \in Busy : worker[v].chunk # k
      BY <2>1, <1>1, <1>5 DEF EachInOnePlace
    <3> QED BY <3>1, <2>1, <1>8 DEF EachInOnePlace
  <2>5. \A i \in Taken(cursor)' : i \in completed \cup failed \/ \E v \in Busy' : worker'[v].chunk = i
    BY <2>1, <1>7, <1>8 DEF EachInOnePlace
  <2> QED BY <2>1, <2>3, <2>4, <2>5, <1>0, <1>7 DEF EachInOnePlace
<1>10. EndsWhenTaken'
  <2>1. worker'[w].at # "none"
    BY <1>4 DEF Moves
  <2>2. phase # "resolved"
    BY PendingFinite DEF TakeChunk, EndsWhenTaken, BackfillTypes
  <2> QED BY <2>1, <2>2, <1>0 DEF EndsWhenTaken
<1>11. CompletedIsProcessed'
  BY <1>0 DEF CompletedIsProcessed
<1> QED BY <1>6, <1>9, <1>10, <1>11

LEMMA NoneLeftKeeps ==
  ASSUME BackfillInv, NEW w \in Workers, NoChunkLeft(w)
  PROVE  BackfillInv'
<1> USE DEF BackfillInv, settings
<1>0. /\ worker[w].at = "looking" /\ cursor >= Cardinality(Pending)
      /\ UNCHANGED <<phase, settings, cursor, completed, failed, processed>>
      /\ Moves(w, "none", NoWork.chunk)
  BY StopMoves DEF NoChunkLeft
<1>1. BackfillTypes'
  BY <1>0 DEF BackfillTypes, Moves
<1>2. Taken(cursor)' = Taken(cursor) /\ Pending' = Pending
  BY <1>0 DEF Taken, Pending
<1>3. Busy' = Busy /\ \A v \in Busy : worker'[v].chunk = worker[v].chunk
  BY <1>0 DEF Busy, Moves
<1>4. EachInOnePlace'
  BY <1>0, <1>2, <1>3 DEF EachInOnePlace
<1>5. EndsWhenTaken'
  BY <1>0, <1>2, <1>3 DEF EndsWhenTaken
<1>6. CompletedIsProcessed'
  BY <1>0 DEF CompletedIsProcessed
<1> QED BY <1>1, <1>4, <1>5, <1>6

LEMMA ChunkInRange ==
  ASSUME BackfillTypes, NEW w \in Workers
  PROVE  Chunk(worker[w].chunk, size) \subseteq Units
BY WorkerRecord, ChunksCover DEF BackfillTypes

LEMMA StartKeeps ==
  ASSUME BackfillInv, NEW w \in Workers, StartChunk(w)
  PROVE  BackfillInv'
<1>1. Moves(w, "processing", worker[w].chunk) /\ w \in Busy
  BY AttemptMoves DEF StartChunk, BackfillInv, Busy
<1> QED BY <1>1, KeepsItsChunk DEF StartChunk, BackfillInv, BackfillTypes

LEMMA SuccessKeeps ==
  ASSUME BackfillInv, NEW w \in Workers, ChunkSucceeds(w)
  PROVE  BackfillInv'
<1>1. Moves(w, "looking", worker[w].chunk) /\ w \in Busy
  BY SettleMoves DEF ChunkSucceeds, BackfillInv, Busy
<1> QED BY <1>1, ChunkInRange, PutsItsChunk DEF ChunkSucceeds, BackfillInv, BackfillTypes

\* Another attempt, or the chunk is given up
LEMMA RetryKeeps ==
  ASSUME BackfillInv, NEW w \in Workers, worker[w].at = "processing", RetryOrGiveUp(w),
         UNCHANGED <<phase, settings, cursor, completed>>,
         processed \subseteq processed', processed' \subseteq Units
  PROVE  BackfillInv'
<1>0. w \in Busy /\ BackfillTypes
  BY DEF Busy, BackfillInv
<1>1. CASE worker[w].attempt > MaxRetries
  <2>1. Moves(w, "looking", worker[w].chunk) /\ failed' = failed \cup {worker[w].chunk}
    BY <1>0, <1>1, SettleMoves DEF RetryOrGiveUp
  <2> QED BY <1>0, <2>1, PutsItsChunk
<1>2. CASE ~ (worker[w].attempt > MaxRetries)
  <2>1. worker[w].attempt + 1 \in Nat
    BY <1>0, WorkerRecord
  <2>2. Moves(w, "processing", worker[w].chunk) /\ failed' = failed
    BY <1>0, <1>2, <2>1, AttemptMoves DEF RetryOrGiveUp
  <2> QED BY <1>0, <2>2, KeepsItsChunk
<1> QED BY <1>1, <1>2

LEMMA FailureKeeps ==
  ASSUME BackfillInv, NEW w \in Workers, ChunkFails(w) \/ SuccessEventThrows(w)
  PROVE  BackfillInv'
<1>1. CASE ChunkFails(w)
  BY <1>1, RetryKeeps DEF ChunkFails, BackfillInv, BackfillTypes
<1>2. CASE SuccessEventThrows(w)
  BY <1>2, ChunkInRange, RetryKeeps DEF SuccessEventThrows, BackfillInv, BackfillTypes
<1> QED BY <1>1, <1>2

LEMMA RejectKeeps ==
  ASSUME BackfillInv, NEW w \in Workers, EventThrows(w)
  PROVE  BackfillInv'
<1> USE DEF BackfillInv, settings
<1>0. /\ phase' = "rejected" /\ UNCHANGED <<settings, cursor, completed, failed>>
      /\ Moves(w, "none", NoWork.chunk)
  BY StopMoves DEF EventThrows
<1>1. processed \subseteq processed' /\ processed' \subseteq Units
  BY ChunkInRange DEF EventThrows, BackfillTypes
<1>2. BackfillTypes'
  BY <1>0, <1>1 DEF BackfillTypes, Moves
<1>3. EachInOnePlace' /\ EndsWhenTaken'
  BY <1>0 DEF EachInOnePlace, EndsWhenTaken
<1>4. CompletedIsProcessed'
  BY <1>0, <1>1 DEF CompletedIsProcessed
<1> QED BY <1>2, <1>3, <1>4

LEMMA ResolveKeeps ==
  ASSUME BackfillInv, Resolve
  PROVE  BackfillInv'
<1> USE DEF BackfillInv, settings, Resolve
<1>1. BackfillTypes'
  BY DEF BackfillTypes
<1>2. Taken(cursor)' = Taken(cursor) /\ Pending' = Pending /\ Busy' = Busy
  BY DEF Taken, Pending, Busy
<1>3. EachInOnePlace'
  BY <1>2 DEF EachInOnePlace
<1>4. EndsWhenTaken'
  BY <1>2 DEF EndsWhenTaken, Busy
<1>5. CompletedIsProcessed'
  BY DEF CompletedIsProcessed
<1> QED BY <1>1, <1>3, <1>4, <1>5

\* What a run that resolved leaves
LEMMA ResolvedLists ==
  ASSUME BackfillInv, phase = "resolved"
  PROVE  /\ completed \cap failed = {} /\ given \subseteq completed
         /\ completed \cup failed = given \cup ChunkIndexes(size)
<1>1. Taken(cursor) = Pending /\ Busy = {}
  BY AllTaken DEF BackfillInv, EndsWhenTaken
<1>2. EachInOnePlace
  BY DEF BackfillInv
<1> QED BY <1>1, <1>2 DEF EachInOnePlace, Pending

LEMMA RunKeeps ==
  ASSUME BackfillInv, NEW n \in ChunkSizes, NEW concurrency \in ConcurrencyLevels,
         RunBackfill(n, concurrency)
  PROVE  BackfillInv'
<1> DEFINE pending == Cardinality(ChunkIndexes(n) \ given')
<1>0. /\ phase # "running" /\ phase' = "running" /\ size' = n /\ completed' = given'
      /\ failed' = {} /\ cursor' = 0 /\ processed' = processed
      /\ given' = IF phase = "resolved" THEN completed ELSE {}
      /\ resized' = (given' # {} /\ (resized \/ n # size))
      /\ pool' = IF pending = 0 THEN 1 ELSE Least(concurrency, pending)
      /\ BackfillTypes
  BY DEF RunBackfill, BackfillInv
<1>1. PICK chosen \in SUBSET Workers :
        /\ Cardinality(chosen) = pool'
        /\ worker' = [w \in Workers |->
                        IF w \in chosen THEN [NoWork EXCEPT !.at = "looking"] ELSE NoWork]
  BY DEF RunBackfill
<1>2. n \in Nat \ {0} /\ concurrency \in Nat \ {0}
  BY BackfillAssumption
<1>3. given' \in SUBSET Nat
  BY <1>0 DEF BackfillTypes
<1>4. \A w \in Workers :
        /\ worker'[w] \in [at : {"none", "looking", "sleeping", "processing"},
                           chunk : Nat, attempt : Nat]
        /\ worker'[w].at = IF w \in chosen THEN "looking" ELSE "none"
  BY <1>1 DEF NoWork
<1>5. BackfillTypes'
  <2>1. worker' \in [Workers -> [at : {"none", "looking", "sleeping", "processing"},
                                 chunk : Nat, attempt : Nat]]
    BY <1>1, <1>4
  <2>2. resized' \in BOOLEAN
    BY <1>0
  <2> QED BY <1>0, <1>2, <1>3, <2>1, <2>2 DEF BackfillTypes
<1>6. Pending' = ChunkIndexes(n) \ given' /\ Pending' \in SUBSET Nat /\ IsFiniteSet(Pending')
  <2>1. Pending' = ChunkIndexes(n) \ given'
    BY <1>0 DEF Pending
  <2>2. IsFiniteSet(ChunkIndexes(n)) /\ ChunkIndexes(n) \subseteq Nat
    <3>1. ChunkCount(n) \in Nat
      BY <1>2, ChunksCover
    <3> QED BY <3>1, FS_Interval DEF ChunkIndexes
  <2> QED BY <2>1, <2>2, FS_Difference
\* At least one worker starts.
<1>7. chosen # {}
  <2>1. pending \in Nat
    BY <1>6, FS_CardinalityType
  <2>2. pool' # 0
    BY <1>0, <1>2, <2>1 DEF Least
  <2> QED BY <2>2, <1>1, FS_EmptySet
<1>8. Taken(cursor)' = {} /\ Busy' = {}
  <2>1. \A i \in Pending' : Rank(Pending', i) \in Nat
    BY <1>6, RankType
  <2>2. Taken(cursor)' = {}
    BY <2>1, <1>0 DEF Taken, Rank
  <2> QED BY <2>2, <1>4 DEF Busy
<1>9. EachInOnePlace'
  BY <1>0, <1>8 DEF EachInOnePlace
<1>10. EndsWhenTaken'
  BY <1>0, <1>4, <1>7 DEF EndsWhenTaken
<1>11. CompletedIsProcessed'
  <2> SUFFICES ASSUME ~resized'
               PROVE  /\ given' \subseteq ChunkIndexes(n)
                      /\ \A i \in given' : Chunk(i, n) \subseteq processed
    BY <1>0 DEF CompletedIsProcessed
  <2>1. CASE given' = {}
    BY <2>1
  <2>2. CASE given' # {}
    <3>1. phase = "resolved" /\ given' = completed /\ ~resized /\ n = size
      BY <2>2, <1>0
    <3>2. completed \subseteq given \cup ChunkIndexes(size)
      BY <3>1, ResolvedLists
    <3> QED BY <3>1, <3>2 DEF BackfillInv, CompletedIsProcessed
  <2> QED BY <2>1, <2>2
<1> QED BY <1>5, <1>9, <1>10, <1>11 DEF BackfillInv

LEMMA BackfillStart == BackfillInit => BackfillInv
<1> SUFFICES ASSUME BackfillInit PROVE BackfillInv
  OBVIOUS
<1>1. size \in Nat \ {0}
  BY BackfillAssumption DEF BackfillInit
<1>2. BackfillTypes
  BY <1>1, NoWorkType DEF BackfillInit, BackfillTypes
<1> QED BY <1>2 DEF BackfillInv, BackfillInit, EachInOnePlace, EndsWhenTaken, CompletedIsProcessed

LEMMA BackfillStutter ==
  ASSUME BackfillInv, UNCHANGED backfillVars
  PROVE  BackfillInv'
<1>1. Taken(cursor)' = Taken(cursor) /\ Pending' = Pending /\ Busy' = Busy
  BY DEF backfillVars, settings, Taken, Pending, Busy
<1> QED BY <1>1 DEF backfillVars, settings, BackfillInv, BackfillTypes, EachInOnePlace,
                    EndsWhenTaken, CompletedIsProcessed

LEMMA ResolvedCovers == BackfillInv => ResolvedIsComplete
<1> SUFFICES ASSUME BackfillInv, phase = "resolved"
             PROVE  /\ completed \cap failed = {}
                    /\ ~resized => /\ completed \cup failed = ChunkIndexes(size)
                                   /\ failed = {} => processed = Units
                                   /\ \A i \in completed : Chunk(i, size) \subseteq processed
  BY DEF ResolvedIsComplete
<1>0. BackfillTypes /\ CompletedIsProcessed
  BY DEF BackfillInv
<1>1. completed \cap failed = {} /\ completed \cup failed = given \cup ChunkIndexes(size)
  BY ResolvedLists
<1>2. ASSUME ~resized
      PROVE  /\ completed \cup failed = ChunkIndexes(size)
             /\ \A i \in completed : Chunk(i, size) \subseteq processed
  BY <1>0, <1>1, <1>2 DEF CompletedIsProcessed
<1>3. ASSUME ~resized, failed = {} PROVE processed = Units
  <2>1. \A i \in ChunkIndexes(size) : Chunk(i, size) \subseteq processed
    BY <1>2, <1>3
  <2>2. \A u \in Units : \E i \in ChunkIndexes(size) : u \in Chunk(i, size)
    BY <1>0, ChunksCover DEF BackfillTypes
  <2>3. processed \subseteq Units
    BY <1>0 DEF BackfillTypes
  <2> QED BY <2>1, <2>2, <2>3
<1> QED BY <1>1, <1>2, <1>3

\* A run that resolves has put every chunk on exactly one list, and when none
\* failed the whole range is processed, by it and the runs it resumes, as long
\* as they agree on the chunk size (planChunks, pending, completed, failed).
THEOREM ResolvedRunsAreComplete == BackfillSpec => []ResolvedIsComplete
<1>1. ASSUME BackfillInv, [BackfillNext]_backfillVars PROVE BackfillInv'
  <2>1. CASE \E n \in ChunkSizes, concurrency \in ConcurrencyLevels : RunBackfill(n, concurrency)
    BY <2>1, <1>1, RunKeeps
  <2>2. CASE \E w \in Workers : BackfillWorker(w) \/ SuccessEventThrows(w) \/ EventThrows(w)
    BY <2>2, <1>1, TakeKeeps, NoneLeftKeeps, StartKeeps, SuccessKeeps, FailureKeeps, RejectKeeps
       DEF BackfillWorker
  <2>3. CASE Resolve
    BY <2>3, <1>1, ResolveKeeps
  <2>4. CASE UNCHANGED backfillVars
    BY <2>4, <1>1, BackfillStutter
  <2> QED BY <1>1, <2>1, <2>2, <2>3, <2>4 DEF BackfillNext
<1> QED BY <1>1, BackfillStart, ResolvedCovers, PTL DEF BackfillSpec

-----------------------------------------------------------------------------
(* Types of the backfill *)

BackfillWork == [at : {"none", "looking", "sleeping", "processing"},
                 chunk : Units, attempt : 0 .. MaxRetries + 1]

At(places) == {w \in Workers : worker[w].at \in places}

\* inFlight counts the chunks being processed, and those whose worker an event
\* that threw has ended.
InFlightCounted ==
  /\ inFlight \in Nat
  /\ Cardinality(At({"processing"})) <= inFlight
  /\ inFlight <= Cardinality(At({"processing", "none"}))

BackfillTypeInv ==
  /\ BackfillTypeOK
  /\ cursor <= Cardinality(Pending)
  /\ InFlightCounted

LEMMA BackfillNumbers ==
  /\ RangeEnd \in Nat \ {0} /\ MaxRetries \in Nat /\ MaxBackfillRuns \in Nat /\ MaxSinkFaults \in Nat
  /\ ChunkSizes \subseteq Nat \ {0}
  /\ IsFiniteSet(Workers) /\ Cardinality(Workers) \in Nat \ {0}
  /\ 0 \in Units /\ Units \subseteq Nat
<1>1. Cardinality(Workers) \in Nat
  BY BackfillAssumption, FS_CardinalityType
<1>2. \E c \in 1 .. Cardinality(Workers) : TRUE
  BY BackfillAssumption
<1>3. Cardinality(Workers) # 0
  BY <1>1, <1>2
<1>4. 0 \in Units /\ Units \subseteq Nat
  BY BackfillAssumption DEF Units
<1> QED BY <1>1, <1>3, <1>4, BackfillAssumption

LEMMA TypeOKTypes ==
  ASSUME BackfillTypeOK
  PROVE  /\ BackfillTypes /\ worker \in [Workers -> BackfillWork]
         /\ cursor \in Nat
<1>1. worker \in [Workers -> BackfillWork]
  BY DEF BackfillTypeOK, BackfillWork
<1>2. BackfillWork \subseteq [at : {"none", "looking", "sleeping", "processing"},
                              chunk : Nat, attempt : Nat]
  <2>1. 0 .. MaxRetries + 1 \subseteq Nat /\ Units \subseteq Nat
    BY BackfillNumbers
  <2> QED BY <2>1 DEF BackfillWork
<1>3. worker \in [Workers -> [at : {"none", "looking", "sleeping", "processing"},
                              chunk : Nat, attempt : Nat]]
  BY <1>1, <1>2
<1>4. size \in Nat \ {0} /\ cursor \in Nat /\ given \in SUBSET Nat /\ completed \in SUBSET Nat
      /\ failed \in SUBSET Nat /\ processed \in SUBSET Units /\ resized \in BOOLEAN
  BY BackfillNumbers DEF BackfillTypeOK
<1> QED BY <1>1, <1>3, <1>4 DEF BackfillTypes

\* There are not more chunks than units.
LEMMA ChunksAreFew ==
  ASSUME NEW n \in Nat \ {0}
  PROVE  /\ ChunkCount(n) \in Nat /\ ChunkCount(n) <= RangeEnd
         /\ ChunkIndexes(n) \subseteq Units
         /\ IsFiniteSet(ChunkIndexes(n)) /\ Cardinality(ChunkIndexes(n)) = ChunkCount(n)
<1> DEFINE m == ChunkCount(n)
<1>0. RangeEnd \in Nat
  BY BackfillNumbers
<1>1. m \in Nat /\ m * n <= RangeEnd + n - 1
  BY <1>0 DEF ChunkCount
<1> HIDE DEF m
<1>2. m <= RangeEnd
  <2>1. ASSUME RangeEnd + 1 <= m PROVE FALSE
    <3>1. (RangeEnd + 1) * n <= m * n
      BY <2>1, <1>0, <1>1
    <3>2. (RangeEnd + 1) * n = RangeEnd * n + n
      BY <1>0
    <3>3. RangeEnd <= RangeEnd * n
      BY <1>0
    <3>4. RangeEnd * n \in Nat /\ m * n \in Nat /\ (RangeEnd + 1) * n \in Nat
      BY <1>0, <1>1
    <3> QED BY <3>1, <3>2, <3>3, <3>4, <1>0, <1>1
  <2> QED BY <2>1, <1>0, <1>1
<1>3. ChunkIndexes(n) = 0 .. m - 1
  BY DEF ChunkIndexes, m
<1>4. IsFiniteSet(0 .. m - 1) /\ Cardinality(0 .. m - 1) = m
  <2>1. PICK k : k = m - 1
    OBVIOUS
  <2>2. 0 \in Int /\ k \in Int
    BY <2>1, <1>1
  <2>3. IsFiniteSet(0 .. k) /\ Cardinality(0 .. k) = IF 0 > k THEN 0 ELSE k - 0 + 1
    BY <2>2, FS_Interval
  <2>4. (IF 0 > k THEN 0 ELSE k - 0 + 1) = m
    BY <2>1, <1>1
  <2> QED BY <2>1, <2>3, <2>4
<1>5. 0 .. m - 1 \subseteq Units
  BY <1>0, <1>1, <1>2 DEF Units
<1> QED BY <1>1, <1>2, <1>3, <1>4, <1>5 DEF m

LEMMA PendingIsSmall ==
  ASSUME BackfillTypeOK
  PROVE  Pending \subseteq Units /\ Cardinality(Pending) \in Nat /\ Cardinality(Pending) <= RangeEnd
<1>1. size \in Nat \ {0}
  BY TypeOKTypes DEF BackfillTypes
<1>2. Pending \in SUBSET ChunkIndexes(size)
  BY DEF Pending
<1>3. IsFiniteSet(Pending) /\ Cardinality(Pending) <= Cardinality(ChunkIndexes(size))
  BY <1>1, <1>2, ChunksAreFew, FS_Subset
<1>4. Cardinality(Pending) \in Nat
  BY <1>3, FS_CardinalityType
<1> QED BY <1>1, <1>2, <1>3, <1>4, ChunksAreFew, BackfillNumbers

-----------------------------------------------------------------------------
(* Workers at a place *)

LEMMA PlacesCounted ==
  ASSUME NEW S \in SUBSET Workers
  PROVE  IsFiniteSet(S) /\ Cardinality(S) \in Nat /\ Cardinality(S) <= Cardinality(Workers)
BY BackfillNumbers, FS_Subset, FS_CardinalityType

LEMMA OneMore ==
  ASSUME NEW S \in SUBSET Workers, NEW w \in Workers, w \notin S
  PROVE  Cardinality(S \cup {w}) = Cardinality(S) + 1
BY PlacesCounted, FS_AddElement

LEMMA OneLess ==
  ASSUME NEW S \in SUBSET Workers, NEW w \in S
  PROVE  Cardinality(S \ {w}) = Cardinality(S) - 1
BY PlacesCounted, FS_RemoveElement

\* Where one worker moves, the sets change by that worker.
LEMMA PlaceChanges ==
  ASSUME worker \in [Workers -> BackfillWork], NEW w \in Workers, NEW t \in BackfillWork,
         worker' = [worker EXCEPT ![w] = t], NEW places
  PROVE  At(places)' = IF t.at \in places THEN At(places) \cup {w} ELSE At(places) \ {w}
BY DEF At

LEMMA WorkerMoves ==
  ASSUME BackfillTypeInv, NEW w \in Workers, NEW t \in BackfillWork, worker' = [worker EXCEPT ![w] = t],
         UNCHANGED settings, phase' \in {"idle", "running", "resolved", "rejected"},
         completed' \in SUBSET Units, failed' \in SUBSET Units, processed' \in SUBSET Units,
         cursor' \in Nat, cursor' <= Cardinality(Pending), sinkFaults' \in 0 .. MaxSinkFaults,
         \/ inFlight' = inFlight /\ worker[w].at # "processing" /\ t.at # "processing"
                                 /\ (worker[w].at = "none" => t.at = "none")
         \/ inFlight' = inFlight + 1 /\ worker[w].at = "sleeping" /\ t.at = "processing"
         \/ inFlight' = inFlight - 1 /\ worker[w].at = "processing" /\ t.at = "looking"
         \/ inFlight' = inFlight /\ worker[w].at = "processing" /\ t.at \in {"processing", "none"}
         \/ inFlight' = inFlight + 1 /\ worker[w].at = "sleeping" /\ t.at = "none"
  PROVE  BackfillTypeInv'
<1> DEFINE N == At({"processing"})
           U == At({"processing", "none"})
<1>0. BackfillTypeOK /\ InFlightCounted /\ worker \in [Workers -> BackfillWork]
  BY TypeOKTypes DEF BackfillTypeInv
<1>1. /\ N' = IF t.at = "processing" THEN N \cup {w} ELSE N \ {w}
      /\ U' = IF t.at \in {"processing", "none"} THEN U \cup {w} ELSE U \ {w}
  BY <1>0, PlaceChanges
<1>2. /\ N \in SUBSET Workers /\ U \in SUBSET Workers /\ N' \in SUBSET Workers /\ U' \in SUBSET Workers
      /\ (w \in N <=> worker[w].at = "processing")
      /\ (w \in U <=> worker[w].at \in {"processing", "none"})
  BY DEF At
<1>3. /\ inFlight \in Nat /\ Cardinality(N) <= inFlight /\ inFlight <= Cardinality(U)
  BY <1>0 DEF InFlightCounted
<1> HIDE DEF N, U
<1>4. /\ Cardinality(N) \in Nat /\ Cardinality(U) \in Nat
      /\ Cardinality(N') \in Nat /\ Cardinality(U') \in Nat
  BY <1>2, PlacesCounted
<1>5. inFlight' \in Nat /\ Cardinality(N') <= inFlight' /\ inFlight' <= Cardinality(U')
  <2>1. CASE inFlight' = inFlight /\ worker[w].at # "processing" /\ t.at # "processing"
                                 /\ (worker[w].at = "none" => t.at = "none")
    <3>1. N' = N
      BY <2>1, <1>1, <1>2
    <3>2. U' = U \/ (w \notin U /\ U' = U \cup {w})
      BY <2>1, <1>1, <1>2
    <3>3. Cardinality(U) <= Cardinality(U')
      BY <3>2, <1>2, <1>4, OneMore
    <3> QED BY <2>1, <3>1, <3>3, <1>3, <1>4
  <2>2. CASE inFlight' = inFlight + 1 /\ worker[w].at = "sleeping" /\ t.at = "processing"
    <3>1. w \notin N /\ N' = N \cup {w} /\ w \notin U /\ U' = U \cup {w}
      BY <2>2, <1>1, <1>2
    <3>2. Cardinality(N') = Cardinality(N) + 1 /\ Cardinality(U') = Cardinality(U) + 1
      BY <3>1, <1>2, OneMore
    <3> QED BY <2>2, <3>2, <1>3, <1>4
  <2>3. CASE inFlight' = inFlight - 1 /\ worker[w].at = "processing" /\ t.at = "looking"
    <3>1. w \in N /\ N' = N \ {w} /\ w \in U /\ U' = U \ {w}
      BY <2>3, <1>1, <1>2
    <3>2. Cardinality(N') = Cardinality(N) - 1 /\ Cardinality(U') = Cardinality(U) - 1
      BY <3>1, <1>2, OneLess
    <3> QED BY <2>3, <3>2, <1>3, <1>4
  <2>4. CASE inFlight' = inFlight /\ worker[w].at = "processing" /\ t.at \in {"processing", "none"}
    <3>1. U' = U
      BY <2>4, <1>1, <1>2
    <3>2. N' = N \/ (w \in N /\ N' = N \ {w})
      BY <2>4, <1>1, <1>2
    <3>3. Cardinality(N') <= Cardinality(N)
      BY <3>2, <1>2, <1>4, OneLess
    <3> QED BY <2>4, <3>1, <3>3, <1>3, <1>4
  <2>5. CASE inFlight' = inFlight + 1 /\ worker[w].at = "sleeping" /\ t.at = "none"
    <3>1. w \notin N /\ N' = N /\ w \notin U /\ U' = U \cup {w}
      BY <2>5, <1>1, <1>2
    <3>2. Cardinality(U') = Cardinality(U) + 1
      BY <3>1, <1>2, OneMore
    <3> QED BY <2>5, <3>1, <3>2, <1>3, <1>4
  <2> QED BY <2>1, <2>2, <2>3, <2>4, <2>5
<1>6. InFlightCounted'
  BY <1>5 DEF InFlightCounted, N, U
<1>7. inFlight' \in 0 .. Cardinality(Workers)
  BY <1>2, <1>4, <1>5, PlacesCounted, BackfillNumbers
<1>8. worker' \in [Workers -> [at : {"none", "looking", "sleeping", "processing"},
                               chunk : Units, attempt : 0 .. MaxRetries + 1]]
  BY <1>0 DEF BackfillWork
<1>9. Pending' = Pending
  BY DEF Pending, settings
<1>10. cursor' \in 0 .. RangeEnd
  BY <1>0, PendingIsSmall, BackfillNumbers
<1>11. BackfillTypeOK'
  BY <1>0, <1>7, <1>8, <1>10 DEF BackfillTypeOK, settings
<1> QED BY <1>6, <1>9, <1>11 DEF BackfillTypeInv

LEMMA WorkFields ==
  ASSUME BackfillTypeInv, NEW w \in Workers
  PROVE  /\ worker[w] \in BackfillWork /\ worker[w].chunk \in Units
         /\ worker[w].attempt \in Nat /\ cursor \in Nat /\ cursor <= Cardinality(Pending)
         /\ Cardinality(Pending) \in Nat
         /\ phase \in {"idle", "running", "resolved", "rejected"}
         /\ completed \in SUBSET Units /\ failed \in SUBSET Units /\ processed \in SUBSET Units
         /\ sinkFaults \in 0 .. MaxSinkFaults /\ Chunk(worker[w].chunk, size) \subseteq Units
         /\ NoWork \in BackfillWork /\ NoWork.at = "none"
<1>1. BackfillTypeOK /\ BackfillTypes
  BY TypeOKTypes DEF BackfillTypeInv
<1>2. worker[w] \in BackfillWork
  BY <1>1, TypeOKTypes
<1>3. worker[w].chunk \in Units /\ worker[w].attempt \in Nat
  BY <1>2, BackfillNumbers DEF BackfillWork
<1>4. Chunk(worker[w].chunk, size) \subseteq Units
  BY <1>1, ChunkInRange
<1>5. NoWork \in BackfillWork /\ NoWork.at = "none"
  BY BackfillNumbers DEF NoWork, BackfillWork
<1>6. cursor \in Nat /\ Cardinality(Pending) \in Nat
  BY <1>1, TypeOKTypes, PendingIsSmall
<1>7. cursor <= Cardinality(Pending)
  BY DEF BackfillTypeInv
<1> QED BY <1>1, <1>2, <1>3, <1>4, <1>5, <1>6, <1>7 DEF BackfillTypeOK

-----------------------------------------------------------------------------
(* Steps *)

LEMMA TakeTypes ==
  ASSUME BackfillTypeInv, NEW w \in Workers, TakeChunk(w)
  PROVE  BackfillTypeInv'
<1>0. BackfillTypeOK /\ BackfillTypes /\ cursor < Cardinality(Pending)
  BY TypeOKTypes DEF BackfillTypeInv, TakeChunk
<1>1. PICK c \in Units : c = NthPending(cursor)
  BY <1>0, TakeNext, PendingIsSmall
<1> DEFINE t == [at |-> "sleeping", chunk |-> c, attempt |-> 0]
<1>2. t \in BackfillWork /\ t.at = "sleeping"
  BY BackfillNumbers DEF BackfillWork
<1>3. worker' = [worker EXCEPT ![w] = t]
  BY <1>1 DEF TakeChunk
<1> HIDE DEF t
<1>4. cursor' \in Nat /\ cursor' <= Cardinality(Pending)
  BY <1>0, WorkFields DEF TakeChunk
<1>5. /\ inFlight' = inFlight /\ worker[w].at = "looking"
      /\ UNCHANGED <<phase, settings, completed, failed, processed, sinkFaults>>
  BY DEF TakeChunk
<1> QED BY <1>2, <1>3, <1>4, <1>5, WorkFields, WorkerMoves

LEMMA NoneLeftTypes ==
  ASSUME BackfillTypeInv, NEW w \in Workers, NoChunkLeft(w)
  PROVE  BackfillTypeInv'
<1>1. /\ inFlight' = inFlight /\ worker[w].at = "looking" /\ worker' = [worker EXCEPT ![w] = NoWork]
      /\ UNCHANGED <<phase, settings, cursor, completed, failed, processed, sinkFaults>>
  BY DEF NoChunkLeft
<1> HIDE DEF NoWork
<1> QED BY <1>1, WorkFields, WorkerMoves

LEMMA AttemptTypes ==
  ASSUME BackfillTypeInv, NEW w \in Workers, NEW n \in 0 .. MaxRetries + 1, Attempt(w, n)
  PROVE  \E t \in BackfillWork : t.at = "processing" /\ worker' = [worker EXCEPT ![w] = t]
<1> DEFINE t == [worker[w] EXCEPT !.at = "processing", !.attempt = n]
<1>1. t \in BackfillWork /\ t.at = "processing"
  BY WorkFields DEF BackfillWork
<1>2. worker' = [worker EXCEPT ![w] = t]
  BY DEF Attempt
<1> QED BY <1>1, <1>2

LEMMA SettleTypes ==
  ASSUME BackfillTypeInv, NEW w \in Workers, Settle(w)
  PROVE  /\ inFlight' = inFlight - 1
         /\ \E t \in BackfillWork : t.at = "looking" /\ worker' = [worker EXCEPT ![w] = t]
<1> DEFINE t == [worker[w] EXCEPT !.at = "looking"]
<1>1. t \in BackfillWork /\ t.at = "looking"
  BY WorkFields DEF BackfillWork
<1>2. worker' = [worker EXCEPT ![w] = t]
  BY DEF Settle
<1> QED BY <1>1, <1>2 DEF Settle

LEMMA StartTypes ==
  ASSUME BackfillTypeInv, NEW w \in Workers, StartChunk(w)
  PROVE  BackfillTypeInv'
<1>1. /\ inFlight' = inFlight + 1 /\ worker[w].at = "sleeping" /\ Attempt(w, 1)
      /\ UNCHANGED <<phase, settings, cursor, completed, failed, processed, sinkFaults>>
  BY DEF StartChunk
<1>2. 1 \in 0 .. MaxRetries + 1
  BY BackfillNumbers
<1>3. PICK t \in BackfillWork : t.at = "processing" /\ worker' = [worker EXCEPT ![w] = t]
  BY <1>1, <1>2, AttemptTypes
<1> QED BY <1>1, <1>3, WorkFields, WorkerMoves

LEMMA SucceedTypes ==
  ASSUME BackfillTypeInv, NEW w \in Workers, ChunkSucceeds(w)
  PROVE  BackfillTypeInv'
<1>1. /\ worker[w].at = "processing" /\ Settle(w)
      /\ UNCHANGED <<phase, settings, cursor, failed, sinkFaults>>
      /\ processed' = processed \cup Chunk(worker[w].chunk, size)
      /\ completed' = completed \cup {worker[w].chunk}
  BY DEF ChunkSucceeds
<1>2. processed' \in SUBSET Units /\ completed' \in SUBSET Units
  BY <1>1, WorkFields
<1>3. PICK t \in BackfillWork : t.at = "looking" /\ worker' = [worker EXCEPT ![w] = t]
  BY <1>1, SettleTypes
<1>4. inFlight' = inFlight - 1
  BY <1>1, SettleTypes
<1> QED BY <1>1, <1>2, <1>3, <1>4, WorkFields, WorkerMoves

LEMMA RetryTypes ==
  ASSUME BackfillTypeInv, NEW w \in Workers, worker[w].at = "processing", RetryOrGiveUp(w),
         UNCHANGED <<phase, settings, cursor, completed>>, processed' \in SUBSET Units,
         sinkFaults' \in 0 .. MaxSinkFaults
  PROVE  BackfillTypeInv'
<1>1. CASE worker[w].attempt > MaxRetries
  <2>1. Settle(w) /\ failed' = failed \cup {worker[w].chunk}
    BY <1>1 DEF RetryOrGiveUp
  <2>2. failed' \in SUBSET Units
    BY <2>1, WorkFields
  <2>3. PICK t \in BackfillWork : t.at = "looking" /\ worker' = [worker EXCEPT ![w] = t]
    BY <2>1, SettleTypes
  <2>4. inFlight' = inFlight - 1
    BY <2>1, SettleTypes
  <2> QED BY <2>2, <2>3, <2>4, WorkFields, WorkerMoves
<1>2. CASE ~ (worker[w].attempt > MaxRetries)
  <2>1. PICK n \in 0 .. MaxRetries + 1 : n = worker[w].attempt + 1
    BY <1>2, WorkFields, BackfillNumbers
  <2>2. Attempt(w, n) /\ failed' = failed /\ inFlight' = inFlight
    BY <1>2, <2>1 DEF RetryOrGiveUp
  <2>3. PICK t \in BackfillWork : t.at = "processing" /\ worker' = [worker EXCEPT ![w] = t]
    BY <2>2, AttemptTypes
  <2> QED BY <2>2, <2>3, WorkFields, WorkerMoves
<1> QED BY <1>1, <1>2

LEMMA SinkTypes ==
  ASSUME BackfillTypeInv, SinkThrows
  PROVE  sinkFaults' \in 0 .. MaxSinkFaults
BY BackfillNumbers DEF BackfillTypeInv, BackfillTypeOK, SinkThrows

LEMMA FailTypes ==
  ASSUME BackfillTypeInv, NEW w \in Workers, ChunkFails(w) \/ SuccessEventThrows(w)
  PROVE  BackfillTypeInv'
<1>1. CASE ChunkFails(w)
  BY <1>1, WorkFields, RetryTypes DEF ChunkFails
<1>2. CASE SuccessEventThrows(w)
  BY <1>2, WorkFields, SinkTypes, RetryTypes DEF SuccessEventThrows
<1> QED BY <1>1, <1>2

LEMMA RejectTypes ==
  ASSUME BackfillTypeInv, NEW w \in Workers, EventThrows(w)
  PROVE  BackfillTypeInv'
<1>1. /\ phase' = "rejected" /\ worker' = [worker EXCEPT ![w] = NoWork]
      /\ UNCHANGED <<settings, cursor, completed, failed>>
      /\ sinkFaults' \in 0 .. MaxSinkFaults
  BY SinkTypes DEF EventThrows
<1>2. processed' \in SUBSET Units
  BY WorkFields DEF EventThrows
<1>3. \/ worker[w].at = "sleeping" /\ inFlight' = inFlight + 1
      \/ worker[w].at = "processing" /\ inFlight' = inFlight
  BY DEF EventThrows
<1> HIDE DEF NoWork
<1> QED BY <1>1, <1>2, <1>3, WorkFields, WorkerMoves

LEMMA ResolveTypes ==
  ASSUME BackfillTypeInv, Resolve
  PROVE  BackfillTypeInv'
BY DEF BackfillTypeInv, BackfillTypeOK, Resolve, settings, Pending, InFlightCounted, At

LEMMA RunTypes ==
  ASSUME BackfillTypeInv, NEW n \in ChunkSizes, NEW concurrency \in ConcurrencyLevels,
         RunBackfill(n, concurrency)
  PROVE  BackfillTypeInv'
<1> DEFINE pending == Cardinality(ChunkIndexes(n) \ given')
<1>0. /\ phase' = "running" /\ size' = n /\ completed' = given' /\ failed' = {} /\ cursor' = 0
      /\ inFlight' = 0 /\ UNCHANGED <<processed, sinkFaults>>
      /\ runsLeft > 0 /\ runsLeft' = runsLeft - 1
      /\ given' = IF phase = "resolved" THEN completed ELSE {}
      /\ resized' = (given' # {} /\ (resized \/ n # size))
      /\ pool' = IF pending = 0 THEN 1 ELSE Least(concurrency, pending)
  BY DEF RunBackfill
<1>1. PICK chosen \in SUBSET Workers :
        worker' = [w \in Workers |->
                     IF w \in chosen THEN [NoWork EXCEPT !.at = "looking"] ELSE NoWork]
  BY DEF RunBackfill
<1>2. BackfillTypeOK
  BY DEF BackfillTypeInv
<1>3. given' \in SUBSET Units /\ n \in Nat \ {0} /\ resized' \in BOOLEAN
  BY <1>0, <1>2, BackfillNumbers DEF BackfillTypeOK
<1>4. pending \in Nat /\ Pending' = ChunkIndexes(n) \ given'
  <2>1. IsFiniteSet(ChunkIndexes(n))
    BY <1>3, ChunksAreFew
  <2> QED BY <2>1, <1>0, FS_Difference, FS_CardinalityType DEF Pending
<1> HIDE DEF pending
<1>5. pool' \in 0 .. Cardinality(Workers)
  <2>1. concurrency \in 1 .. Cardinality(Workers)
    BY BackfillAssumption
  <2> QED BY <2>1, <1>0, <1>4, BackfillNumbers DEF Least
<1>6. \A w \in Workers : worker'[w] \in BackfillWork /\ worker'[w].at \in {"looking", "none"}
  <2>1. NoWork \in BackfillWork /\ [NoWork EXCEPT !.at = "looking"] \in BackfillWork
    BY BackfillNumbers DEF NoWork, BackfillWork
  <2> QED BY <2>1, <1>1 DEF NoWork
<1>7. worker' \in [Workers -> [at : {"none", "looking", "sleeping", "processing"},
                               chunk : Units, attempt : 0 .. MaxRetries + 1]]
  BY <1>1, <1>6 DEF BackfillWork
<1>8. InFlightCounted'
  <2>1. At({"processing"})' = {}
    BY <1>6 DEF At
  <2>2. At({"processing", "none"})' \in SUBSET Workers
    BY DEF At
  <2>3. Cardinality(At({"processing"})') = 0 /\ Cardinality(At({"processing", "none"})') \in Nat
    BY <2>1, <2>2, PlacesCounted, FS_EmptySet
  <2> QED BY <2>3, <1>0 DEF InFlightCounted
<1>9. cursor' <= Cardinality(Pending')
  BY <1>0, <1>4 DEF pending
<1>10. runsLeft' \in 0 .. MaxBackfillRuns /\ cursor' \in 0 .. RangeEnd /\ inFlight' \in 0 .. Cardinality(Workers)
  BY <1>0, <1>2, BackfillNumbers DEF BackfillTypeOK
<1>11. BackfillTypeOK'
  BY <1>0, <1>2, <1>3, <1>5, <1>7, <1>10 DEF BackfillTypeOK
<1> QED BY <1>8, <1>9, <1>11 DEF BackfillTypeInv

LEMMA BackfillTypeInit == BackfillInit => BackfillTypeInv
<1> SUFFICES ASSUME BackfillInit PROVE BackfillTypeInv
  OBVIOUS
<1>1. size \in ChunkSizes
  BY BackfillAssumption DEF BackfillInit
<1>2. NoWork \in BackfillWork /\ NoWork.at = "none"
  BY BackfillNumbers DEF NoWork, BackfillWork
<1>3. BackfillTypeOK
  <2>1. /\ pool \in 0 .. Cardinality(Workers) /\ cursor \in 0 .. RangeEnd
        /\ inFlight \in 0 .. Cardinality(Workers)
        /\ runsLeft \in 0 .. MaxBackfillRuns /\ sinkFaults \in 0 .. MaxSinkFaults
    BY BackfillNumbers DEF BackfillInit
  <2>2. worker \in [Workers -> BackfillWork]
    BY <1>2 DEF BackfillInit
  <2> QED BY <1>1, <2>1, <2>2 DEF BackfillInit, BackfillTypeOK, BackfillWork
<1>4. cursor <= Cardinality(Pending)
  BY <1>3, PendingIsSmall DEF BackfillInit
<1>5. InFlightCounted
  <2>1. At({"processing"}) = {}
    BY <1>2 DEF At, BackfillInit
  <2>2. At({"processing", "none"}) \in SUBSET Workers
    BY DEF At
  <2>3. Cardinality(At({"processing"})) = 0 /\ Cardinality(At({"processing", "none"})) \in Nat
    BY <2>1, <2>2, PlacesCounted, FS_EmptySet
  <2> QED BY <2>3 DEF InFlightCounted, BackfillInit
<1> QED BY <1>3, <1>4, <1>5 DEF BackfillTypeInv

LEMMA BackfillTypeStep ==
  ASSUME BackfillTypeInv, [BackfillNext]_backfillVars
  PROVE  BackfillTypeInv'
<1>1. CASE \E n \in ChunkSizes, concurrency \in ConcurrencyLevels : RunBackfill(n, concurrency)
  BY <1>1, RunTypes
<1>2. CASE \E w \in Workers : BackfillWorker(w) \/ SuccessEventThrows(w) \/ EventThrows(w)
  BY <1>2, TakeTypes, NoneLeftTypes, StartTypes, SucceedTypes, FailTypes, RejectTypes
     DEF BackfillWorker
<1>3. CASE Resolve
  BY <1>3, ResolveTypes
<1>4. CASE UNCHANGED backfillVars
  BY <1>4 DEF backfillVars, settings, BackfillTypeInv, BackfillTypeOK, Pending, InFlightCounted, At
<1> QED BY <1>1, <1>2, <1>3, <1>4 DEF BackfillNext

\* The types of the state, for any values of the constants.
LEMMA BackfillTypeCorrect == BackfillSpec => []BackfillTypeOK
<1>1. BackfillTypeInv => BackfillTypeOK
  BY DEF BackfillTypeInv
<1> QED BY <1>1, BackfillTypeInit, BackfillTypeStep, PTL DEF BackfillSpec

-----------------------------------------------------------------------------
(***************************************************************************)
(* The rotation of admins: any accounts, proposals and approvers, any      *)
(* number of concurrent requests and of deaths, any limits.                *)
(***************************************************************************)

LEMMA NoRequestType == NoRequest \in Request /\ NoRequest.next = "none" /\ NoRequest.for = None
<1>1. (CHOOSE a \in Addresses : TRUE) \in Addresses /\ (CHOOSE a \in Approvers : TRUE) \in Approvers
  BY AdminAssumption
<1> QED BY <1>1 DEF NoRequest, Request, Steps

LEMMA AdminTypeInit == AdminInit => AdminTypeOK
<1> SUFFICES ASSUME AdminInit PROVE AdminTypeOK
  OBVIOUS
<1>1. account \in [Addresses -> {"absent", "active", "inactive"}]
  BY DEF AdminInit
<1>2. proposal \in [Proposals -> Proposal]
  BY NoRequestType DEF AdminInit, Proposal, Statuses, Kinds, Request
<1>3. request \in [Requests -> Request]
  BY NoRequestType DEF AdminInit
<1>4. consent \in [Proposals -> SUBSET Approvers] /\ applied \in [Proposals -> 0 .. 2]
  BY DEF AdminInit
<1>5. deaths \in 0 .. MaxDeaths
  <2>1. deaths = 0 /\ MaxDeaths \in Nat
    BY AdminAssumption DEF AdminInit
  <2> QED BY <2>1
<1>6. overlapped \in BOOLEAN /\ raced \in SUBSET Proposals
  BY DEF AdminInit
<1> QED BY <1>1, <1>2, <1>3, <1>4, <1>5, <1>6 DEF AdminTypeOK

-----------------------------------------------------------------------------
(* What a step does to a request *)

\* The request goes on: only its next statement changes.
LEMMA ContinueType ==
  ASSUME AdminTypeOK, NEW r \in Requests, NEW step \in Steps, Continue(r, step)
  PROVE  /\ request' \in [Requests -> Request]
         /\ \A q \in Requests : request'[q].for = request[q].for
         /\ \A q \in Requests : request'[q].saw = request[q].saw
         /\ \A q \in Requests : request'[q].approver = request[q].approver
         /\ \A q \in Requests : request'[q].next = IF q = r THEN step ELSE request[q].next
BY DEF AdminTypeOK, Continue, Request

LEMMA EndType ==
  ASSUME AdminTypeOK, NEW r \in Requests, End(r)
  PROVE  /\ request' \in [Requests -> Request]
         /\ request'[r].next = "none" /\ request'[r].for = None
         /\ \A q \in Requests \ {r} : request'[q] = request[q]
BY NoRequestType DEF AdminTypeOK, End

LEMMA ReadsType ==
  ASSUME AdminTypeOK, NEW r \in Requests, NEW step \in Steps, Reads(r, step)
  PROVE  (JsonbAsText /\ Continue(r, step)) \/ (~JsonbAsText /\ End(r))
BY Zenon DEF Reads

\* The request takes up a proposal, or none.
LEMMA BeginType ==
  ASSUME AdminTypeOK, NEW r \in Requests, NEW kind \in Kinds, NEW a \in Addresses,
         NEW p \in Proposals \cup {None}, Begin(r, kind, a, p)
  PROVE  /\ request[r].next = "none"
         /\ request' \in [Requests -> Request]
         /\ request'[r].for = p /\ request'[r].next = FirstStep(kind)
         /\ FirstStep(kind) \in {"insert", "find", "rewrite"}
         /\ FirstStep(kind) = "find" => kind = "remove_admin"
         /\ \A q \in Requests \ {r} : request'[q] = request[q]
         /\ overlapped' \in BOOLEAN
<1>1. request[r] \in Request /\ request[r].next = "none"
  BY DEF AdminTypeOK, Begin
<1>2. FirstStep(kind) \in {"insert", "find", "rewrite"} /\ (FirstStep(kind) = "find" => kind = "remove_admin")
  BY DEF FirstStep, Kinds
<1> DEFINE new == [request[r] EXCEPT !.next = FirstStep(kind), !.target = a, !.for = p]
<1>3. new \in Request /\ new.for = p /\ new.next = FirstStep(kind)
  BY <1>1, <1>2 DEF Request, Steps
<1>4. request' = [request EXCEPT ![r] = new]
  BY DEF Begin
<1> HIDE DEF new
<1>5. request' \in [Requests -> Request] /\ request'[r] = new
      /\ \A q \in Requests \ {r} : request'[q] = request[q]
  BY <1>3, <1>4 DEF AdminTypeOK
<1>6. overlapped' \in BOOLEAN
  BY DEF Begin, AdminTypeOK
<1> QED BY <1>1, <1>2, <1>3, <1>5, <1>6

LEMMA ChangeType ==
  ASSUME AdminTypeOK, NEW r \in Requests, NEW status \in {"absent", "active", "inactive"},
         Change(r, status)
  PROVE  /\ account' \in [Addresses -> {"absent", "active", "inactive"}]
         /\ applied' \in [Proposals -> 0 .. 2]
         /\ \A p \in Proposals : p # request[r].for => applied'[p] = applied[p]
         /\ \A p \in Proposals : p = request[r].for /\ applied[p] = 0 => applied'[p] = 1
<1>1. request[r].target \in Addresses
  BY DEF AdminTypeOK, Request
<1> QED BY <1>1 DEF AdminTypeOK, Change

-----------------------------------------------------------------------------
(* Types *)

\* A proposal of which one field changes is a proposal.
LEMMA ProposalType ==
  ASSUME AdminTypeOK, NEW p \in Proposals
  PROVE  /\ proposal[p] \in Proposal
         /\ \A status \in Statuses : [proposal[p] EXCEPT !.status = status] \in Proposal
         /\ [proposal[p] EXCEPT !.past = TRUE] \in Proposal
         /\ \A status \in Statuses, s \in SUBSET Approvers :
              [proposal[p] EXCEPT !.approvals = s, !.status = status] \in Proposal
BY DEF AdminTypeOK, Proposal

LEMMA AccountStepType ==
  ASSUME AdminTypeOK, NEW r \in Requests, AccountStep(r)
  PROVE  AdminTypeOK'
<1>1. ASSUME NEW kind \in Kinds, NEW a \in Addresses, DirectRequest(r, kind, a) PROVE AdminTypeOK'
  BY <1>1, BeginType DEF DirectRequest, AdminTypeOK
<1>2. ASSUME NEW a \in Addresses, ActivateAdmin(r, a) PROVE AdminTypeOK'
  <2>1. request' = [request EXCEPT ![r] = [request[r] EXCEPT !.next = "activate", !.target = a]]
    BY <1>2 DEF ActivateAdmin
  <2>2. [request[r] EXCEPT !.next = "activate", !.target = a] \in Request
    BY DEF AdminTypeOK, Request, Steps
  <2>3. request' \in [Requests -> Request]
    BY <2>1, <2>2 DEF AdminTypeOK
  <2> QED BY <1>2, <2>3 DEF ActivateAdmin, AdminTypeOK
<1>3. CASE FindAdmin(r)
  <2>1. request' \in [Requests -> Request]
    BY <1>3, EndType, ContinueType, ReadsType DEF FindAdmin, Steps
  <2> QED BY <1>3, <2>1 DEF FindAdmin, AdminTypeOK
<1>4. CASE InsertAdmin(r)
  <2>1. request' \in [Requests -> Request]
    BY <1>4, EndType, ContinueType, ReadsType DEF InsertAdmin, Steps
  <2>2. Change(r, "active") \/ UNCHANGED <<account, applied>>
    BY <1>4 DEF InsertAdmin
  <2>3. /\ account' \in [Addresses -> {"absent", "active", "inactive"}]
        /\ applied' \in [Proposals -> 0 .. 2]
    BY <2>2, ChangeType DEF AdminTypeOK
  <2> QED BY <1>4, <2>1, <2>3 DEF InsertAdmin, AdminTypeOK
<1>5. ASSUME NEW step \in Steps, NEW status \in {"absent", "active", "inactive"},
             UpdateAdmin(r, step, status)
      PROVE  AdminTypeOK'
  <2>1. request' \in [Requests -> Request]
    BY <1>5, ContinueType DEF UpdateAdmin, Steps
  <2>2. /\ account' \in [Addresses -> {"absent", "active", "inactive"}]
        /\ applied' \in [Proposals -> 0 .. 2]
    BY <1>5, ChangeType DEF UpdateAdmin
  <2> QED BY <1>5, <2>1, <2>2 DEF UpdateAdmin, AdminTypeOK
<1>6. CASE Deactivate(r) \/ Reactivate(r)
  BY <1>5, <1>6 DEF Deactivate, Reactivate, Steps
<1>7. CASE RewriteRoles(r)
  <2>1. account[request[r].target] \in {"absent", "active", "inactive"}
    BY DEF AdminTypeOK, Request
  <2> QED BY <1>5, <1>7, <2>1 DEF RewriteRoles, Steps
<1>8. CASE LogRotationEvent(r)
  BY <1>8, EndType DEF LogRotationEvent, AdminTypeOK
<1> QED BY <1>1, <1>2, <1>3, <1>4, <1>6, <1>7, <1>8 DEF AccountStep

LEMMA ProposalStepType ==
  ASSUME AdminTypeOK, NEW r \in Requests, ProposalStep(r)
  PROVE  AdminTypeOK'
<1>1. ASSUME NEW p \in Proposals, Meet(p) PROVE raced' \in SUBSET Proposals
  BY <1>1 DEF Meet, AdminTypeOK
<1>2. ASSUME NEW p \in Proposals, FindExpired(r, p) PROVE AdminTypeOK'
  <2>1. request' = [request EXCEPT ![r] = [request[r] EXCEPT !.next = "expire", !.for = p]]
    BY <1>2 DEF FindExpired
  <2>2. [request[r] EXCEPT !.next = "expire", !.for = p] \in Request
    BY DEF AdminTypeOK, Request, Steps
  <2>3. request' \in [Requests -> Request]
    BY <2>1, <2>2 DEF AdminTypeOK
  <2> QED BY <1>1, <1>2, <2>3 DEF FindExpired, AdminTypeOK
<1>3. ASSUME NEW p \in Proposals, ExecuteProposal(r, p) PROVE AdminTypeOK'
  <2>1. proposal[p].kind \in Kinds /\ proposal[p].target \in Addresses
    BY DEF AdminTypeOK, Proposal
  <2>2. request' \in [Requests -> Request] /\ overlapped' \in BOOLEAN
    BY <1>3, <2>1, BeginType DEF ExecuteProposal
  <2> QED BY <1>1, <1>3, <2>2 DEF ExecuteProposal, AdminTypeOK
<1>4. ASSUME NEW p \in Proposals, NEW b \in Approvers, ReadForApproval(r, p, b) PROVE AdminTypeOK'
  <2> DEFINE new == [request[r] EXCEPT !.next = "approve", !.for = p,
                                       !.saw = proposal[p].approvals, !.approver = b]
  <2>1. request' = [request EXCEPT ![r] = new]
    BY <1>4 DEF ReadForApproval
  <2>2. proposal[p].approvals \in SUBSET Approvers
    BY DEF AdminTypeOK, Proposal
  <2>3. new \in Request
    BY <2>2 DEF AdminTypeOK, Request, Steps
  <2> HIDE DEF new
  <2>4. request' \in [Requests -> Request]
    BY <2>1, <2>3 DEF AdminTypeOK
  <2> QED BY <1>1, <1>4, <2>4 DEF ReadForApproval, AdminTypeOK
<1>5. ASSUME NEW p \in Proposals \cup {None}, NEW new \in Proposal,
             proposal' = [proposal EXCEPT ![p] = new]
      PROVE  proposal' \in [Proposals -> Proposal]
  BY <1>5 DEF AdminTypeOK
<1>6. request[r].for \in Proposals \cup {None}
  BY DEF AdminTypeOK, Request
<1>7. CASE ExpireProposal(r)
  <2>1. request' \in [Requests -> Request]
    BY <1>7, EndType DEF ExpireProposal
  <2>2. proposal' \in [Proposals -> Proposal]
    BY <1>7 DEF ExpireProposal, AdminTypeOK, Proposal, Statuses
  <2> QED BY <1>7, <2>1, <2>2 DEF ExpireProposal, AdminTypeOK
<1>8. CASE WriteApproval(r)
  <2> DEFINE newApprovals == request[r].saw \cup {request[r].approver}
  <2>1. newApprovals \in SUBSET Approvers
    BY DEF AdminTypeOK, Request
  <2>2. request' \in [Requests -> Request]
    BY <1>8, EndType DEF WriteApproval
  <2>3. proposal' \in [Proposals -> Proposal]
    <3> DEFINE status == IF Cardinality(newApprovals) >= RequiredApprovals THEN "approved" ELSE "pending"
    <3>1. proposal' = [proposal EXCEPT ![request[r].for].approvals = newApprovals,
                                       ![request[r].for].status = status]
      BY <1>8 DEF WriteApproval
    <3>2. status \in Statuses
      BY DEF Statuses
    <3> HIDE DEF status, newApprovals
    <3>3. CASE request[r].for = None
      <4>1. proposal' = proposal
        BY <3>1, <3>3, AdminAssumption DEF AdminTypeOK
      <4> QED BY <4>1 DEF AdminTypeOK
    <3>4. CASE request[r].for \in Proposals
      <4> DEFINE new == [proposal[request[r].for] EXCEPT !.approvals = newApprovals,
                                                         !.status = status]
      <4>1. new \in Proposal
        BY <2>1, <3>2, <3>4, ProposalType
      <4>2. proposal' = [proposal EXCEPT ![request[r].for] = new]
        BY <3>1
      <4> HIDE DEF new
      <4> QED BY <4>1, <4>2 DEF AdminTypeOK
    <3> QED BY <1>6, <3>3, <3>4
  <2>4. consent' \in [Proposals -> SUBSET Approvers]
    BY <1>8, <2>1 DEF WriteApproval, AdminTypeOK
  <2> QED BY <1>8, <2>2, <2>3, <2>4 DEF WriteApproval, AdminTypeOK
<1>9. CASE MarkExecuted(r)
  <2>1. request' \in [Requests -> Request]
    BY <1>9, EndType DEF MarkExecuted
  <2>2. proposal' \in [Proposals -> Proposal]
    BY <1>9 DEF MarkExecuted, AdminTypeOK, Proposal, Statuses
  <2> QED BY <1>9, <2>1, <2>2 DEF MarkExecuted, AdminTypeOK
<1> QED BY <1>2, <1>3, <1>4, <1>7, <1>8, <1>9 DEF ProposalStep

LEMMA OtherStepType ==
  ASSUME AdminTypeOK
  PROVE  /\ \A p \in Proposals, kind \in Kinds, a \in Addresses, b \in Approvers :
              CreateProposal(p, kind, a, b) => AdminTypeOK'
         /\ \A p \in Proposals : RejectProposal(p) \/ TimePasses(p) => AdminTypeOK'
         /\ ProcessDies => AdminTypeOK'
<1>1. ASSUME NEW p \in Proposals, NEW kind \in Kinds, NEW a \in Addresses, NEW b \in Approvers,
             CreateProposal(p, kind, a, b)
      PROVE  AdminTypeOK'
  <2> DEFINE new == [status |-> "pending", kind |-> kind, target |-> a, approvals |-> {b},
                     past |-> FALSE]
  <2>1. new \in Proposal
    BY DEF Proposal, Statuses
  <2>2. proposal' = [proposal EXCEPT ![p] = new] /\ consent' = [consent EXCEPT ![p] = {b}]
    BY <1>1 DEF CreateProposal
  <2> HIDE DEF new
  <2>3. proposal' \in [Proposals -> Proposal] /\ consent' \in [Proposals -> SUBSET Approvers]
    BY <2>1, <2>2 DEF AdminTypeOK
  <2> QED BY <1>1, <2>3 DEF CreateProposal, AdminTypeOK
<1>2. ASSUME NEW p \in Proposals, RejectProposal(p) PROVE AdminTypeOK'
  BY <1>2 DEF RejectProposal, AdminTypeOK, Proposal, Statuses
<1>3. ASSUME NEW p \in Proposals, TimePasses(p) PROVE AdminTypeOK'
  BY <1>3 DEF TimePasses, AdminTypeOK, Proposal
<1>4. ASSUME ProcessDies PROVE AdminTypeOK'
  <2>1. request' \in [Requests -> Request]
    BY <1>4, NoRequestType DEF ProcessDies
  <2>2. raced' \in SUBSET Proposals
    BY <1>4 DEF ProcessDies, Changed, AdminTypeOK, Request
  <2>3. deaths' \in 0 .. MaxDeaths
    BY <1>4, AdminAssumption DEF ProcessDies, AdminTypeOK
  <2> QED BY <1>4, <2>1, <2>2, <2>3 DEF ProcessDies, AdminTypeOK
<1> QED BY <1>1, <1>2, <1>3, <1>4

LEMMA AdminTypeStep == AdminTypeOK /\ [AdminNext]_adminVars => AdminTypeOK'
<1>1. ASSUME AdminTypeOK, UNCHANGED adminVars PROVE AdminTypeOK'
  BY <1>1 DEF AdminTypeOK, adminVars
<1> QED BY <1>1, AccountStepType, ProposalStepType, OtherStepType DEF AdminNext

\* Accounts, proposals, requests and what is recorded about them keep their types.
THEOREM AdminTypeCorrect == AdminSpec => []AdminTypeOK
<1> QED BY AdminTypeInit, AdminTypeStep, PTL DEF AdminSpec

-----------------------------------------------------------------------------
(* Nothing is executed without a quorum *)

Quorum(p) == Cardinality(consent[p]) >= RequiredApprovals

Executing == {"insert", "find", "deactivate", "rewrite", "activate", "log"}

Earned == \A p \in Proposals :
  (proposal[p].status \in {"approved", "executed"} \/ applied[p] > 0) => Quorum(p)

IdleHasNone == \A r \in Requests : request[r].next = "none" => request[r].for = None

\* A request that executes a proposal was let in by a quorum.
Backed == \A r \in Requests :
  request[r].next \in Executing /\ request[r].for # None => Quorum(request[r].for)

\* A proposal that is not there yet is nobody's and has changed nothing.
AbsentUntouched == \A p \in Proposals :
  proposal[p].status = "absent" => applied[p] = 0 /\ \A r \in Requests : request[r].for # p

QuorumInv == AdminTypeOK /\ Earned /\ IdleHasNone /\ Backed /\ AbsentUntouched

LEMMA QuorumInit == AdminInit => QuorumInv
<1> SUFFICES ASSUME AdminInit PROVE QuorumInv
  OBVIOUS
<1>1. AdminTypeOK
  BY AdminTypeInit
<1>2. \A r \in Requests : request[r].next = "none" /\ request[r].for = None
  BY NoRequestType DEF AdminInit
<1>3. \A p \in Proposals : proposal[p].status = "absent" /\ applied[p] = 0
  BY DEF AdminInit
<1>4. Earned
  BY <1>3 DEF Earned
<1>5. AbsentUntouched
  BY <1>2, <1>3, AdminAssumption DEF AbsentUntouched
<1> QED BY <1>1, <1>2, <1>4, <1>5 DEF QuorumInv, IdleHasNone, Backed, Executing

\* A step that begins no execution and changes neither proposals nor consents.
LEMMA RequestsMove ==
  ASSUME QuorumInv, AdminTypeOK', UNCHANGED <<proposal, consent>>,
         NEW r \in Requests,
         \A q \in Requests \ {r} : request'[q] = request[q],
         request'[r].next = "none" => request'[r].for = None,
         request'[r].for # None => request'[r].for = request[r].for,
         (request'[r].next \in Executing /\ request'[r].for # None) => request[r].next \in Executing,
         \A p \in Proposals : 
           \/ applied'[p] = applied[p]
           \/ p = request[r].for /\ request[r].next \in Executing
  PROVE  QuorumInv'
<1>1. \A p : Quorum(p)' <=> Quorum(p)
  BY DEF Quorum
<1>2. Backed'
  BY <1>1, AdminAssumption DEF QuorumInv, Backed
<1>3. \A p \in Proposals : applied'[p] = applied[p] \/ Quorum(p)
  BY AdminAssumption DEF QuorumInv, Backed
<1>4. Earned'
  BY <1>1, <1>3 DEF QuorumInv, Earned
<1>5. IdleHasNone'
  BY DEF QuorumInv, IdleHasNone
<1>6. \A p \in Proposals : proposal[p].status = "absent" => applied'[p] = 0
  BY DEF QuorumInv, AbsentUntouched
<1>7. AbsentUntouched'
  BY <1>6, AdminAssumption DEF QuorumInv, AbsentUntouched
<1> QED BY <1>2, <1>4, <1>5, <1>7 DEF QuorumInv

LEMMA AccountStepQuorum ==
  ASSUME QuorumInv, NEW r \in Requests, AccountStep(r)
  PROVE  QuorumInv'
<1>1. AdminTypeOK /\ AdminTypeOK'
  BY AccountStepType DEF QuorumInv
<1>2. UNCHANGED <<proposal, consent>>
  BY DEF AccountStep, DirectRequest, ActivateAdmin, FindAdmin, InsertAdmin, Deactivate,
         Reactivate, RewriteRoles, UpdateAdmin, LogRotationEvent
<1>3. ASSUME NEW kind \in Kinds, NEW a \in Addresses, DirectRequest(r, kind, a) PROVE QuorumInv'
  <2>1. /\ request'[r].for = None
        /\ \A q \in Requests \ {r} : request'[q] = request[q]
    BY <1>1, <1>3, BeginType DEF DirectRequest
  <2>2. /\ request'[r].next = "none" => request'[r].for = None
        /\ request'[r].for # None => request'[r].for = request[r].for
        /\ (request'[r].next \in Executing /\ request'[r].for # None) => request[r].next \in Executing
    BY <2>1
  <2>3. \A p \in Proposals : applied'[p] = applied[p]
    BY <1>3 DEF DirectRequest
  <2> QED BY <1>1, <1>2, <2>1, <2>2, <2>3, RequestsMove
<1>4. ASSUME NEW a \in Addresses, ActivateAdmin(r, a) PROVE QuorumInv'
  <2>1. /\ request'[r].for = None
        /\ \A q \in Requests \ {r} : request'[q] = request[q]
    BY <1>1, <1>4 DEF ActivateAdmin, QuorumInv, IdleHasNone, AdminTypeOK, Request
  <2>2. /\ request'[r].next = "none" => request'[r].for = None
        /\ request'[r].for # None => request'[r].for = request[r].for
        /\ (request'[r].next \in Executing /\ request'[r].for # None) => request[r].next \in Executing
    BY <2>1
  <2>3. \A p \in Proposals : applied'[p] = applied[p]
    BY <1>4 DEF ActivateAdmin
  <2> QED BY <1>1, <1>2, <2>1, <2>2, <2>3, RequestsMove
<1>5. ASSUME NEW step \in Steps \ {"none"}, Continue(r, step) \/ End(r), request[r].next \in Executing,
             applied' = applied \/ \E status \in {"absent", "active", "inactive"} : Change(r, status)
      PROVE  QuorumInv'
  <2>1. \A q \in Requests \ {r} : request'[q] = request[q]
    BY <1>1, <1>5 DEF Continue, End, AdminTypeOK
  <2>2. /\ request'[r].next = "none" => request'[r].for = None
        /\ request'[r].for # None => request'[r].for = request[r].for
    BY <1>1, <1>5, ContinueType, EndType
  <2>3. \A p \in Proposals : applied'[p] = applied[p] \/ p = request[r].for
    BY <1>1, <1>5, ChangeType
  <2> QED BY <1>1, <1>2, <1>5, <2>1, <2>2, <2>3, RequestsMove
<1>6. CASE FindAdmin(r)
  BY <1>5, <1>6 DEF FindAdmin, Reads, Steps, Executing
<1>7. CASE InsertAdmin(r)
  BY <1>5, <1>7 DEF InsertAdmin, Reads, Steps, Executing
<1>8. CASE Deactivate(r)
  BY <1>5, <1>8 DEF Deactivate, UpdateAdmin, Steps, Executing
<1>9. CASE Reactivate(r)
  BY <1>5, <1>9 DEF Reactivate, UpdateAdmin, Steps, Executing
<1>10. CASE RewriteRoles(r)
  <2>1. account[request[r].target] \in {"absent", "active", "inactive"}
    BY <1>1 DEF AdminTypeOK, Request
  <2> QED BY <1>5, <1>10, <2>1 DEF RewriteRoles, UpdateAdmin, Steps, Executing
<1>11. CASE LogRotationEvent(r)
  BY <1>5, <1>11 DEF LogRotationEvent, Steps, Executing
<1> QED BY <1>3, <1>4, <1>6, <1>7, <1>8, <1>9, <1>10, <1>11 DEF AccountStep

\* A request takes up a proposal that is there.
LEMMA TakeUpQuorum ==
  ASSUME QuorumInv, AdminTypeOK', UNCHANGED <<proposal, consent, applied>>,
         NEW r \in Requests, NEW p \in Proposals,
         \A q \in Requests \ {r} : request'[q] = request[q],
         request'[r].for = p, request'[r].next # "none", proposal[p].status # "absent",
         request'[r].next \in Executing => proposal[p].status = "approved"
  PROVE  QuorumInv'
<1>1. \A s \in Proposals : Quorum(s)' <=> Quorum(s)
  BY DEF Quorum
<1>2. request'[r].next \in Executing => Quorum(p)
  BY DEF QuorumInv, Earned
<1>3. \A q \in Requests : request'[q].next \in Executing /\ request'[q].for # None
         => Quorum(request'[q].for) /\ request'[q].for \in Proposals
  BY <1>2 DEF QuorumInv, AdminTypeOK, Request, Backed
<1>4. Backed'
  BY <1>1, <1>3 DEF Backed
<1>5. Earned'
  BY <1>1 DEF QuorumInv, Earned
<1>6. IdleHasNone'
  BY DEF QuorumInv, IdleHasNone
<1>7. AbsentUntouched'
  BY DEF QuorumInv, AbsentUntouched
<1> QED BY <1>4, <1>5, <1>6, <1>7 DEF QuorumInv

\* A step that begins no execution, changes no account, and leaves only approved
\* what has its quorum.
LEMMA MarkQuorum ==
  ASSUME QuorumInv, AdminTypeOK', UNCHANGED applied,
         \A q \in Requests : request'[q] = request[q]
           \/ (request'[q].next = "none" /\ request'[q].for = None),
         \A p \in Proposals : Quorum(p) => Quorum(p)',
         \A p \in Proposals : proposal'[p].status \in {"approved", "executed"} => Quorum(p)',
         \A p \in Proposals : proposal'[p].status = "absent" => proposal[p].status = "absent"
  PROVE  QuorumInv'
<1>1. \A q \in Requests : request'[q].next \in Executing /\ request'[q].for # None
         => /\ request'[q].for = request[q].for /\ Quorum(request[q].for)
            /\ request[q].for \in Proposals
  BY DEF QuorumInv, AdminTypeOK, Request, Backed
<1>2. Backed'
  BY <1>1 DEF Backed
<1>3. Earned'
  BY DEF QuorumInv, Earned
<1>4. IdleHasNone'
  BY DEF QuorumInv, IdleHasNone
<1>5. AbsentUntouched'
  BY AdminAssumption DEF QuorumInv, AbsentUntouched
<1> QED BY <1>2, <1>3, <1>4, <1>5 DEF QuorumInv

\* Consents only grow, so a quorum stays one.
LEMMA QuorumGrows ==
  ASSUME AdminTypeOK, AdminTypeOK', NEW p \in Proposals, consent[p] \subseteq consent'[p], Quorum(p)
  PROVE  Quorum(p)'
<1>1. IsFiniteSet(consent[p]) /\ IsFiniteSet(consent'[p])
  BY AdminAssumption, FS_Subset DEF AdminTypeOK
<1>2. Cardinality(consent[p]) <= Cardinality(consent'[p])
  BY <1>1, FS_Subset
<1>3. Cardinality(consent[p]) \in Nat /\ Cardinality(consent'[p]) \in Nat
  BY <1>1, FS_CardinalityType
<1> QED BY <1>2, <1>3, AdminAssumption DEF Quorum

LEMMA ProposalStepQuorum ==
  ASSUME QuorumInv, NEW r \in Requests, ProposalStep(r)
  PROVE  QuorumInv'
<1>1. AdminTypeOK /\ AdminTypeOK'
  BY ProposalStepType DEF QuorumInv
<1>2. ASSUME NEW p \in Proposals, FindExpired(r, p) PROVE QuorumInv'
  <2>1. /\ request'[r].for = p /\ request'[r].next = "expire"
        /\ \A q \in Requests \ {r} : request'[q] = request[q]
    BY <1>1, <1>2 DEF FindExpired, AdminTypeOK, Request
  <2>2. UNCHANGED <<proposal, consent, applied>> /\ proposal[p].status # "absent"
    BY <1>2 DEF FindExpired
  <2> QED BY <1>1, <2>1, <2>2, TakeUpQuorum DEF Executing
<1>3. ASSUME NEW p \in Proposals, NEW b \in Approvers, ReadForApproval(r, p, b) PROVE QuorumInv'
  <2>1. /\ request'[r].for = p /\ request'[r].next = "approve"
        /\ \A q \in Requests \ {r} : request'[q] = request[q]
    BY <1>1, <1>3 DEF ReadForApproval, AdminTypeOK, Request
  <2>2. UNCHANGED <<proposal, consent, applied>> /\ proposal[p].status # "absent"
    BY <1>3 DEF ReadForApproval
  <2> QED BY <1>1, <2>1, <2>2, TakeUpQuorum DEF Executing
<1>4. ASSUME NEW p \in Proposals, ExecuteProposal(r, p) PROVE QuorumInv'
  <2>1. proposal[p].kind \in Kinds /\ proposal[p].target \in Addresses
    BY <1>1 DEF AdminTypeOK, Proposal
  <2>2. /\ request'[r].for = p /\ request'[r].next # "none"
        /\ \A q \in Requests \ {r} : request'[q] = request[q]
    BY <1>1, <1>4, <2>1, BeginType DEF ExecuteProposal
  <2>3. UNCHANGED <<proposal, consent, applied>> /\ proposal[p].status = "approved"
    BY <1>4 DEF ExecuteProposal
  <2> QED BY <1>1, <2>2, <2>3, TakeUpQuorum
<1>5. End(r) => \A q \in Requests : request'[q] = request[q]
                  \/ (request'[q].next = "none" /\ request'[q].for = None)
  BY <1>1, EndType
<1>6. CASE ExpireProposal(r)
  <2>1. \A p \in Proposals : proposal'[p].status = proposal[p].status \/ proposal'[p].status = "expired"
    BY <1>1, <1>6 DEF ExpireProposal, AdminTypeOK, Proposal
  <2>2. \A p \in Proposals : Quorum(p) <=> Quorum(p)'
    BY <1>6 DEF ExpireProposal, Quorum
  <2>3. End(r) /\ UNCHANGED applied
    BY <1>6 DEF ExpireProposal
  <2> QED BY <1>1, <1>5, <2>1, <2>2, <2>3, MarkQuorum DEF QuorumInv, Earned
<1>7. CASE WriteApproval(r)
  <2> DEFINE newApprovals == request[r].saw \cup {request[r].approver}
             granted == Cardinality(newApprovals) >= RequiredApprovals
  <2>1. newApprovals \in SUBSET Approvers
    BY <1>1 DEF AdminTypeOK, Request
  <2>2. /\ proposal' = [proposal EXCEPT ![request[r].for].approvals = newApprovals,
                          ![request[r].for].status = IF granted THEN "approved" ELSE "pending"]
        /\ consent' = [consent EXCEPT ![request[r].for] = consent[request[r].for] \cup newApprovals]
        /\ End(r) /\ UNCHANGED applied
    BY <1>7 DEF WriteApproval
  <2>3. \A p \in Proposals : granted /\ p = request[r].for => Quorum(p)'
    <3> SUFFICES ASSUME NEW p \in Proposals, granted, p = request[r].for PROVE Quorum(p)'
      OBVIOUS
    <3>1. newApprovals \subseteq consent'[p] /\ IsFiniteSet(consent'[p])
      BY <1>1, <2>2, AdminAssumption, FS_Subset DEF AdminTypeOK
    <3>2. /\ IsFiniteSet(newApprovals)
          /\ Cardinality(newApprovals) <= Cardinality(consent'[p])
      BY <3>1, FS_Subset
    <3>3. Cardinality(newApprovals) \in Nat /\ Cardinality(consent'[p]) \in Nat
      BY <3>1, <3>2, FS_CardinalityType
    <3> QED BY <3>2, <3>3, AdminAssumption DEF Quorum
  <2> HIDE DEF newApprovals, granted
  <2>4. \A p \in Proposals :
          \/ proposal'[p].status = proposal[p].status
          \/ proposal'[p].status = "pending"
          \/ granted /\ p = request[r].for
    BY <1>1, <2>2 DEF AdminTypeOK, Proposal
  <2>5. \A p \in Proposals : consent[p] \subseteq consent'[p]
    BY <1>1, <2>2 DEF AdminTypeOK
  <2>6. \A p \in Proposals : Quorum(p) => Quorum(p)'
    BY <1>1, <2>5, QuorumGrows
  <2>7. \A p \in Proposals :
          /\ proposal'[p].status \in {"approved", "executed"} => Quorum(p)'
          /\ proposal'[p].status = "absent" => proposal[p].status = "absent"
    <3> TAKE p \in Proposals
    <3>1. CASE proposal'[p].status = proposal[p].status
      BY <2>6, <3>1 DEF QuorumInv, Earned
    <3>2. CASE proposal'[p].status = "pending"
      BY <3>2
    <3>3. CASE granted /\ p = request[r].for
      <4>1. proposal'[p].status # "absent"
        BY <1>1, <2>2, <3>3 DEF AdminTypeOK, Proposal
      <4> QED BY <2>3, <3>3, <4>1
    <3> QED BY <2>4, <3>1, <3>2, <3>3
  <2> QED BY <1>1, <1>5, <2>2, <2>6, <2>7, MarkQuorum
<1>8. CASE MarkExecuted(r)
  <2>1. request[r].for \in Proposals /\ Quorum(request[r].for)
    BY <1>1, <1>8 DEF MarkExecuted, QuorumInv, Backed, Executing, AdminTypeOK, Request
  <2>2. \A p \in Proposals : \/ proposal'[p].status = proposal[p].status
                             \/ proposal'[p].status = "executed" /\ p = request[r].for
    BY <1>1, <1>8 DEF MarkExecuted, AdminTypeOK, Proposal
  <2>3. \A p \in Proposals : Quorum(p) <=> Quorum(p)'
    BY <1>8 DEF MarkExecuted, Quorum
  <2>4. End(r) /\ UNCHANGED applied
    BY <1>8 DEF MarkExecuted
  <2> QED BY <1>1, <1>5, <2>1, <2>2, <2>3, <2>4, MarkQuorum DEF QuorumInv, Earned
<1> QED BY <1>2, <1>3, <1>4, <1>6, <1>7, <1>8 DEF ProposalStep

LEMMA OtherStepQuorum ==
  ASSUME QuorumInv
  PROVE  /\ \A p \in Proposals, kind \in Kinds, a \in Addresses, b \in Approvers :
              CreateProposal(p, kind, a, b) => QuorumInv'
         /\ \A p \in Proposals : RejectProposal(p) \/ TimePasses(p) => QuorumInv'
         /\ ProcessDies => QuorumInv'
<1>1. AdminTypeOK
  BY DEF QuorumInv
<1>2. ASSUME NEW p \in Proposals, NEW kind \in Kinds, NEW a \in Addresses, NEW b \in Approvers,
             CreateProposal(p, kind, a, b)
      PROVE  QuorumInv'
  <2>1. AdminTypeOK'
    BY <1>1, <1>2, OtherStepType
  <2>2. applied[p] = 0 /\ \A r \in Requests : request[r].for # p
    BY <1>2 DEF CreateProposal, QuorumInv, AbsentUntouched
  <2>3. UNCHANGED <<request, applied>> /\ proposal'[p].status = "pending"
    BY <1>1, <1>2 DEF CreateProposal, AdminTypeOK
  <2>4. \A q \in Proposals \ {p} : proposal'[q] = proposal[q] /\ consent'[q] = consent[q]
    BY <1>1, <1>2 DEF CreateProposal, AdminTypeOK
  <2>5. \A q \in Proposals \ {p} : Quorum(q)' <=> Quorum(q)
    BY <2>4 DEF Quorum
  <2>6. Earned'
    <3> SUFFICES ASSUME NEW q \in Proposals,
                        (proposal'[q].status \in {"approved", "executed"} \/ applied'[q] > 0)
                 PROVE  Quorum(q)'
      BY DEF Earned
    <3> QED BY <2>2, <2>3, <2>4, <2>5 DEF QuorumInv, Earned
  <2>7. Backed'
    <3> SUFFICES ASSUME NEW r \in Requests, request[r].next \in Executing, request[r].for # None
                 PROVE  Quorum(request[r].for)'
      BY <2>3 DEF Backed
    <3>1. request[r].for \in Proposals \ {p}
      BY <1>1, <2>2 DEF AdminTypeOK, Request
    <3>2. Quorum(request[r].for)
      BY DEF QuorumInv, Backed
    <3>3. PICK q \in Proposals \ {p} : q = request[r].for
      BY <3>1
    <3> QED BY <2>3, <2>5, <3>2, <3>3
  <2>8. IdleHasNone' /\ AbsentUntouched'
    BY <2>3, <2>4 DEF QuorumInv, IdleHasNone, AbsentUntouched
  <2> QED BY <2>1, <2>6, <2>7, <2>8 DEF QuorumInv
<1>3. ASSUME NEW p \in Proposals, RejectProposal(p) \/ TimePasses(p) PROVE QuorumInv'
  <2>1. AdminTypeOK'
    BY <1>1, <1>3, OtherStepType
  <2>2. \A q \in Proposals : proposal'[q].status = proposal[q].status \/ proposal'[q].status = "rejected"
    BY <1>1, <1>3 DEF RejectProposal, TimePasses, AdminTypeOK, Proposal
  <2>3. UNCHANGED <<request, applied, consent>>
    BY <1>3 DEF RejectProposal, TimePasses
  <2>4. \A q \in Proposals : Quorum(q) <=> Quorum(q)'
    BY <2>3 DEF Quorum
  <2> QED BY <2>1, <2>2, <2>3, <2>4, MarkQuorum DEF QuorumInv, Earned
<1>4. ASSUME ProcessDies PROVE QuorumInv'
  <2>1. AdminTypeOK'
    BY <1>1, <1>4, OtherStepType
  <2>2. \A q \in Requests : request'[q].next = "none" /\ request'[q].for = None
    BY <1>4, NoRequestType DEF ProcessDies
  <2>3. UNCHANGED <<proposal, applied, consent>>
    BY <1>4 DEF ProcessDies
  <2>4. \A q \in Proposals : Quorum(q) <=> Quorum(q)'
    BY <2>3 DEF Quorum
  <2> QED BY <2>1, <2>2, <2>3, <2>4, MarkQuorum DEF QuorumInv, Earned
<1> QED BY <1>2, <1>3, <1>4

LEMMA QuorumStep == QuorumInv /\ [AdminNext]_adminVars => QuorumInv'
<1>1. ASSUME QuorumInv, UNCHANGED adminVars PROVE QuorumInv'
  <2>1. AdminTypeOK'
    BY <1>1, AdminTypeStep DEF QuorumInv
  <2>2. \A q \in Proposals : Quorum(q) <=> Quorum(q)'
    BY <1>1 DEF adminVars, Quorum
  <2> QED BY <1>1, <2>1, <2>2, MarkQuorum DEF adminVars, QuorumInv, Earned
<1> QED BY <1>1, AccountStepQuorum, ProposalStepQuorum, OtherStepQuorum DEF AdminNext

\* Whatever approvals overwrite each other, and whenever the process dies, what
\* is approved, executed or has changed an account had its quorum of approvers
\* (approveProposal, executeProposal).
THEOREM AdminExecutionHasQuorum == AdminSpec => []ExecutionHasQuorum
<1>1. QuorumInv => ExecutionHasQuorum
  BY DEF QuorumInv, Earned, ExecutionHasQuorum, Quorum
<1> QED BY <1>1, QuorumInit, QuorumStep, PTL DEF AdminSpec

-----------------------------------------------------------------------------
(* The minimum of administrators *)

\* As long as no two removals have overlapped, the one under way has counted an
\* administrator more than the minimum, and only a removal lowers the count.
OneRemoval == ~overlapped =>
  /\ \A q, r \in Removing : q = r
  /\ Removing # {} => Cardinality(Active) > MinimumAdminCount

MinimumInv == AdminTypeOK /\ MinimumKept /\ OneRemoval

LEMMA ActiveFinite == IsFiniteSet(Active) /\ Cardinality(Active) \in Nat
<1>1. Active \subseteq Addresses
  BY DEF Active
<1> QED BY <1>1, AdminAssumption, FS_Subset, FS_CardinalityType

LEMMA MinimumInit == AdminInit => MinimumInv
<1> SUFFICES ASSUME AdminInit PROVE MinimumInv
  OBVIOUS
<1>1. Active = Founders
  BY AdminAssumption DEF AdminInit, Active
<1>2. Removing = {}
  BY NoRequestType DEF AdminInit, Removing
<1> QED BY <1>1, <1>2, AdminTypeInit, AdminAssumption DEF MinimumInv, MinimumKept, OneRemoval

\* A step that removes nobody and begins no removal.
LEMMA MinimumStays ==
  ASSUME MinimumInv, AdminTypeOK', Active \subseteq Active', Removing' \subseteq Removing,
         overlapped' = overlapped
  PROVE  MinimumInv'
<1>1. Active' \subseteq Addresses
  BY DEF Active
<1>2. IsFiniteSet(Active') /\ Cardinality(Active') \in Nat
  BY <1>1, AdminAssumption, FS_Subset, FS_CardinalityType
<1>3. Cardinality(Active) <= Cardinality(Active') /\ Cardinality(Active) \in Nat
  BY <1>2, FS_Subset, ActiveFinite
<1> DEFINE before == Cardinality(Active)
           after == Cardinality(Active')
<1>4. MinimumKept'
  <2>1. overlapped \/ before >= MinimumAdminCount
    BY DEF MinimumInv, MinimumKept
  <2>2. before >= MinimumAdminCount => after >= MinimumAdminCount
    BY <1>2, <1>3, AdminAssumption
  <2> QED BY <2>1, <2>2 DEF MinimumKept
<1>5. OneRemoval'
  <2>1. before > MinimumAdminCount => after > MinimumAdminCount
    BY <1>2, <1>3, AdminAssumption
  <2> QED BY <2>1 DEF MinimumInv, OneRemoval
<1> QED BY <1>4, <1>5 DEF MinimumInv

\* A removal or another request enters.
LEMMA MinimumBegin ==
  ASSUME MinimumInv, AdminTypeOK', NEW r \in Requests, NEW kind \in Kinds, NEW a \in Addresses,
         NEW p \in Proposals \cup {None}, Begin(r, kind, a, p), UNCHANGED account
  PROVE  MinimumInv'
<1>1. /\ request[r].next = "none"
      /\ request'[r].next = FirstStep(kind) /\ FirstStep(kind) \in {"insert", "find", "rewrite"}
      /\ FirstStep(kind) = "find" => kind = "remove_admin"
      /\ \A q \in Requests \ {r} : request'[q] = request[q]
  BY BeginType DEF MinimumInv
<1>2. Active' = Active
  BY DEF Active
<1>3. CASE kind = "remove_admin"
  <2>1. overlapped' = (overlapped \/ Removing # {})
    BY <1>3 DEF Begin
  <2>2. Cardinality(Active) > MinimumAdminCount
    BY <1>3 DEF Begin, Enter
  <2>3. Removing' \subseteq Removing \cup {r}
    BY <1>1 DEF Removing
  <2>4. OneRemoval'
    BY <1>2, <2>1, <2>2, <2>3 DEF OneRemoval
  <2>5. MinimumKept'
    BY <1>2, <2>1 DEF MinimumInv, MinimumKept
  <2> QED BY <2>4, <2>5 DEF MinimumInv
<1>4. CASE kind # "remove_admin"
  <2>1. Removing' \subseteq Removing
    BY <1>1, <1>4 DEF Removing
  <2>2. overlapped' = overlapped
    BY <1>4 DEF Begin, MinimumInv, AdminTypeOK
  <2> QED BY <1>2, <2>1, <2>2, MinimumStays
<1> QED BY <1>3, <1>4

\* Any other step of a request takes it to a statement that removes nobody, or
\* from the search to the update.
LEMMA DeactivateKeeps ==
  ASSUME MinimumInv, AdminTypeOK', NEW r \in Requests, Deactivate(r)
  PROVE  MinimumInv'
<1>1. /\ Continue(r, "log") /\ request[r].next = "deactivate" /\ overlapped' = overlapped
      /\ account' = [account EXCEPT ![request[r].target] = "inactive"]
  BY DEF Deactivate, UpdateAdmin, Change
<1>2. Removing' = Removing \ {r} /\ r \in Removing
  BY <1>1, ContinueType DEF Removing, MinimumInv, Steps
<1>3. CASE overlapped
  BY <1>1, <1>3 DEF MinimumInv, MinimumKept, OneRemoval
<1>4. CASE ~overlapped
  <2>1. Cardinality(Active) > MinimumAdminCount /\ Removing' = {}
    BY <1>2, <1>4 DEF MinimumInv, OneRemoval
  <2>2. Active' = Active \ {request[r].target}
    BY <1>1 DEF Active, MinimumInv, AdminTypeOK
  <2>3. Cardinality(Active') >= Cardinality(Active) - 1
    <3>1. \A a : Cardinality(Active \ {a}) \in {Cardinality(Active), Cardinality(Active) - 1}
      BY FS_RemoveElement, ActiveFinite
    <3>2. Cardinality(Active') \in {Cardinality(Active), Cardinality(Active) - 1}
      BY <2>2, <3>1
    <3> QED BY <3>2, ActiveFinite
  <2>4. IsFiniteSet(Active') /\ Cardinality(Active') \in Nat
    BY <2>2, ActiveFinite, FS_Subset, FS_CardinalityType
  <2>5. Cardinality(Active') >= MinimumAdminCount
    BY <2>1, <2>3, <2>4, ActiveFinite, AdminAssumption
  <2> QED BY <1>4, <2>1, <2>5 DEF MinimumInv, MinimumKept, OneRemoval
<1> QED BY <1>3, <1>4

LEMMA MinimumStep == MinimumInv /\ [AdminNext]_adminVars => MinimumInv'
<1> SUFFICES ASSUME MinimumInv, [AdminNext]_adminVars PROVE MinimumInv'
  OBVIOUS
<1>1. AdminTypeOK /\ AdminTypeOK'
  BY AdminTypeStep DEF MinimumInv
<1>2. CASE UNCHANGED adminVars
  BY <1>1, <1>2, MinimumStays DEF adminVars, Active, Removing
<1>3. ASSUME NEW r \in Requests, AccountStep(r) PROVE MinimumInv'
  <2>1. ASSUME NEW kind \in Kinds, NEW a \in Addresses, DirectRequest(r, kind, a) PROVE MinimumInv'
    BY <1>1, <2>1, MinimumBegin DEF DirectRequest
  <2>2. ASSUME NEW step \in Steps, step \notin {"find", "deactivate"} \/ r \in Removing,
               Continue(r, step) \/ End(r)
        PROVE  Removing' \subseteq Removing
    BY <1>1, <2>2, ContinueType, EndType DEF Removing
  <2>3. ASSUME NEW a \in Addresses, ActivateAdmin(r, a) PROVE MinimumInv'
    <3>1. Removing' \subseteq Removing
      BY <1>1, <2>3 DEF ActivateAdmin, Removing, AdminTypeOK, Request
    <3> QED BY <1>1, <2>3, <3>1, MinimumStays DEF ActivateAdmin, Active
  <2>4. CASE FindAdmin(r)
    <3>1. Removing' \subseteq Removing
      BY <2>2, <2>4 DEF FindAdmin, Reads, Removing, Steps
    <3> QED BY <1>1, <2>4, <3>1, MinimumStays DEF FindAdmin, Active
  <2>5. CASE InsertAdmin(r)
    <3>1. Removing' \subseteq Removing
      BY <2>2, <2>5 DEF InsertAdmin, Reads, Steps
    <3>2. Active \subseteq Active'
      BY <1>1, <2>5 DEF InsertAdmin, Change, Active, AdminTypeOK
    <3> QED BY <1>1, <2>5, <3>1, <3>2, MinimumStays DEF InsertAdmin
  <2>6. CASE Deactivate(r)
    BY <1>1, <2>6, DeactivateKeeps
  <2>7. CASE Reactivate(r) \/ RewriteRoles(r)
    <3>1. Removing' \subseteq Removing
      BY <2>2, <2>7 DEF Reactivate, RewriteRoles, UpdateAdmin, Steps
    <3>2. Active \subseteq Active'
      BY <1>1, <2>7 DEF Reactivate, RewriteRoles, UpdateAdmin, Change, Active, AdminTypeOK
    <3> QED BY <1>1, <2>7, <3>1, <3>2, MinimumStays DEF Reactivate, RewriteRoles, UpdateAdmin
  <2>8. CASE LogRotationEvent(r)
    <3>1. Removing' \subseteq Removing
      BY <2>2, <2>8 DEF LogRotationEvent, Steps
    <3> QED BY <1>1, <2>8, <3>1, MinimumStays DEF LogRotationEvent, Active
  <2> QED BY <1>3, <2>1, <2>3, <2>4, <2>5, <2>6, <2>7, <2>8 DEF AccountStep
<1>4. ASSUME NEW r \in Requests, ProposalStep(r) PROVE MinimumInv'
  <2>1. ASSUME NEW p \in Proposals, ExecuteProposal(r, p) PROVE MinimumInv'
    <3>1. proposal[p].kind \in Kinds /\ proposal[p].target \in Addresses
      BY <1>1 DEF AdminTypeOK, Proposal
    <3> QED BY <1>1, <2>1, <3>1, MinimumBegin DEF ExecuteProposal
  <2>2. ASSUME NEW p \in Proposals, FindExpired(r, p) PROVE MinimumInv'
    <3>1. Removing' \subseteq Removing
      BY <1>1, <2>2 DEF FindExpired, Removing, AdminTypeOK, Request
    <3> QED BY <1>1, <2>2, <3>1, MinimumStays DEF FindExpired, Active
  <2>3. ASSUME NEW p \in Proposals, NEW b \in Approvers, ReadForApproval(r, p, b) PROVE MinimumInv'
    <3>1. Removing' \subseteq Removing
      BY <1>1, <2>3 DEF ReadForApproval, Removing, AdminTypeOK, Request
    <3> QED BY <1>1, <2>3, <3>1, MinimumStays DEF ReadForApproval, Active
  <2>4. CASE ExpireProposal(r) \/ WriteApproval(r) \/ MarkExecuted(r)
    <3>1. End(r) /\ UNCHANGED <<account, overlapped>>
      BY <2>4 DEF ExpireProposal, WriteApproval, MarkExecuted
    <3>2. Removing' \subseteq Removing
      BY <1>1, <3>1, EndType DEF Removing
    <3> QED BY <1>1, <3>1, <3>2, MinimumStays DEF Active
  <2> QED BY <1>4, <2>1, <2>2, <2>3, <2>4 DEF ProposalStep
<1>5. ASSUME NEW p \in Proposals, NEW kind \in Kinds, NEW a \in Addresses, NEW b \in Approvers,
             CreateProposal(p, kind, a, b)
      PROVE  MinimumInv'
  BY <1>1, <1>5, MinimumStays DEF CreateProposal, Active, Removing
<1>6. CASE ProcessDies
  <2>1. Removing' = {}
    BY <1>6, NoRequestType DEF ProcessDies, Removing
  <2> QED BY <1>1, <1>6, <2>1, MinimumStays DEF ProcessDies, Active
<1>7. ASSUME NEW p \in Proposals, RejectProposal(p) \/ TimePasses(p) PROVE MinimumInv'
  BY <1>1, <1>7, MinimumStays DEF RejectProposal, TimePasses, Active, Removing
<1> QED BY <1>2, <1>3, <1>4, <1>5, <1>6, <1>7 DEF AdminNext

\* The number of administrators does not fall below the minimum, unless two
\* removals were under way at once (removeAdmin, enforceMinimumAdminCount).
THEOREM AdminMinimumKept == AdminSpec => []MinimumKept
<1>1. MinimumInv => MinimumKept
  BY DEF MinimumInv
<1> QED BY <1>1, MinimumInit, MinimumStep, PTL DEF AdminSpec

-----------------------------------------------------------------------------
(* A proposal is applied once *)

Untouched(p) == \A r \in Requests : request[r].for # p

\* Of a proposal that requests never worked on at once.
Once(p) ==
  /\ \A q, r \in Requests : request[q].for = p /\ request[r].for = p => q = r
  /\ \A r \in Requests : request[r].for = p /\ request[r].next # "log" => applied[p] = 0
  /\ Untouched(p) /\ applied[p] # 0 => proposal[p].status = "executed"
  /\ applied[p] \in {0, 1}

OnlyAsText == ~JsonbAsText => \A r \in Requests : request[r].for = None

OnceInv == AdminTypeOK /\ IdleHasNone /\ OnlyAsText /\ \A p \in Proposals \ raced : Once(p)

LEMMA OnceInit == AdminInit => OnceInv
<1> SUFFICES ASSUME AdminInit PROVE OnceInv
  OBVIOUS
<1>1. \A r \in Requests : request[r].next = "none" /\ request[r].for = None
  BY NoRequestType DEF AdminInit
<1>2. \A p \in Proposals : applied[p] = 0
  BY DEF AdminInit
<1> QED BY <1>1, <1>2, AdminTypeInit, AdminAssumption
       DEF OnceInv, IdleHasNone, OnlyAsText, Once, Untouched

\* A request that has not changed an account yet goes on, changes one, or ends.
LEMMA OnceMoves ==
  ASSUME OnceInv, AdminTypeOK', UNCHANGED raced, NEW r \in Requests,
         \A q \in Requests \ {r} : request'[q] = request[q],
         request'[r].for \in {request[r].for, None},
         request'[r].next = "none" => request'[r].for = None,
         request[r].next # "log" \/ request[r].for = None,
         \A p \in Proposals : p # request[r].for
           => applied'[p] = applied[p] /\ proposal'[p] = proposal[p],
         \/ \A p \in Proposals : p = request[r].for => applied'[p] = applied[p]
         \/ /\ request'[r].for = request[r].for /\ request'[r].next = "log"
            /\ \A p \in Proposals : p = request[r].for /\ applied[p] = 0 => applied'[p] = 1
  PROVE  OnceInv'
<1>1. IdleHasNone' /\ OnlyAsText'
  BY DEF OnceInv, IdleHasNone, OnlyAsText
<1>2. ASSUME NEW p \in Proposals \ raced PROVE Once(p)'
  <2>1. Once(p) /\ p # None
    BY AdminAssumption DEF OnceInv
  <2>2. CASE p # request[r].for
    BY <2>1, <2>2 DEF Once, Untouched
  <2>3. CASE p = request[r].for
    <3>1. applied[p] = 0 /\ \A q \in Requests \ {r} : request'[q].for # p
      BY <2>1, <2>3 DEF Once
    <3>2. CASE applied'[p] = applied[p]
      BY <2>1, <3>1, <3>2 DEF Once, Untouched
    <3>3. CASE /\ request'[r].for = p /\ request'[r].next = "log"
               /\ applied'[p] = 1
      BY <2>1, <3>1, <3>3 DEF Once, Untouched
    <3> QED BY <2>3, <3>1, <3>2, <3>3
  <2> QED BY <2>2, <2>3
<1> QED BY <1>1, <1>2 DEF OnceInv

LEMMA AccountStepOnce ==
  ASSUME OnceInv, NEW r \in Requests, AccountStep(r)
  PROVE  OnceInv'
<1>1. AdminTypeOK /\ AdminTypeOK'
  BY AccountStepType DEF OnceInv
<1>2. UNCHANGED <<proposal, raced>>
  BY DEF AccountStep, DirectRequest, ActivateAdmin, FindAdmin, InsertAdmin, Deactivate,
         Reactivate, RewriteRoles, UpdateAdmin, LogRotationEvent
<1>3. ASSUME NEW kind \in Kinds, NEW a \in Addresses, DirectRequest(r, kind, a) PROVE OnceInv'
  <2>1. /\ request'[r].for = None /\ request[r].next = "none"
        /\ \A q \in Requests \ {r} : request'[q] = request[q]
    BY <1>1, <1>3, BeginType DEF DirectRequest
  <2>2. request[r].for = None /\ applied' = applied
    BY <1>3, <2>1 DEF DirectRequest, OnceInv, IdleHasNone
  <2> QED BY <1>1, <1>2, <2>1, <2>2, OnceMoves
<1>4. ASSUME NEW a \in Addresses, ActivateAdmin(r, a) PROVE OnceInv'
  <2>1. request[r].for = None /\ applied' = applied
    BY <1>4 DEF ActivateAdmin, OnceInv, IdleHasNone
  <2>2. /\ request'[r].for = None
        /\ \A q \in Requests \ {r} : request'[q] = request[q]
    BY <1>1, <1>4, <2>1 DEF ActivateAdmin, AdminTypeOK, Request
  <2> QED BY <1>1, <1>2, <2>1, <2>2, OnceMoves
<1>5. ASSUME NEW step \in Steps \ {"none"}, Continue(r, step) \/ End(r),
             request[r].next # "log" \/ request[r].for = None, applied' = applied
      PROVE  OnceInv'
  <2>1. /\ \A q \in Requests \ {r} : request'[q] = request[q]
        /\ request'[r].for \in {request[r].for, None}
        /\ request'[r].next = "none" => request'[r].for = None
    <3>1. \A q \in Requests \ {r} : request'[q] = request[q]
      BY <1>1, <1>5 DEF Continue, End, AdminTypeOK
    <3> QED BY <1>1, <1>5, <3>1, ContinueType, EndType
  <2> QED BY <1>1, <1>2, <1>5, <2>1, OnceMoves
<1>6. ASSUME NEW status \in {"absent", "active", "inactive"}, Change(r, status),
             request[r].next # "log", Reads(r, "log") \/ Continue(r, "log")
      PROVE  OnceInv'
  <2>1. \A q \in Requests \ {r} : request'[q] = request[q]
    BY <1>1, <1>6 DEF Reads, Continue, End, AdminTypeOK
  <2>2. /\ \A p \in Proposals : p # request[r].for => applied'[p] = applied[p]
        /\ \A p \in Proposals : p = request[r].for /\ applied[p] = 0 => applied'[p] = 1
    BY <1>1, <1>6, ChangeType
  <2>3. CASE Continue(r, "log")
    <3>1. request'[r].for = request[r].for /\ request'[r].next = "log"
      BY <1>1, <2>3, ContinueType DEF Steps
    <3> QED BY <1>1, <1>2, <1>6, <2>1, <2>2, <3>1, OnceMoves
  <2>4. CASE End(r) /\ ~JsonbAsText
    <3>1. request'[r].for = None /\ request[r].for = None
      BY <1>1, <2>4, EndType DEF OnceInv, OnlyAsText
    <3>2. \A p \in Proposals : p # request[r].for
      BY <3>1, AdminAssumption
    <3> QED BY <1>1, <1>2, <1>6, <2>1, <2>2, <3>1, <3>2, OnceMoves
  <2> QED BY <1>6, <2>3, <2>4 DEF Reads
<1>7. CASE FindAdmin(r)
  BY <1>5, <1>7 DEF FindAdmin, Reads, Steps
<1>8. CASE InsertAdmin(r)
  <2>1. CASE Change(r, "active") /\ Reads(r, "log")
    BY <1>6, <1>8, <2>1 DEF InsertAdmin
  <2>2. CASE End(r) /\ applied' = applied
    BY <1>5, <1>8, <2>2 DEF InsertAdmin, Steps
  <2> QED BY <1>8, <2>1, <2>2 DEF InsertAdmin
<1>9. CASE Deactivate(r)
  BY <1>6, <1>9 DEF Deactivate, UpdateAdmin
<1>10. CASE Reactivate(r)
  BY <1>6, <1>10 DEF Reactivate, UpdateAdmin
<1>11. CASE RewriteRoles(r)
  <2>1. account[request[r].target] \in {"absent", "active", "inactive"}
    BY <1>1 DEF AdminTypeOK, Request
  <2> QED BY <1>6, <1>11, <2>1 DEF RewriteRoles, UpdateAdmin
<1>12. CASE LogRotationEvent(r)
  BY <1>5, <1>12 DEF LogRotationEvent, Steps
<1> QED BY <1>3, <1>4, <1>7, <1>8, <1>9, <1>10, <1>11, <1>12 DEF AccountStep

\* A request takes up a proposal that is not executed.
LEMMA TakeUpOnce ==
  ASSUME OnceInv, AdminTypeOK', UNCHANGED <<proposal, applied>>, JsonbAsText,
         NEW r \in Requests, NEW p \in Proposals, Meet(p), request[r].next = "none",
         \A q \in Requests \ {r} : request'[q] = request[q],
         request'[r].for = p, request'[r].next # "none", proposal[p].status # "executed"
  PROVE  OnceInv'
<1>1. IdleHasNone' /\ OnlyAsText'
  BY DEF OnceInv, IdleHasNone, OnlyAsText
<1>2. raced \subseteq raced' /\ (p \notin raced' => Untouched(p))
  BY DEF Meet, Untouched
<1>3. request[r].for = None
  BY DEF OnceInv, IdleHasNone
<1>4. ASSUME NEW s \in Proposals \ raced' PROVE Once(s)'
  <2>1. Once(s) /\ s # None
    BY <1>2, AdminAssumption DEF OnceInv
  <2>2. CASE s # p
    BY <1>3, <2>1, <2>2 DEF Once, Untouched
  <2>3. CASE s = p
    <3>1. Untouched(p) /\ applied[p] = 0
      BY <1>2, <2>1, <2>3 DEF Once
    <3> QED BY <2>3, <3>1 DEF Once, Untouched
  <2> QED BY <2>2, <2>3
<1> QED BY <1>1, <1>4 DEF OnceInv

LEMMA ProposalStepOnce ==
  ASSUME OnceInv, NEW r \in Requests, ProposalStep(r)
  PROVE  OnceInv'
<1>1. AdminTypeOK /\ AdminTypeOK'
  BY ProposalStepType DEF OnceInv
<1>2. ASSUME NEW p \in Proposals, FindExpired(r, p) PROVE OnceInv'
  <2>1. /\ request'[r].for = p /\ request'[r].next = "expire"
        /\ \A q \in Requests \ {r} : request'[q] = request[q]
    BY <1>1, <1>2 DEF FindExpired, AdminTypeOK, Request
  <2> QED BY <1>1, <1>2, <2>1, TakeUpOnce DEF FindExpired
<1>3. ASSUME NEW p \in Proposals, NEW b \in Approvers, ReadForApproval(r, p, b) PROVE OnceInv'
  <2>1. /\ request'[r].for = p /\ request'[r].next = "approve"
        /\ \A q \in Requests \ {r} : request'[q] = request[q]
    BY <1>1, <1>3 DEF ReadForApproval, AdminTypeOK, Request
  <2> QED BY <1>1, <1>3, <2>1, TakeUpOnce DEF ReadForApproval
<1>4. ASSUME NEW p \in Proposals, ExecuteProposal(r, p) PROVE OnceInv'
  <2>1. proposal[p].kind \in Kinds /\ proposal[p].target \in Addresses
    BY <1>1 DEF AdminTypeOK, Proposal
  <2>2. /\ request'[r].for = p /\ request'[r].next # "none" /\ request[r].next = "none"
        /\ \A q \in Requests \ {r} : request'[q] = request[q]
    BY <1>1, <1>4, <2>1, BeginType DEF ExecuteProposal
  <2> QED BY <1>1, <1>4, <2>2, TakeUpOnce DEF ExecuteProposal
<1>5. CASE ExpireProposal(r) \/ WriteApproval(r)
  <2>1. End(r) /\ UNCHANGED <<applied, raced>> /\ request[r].next # "log"
    BY <1>5 DEF ExpireProposal, WriteApproval
  <2>2. \A p \in Proposals : p # request[r].for => proposal'[p] = proposal[p]
    BY <1>1, <1>5 DEF ExpireProposal, WriteApproval, AdminTypeOK
  <2> QED BY <1>1, <2>1, <2>2, EndType, OnceMoves
<1>6. CASE MarkExecuted(r)
  <2>1. /\ request'[r].next = "none" /\ request'[r].for = None
        /\ \A q \in Requests \ {r} : request'[q] = request[q]
    BY <1>1, <1>6, EndType DEF MarkExecuted
  <2>2. UNCHANGED <<applied, raced>>
    BY <1>6 DEF MarkExecuted
  <2>3. \A p \in Proposals : IF p = request[r].for THEN proposal'[p].status = "executed"
                                                 ELSE proposal'[p] = proposal[p]
    BY <1>1, <1>6 DEF MarkExecuted, AdminTypeOK, Proposal
  <2>4. ASSUME NEW p \in Proposals \ raced PROVE Once(p)'
    <3>1. Once(p) /\ p # None
      BY AdminAssumption DEF OnceInv
    <3> QED BY <2>1, <2>2, <2>3, <3>1 DEF Once, Untouched
  <2> QED BY <1>1, <2>1, <2>2, <2>4 DEF OnceInv, IdleHasNone, OnlyAsText
<1> QED BY <1>2, <1>3, <1>4, <1>5, <1>6 DEF ProposalStep

LEMMA OnceStep == OnceInv /\ [AdminNext]_adminVars => OnceInv'
<1> SUFFICES ASSUME OnceInv, [AdminNext]_adminVars PROVE OnceInv'
  OBVIOUS
<1>1. AdminTypeOK /\ AdminTypeOK'
  BY AdminTypeStep DEF OnceInv
<1>2. ASSUME UNCHANGED <<request, applied, raced>>,
             \A p \in Proposals : proposal[p].status = "executed" => proposal'[p].status = "executed"
      PROVE  OnceInv'
  <2>1. IdleHasNone' /\ OnlyAsText'
    BY <1>2 DEF OnceInv, IdleHasNone, OnlyAsText
  <2>2. ASSUME NEW p \in Proposals \ raced PROVE Once(p)'
    BY <1>2 DEF OnceInv, Once, Untouched
  <2> QED BY <1>1, <1>2, <2>1, <2>2 DEF OnceInv
<1>3. CASE UNCHANGED adminVars
  BY <1>2, <1>3 DEF adminVars
<1>4. ASSUME NEW p \in Proposals, NEW kind \in Kinds, NEW a \in Addresses, NEW b \in Approvers,
             CreateProposal(p, kind, a, b)
      PROVE  OnceInv'
  BY <1>1, <1>2, <1>4 DEF CreateProposal, AdminTypeOK
<1>5. ASSUME NEW p \in Proposals, RejectProposal(p) \/ TimePasses(p) PROVE OnceInv'
  BY <1>1, <1>2, <1>5 DEF RejectProposal, TimePasses, AdminTypeOK, Proposal
<1>6. CASE ProcessDies
  <2>1. \A r \in Requests : request'[r].next = "none" /\ request'[r].for = None
    BY <1>6, NoRequestType DEF ProcessDies
  <2>2. UNCHANGED <<applied, proposal>>
    BY <1>6 DEF ProcessDies
  <2>3. ASSUME NEW p \in Proposals \ raced' PROVE Once(p)'
    <3>1. Once(p) /\ p # None
      BY <1>6, AdminAssumption DEF ProcessDies, OnceInv
    <3>2. \A r \in Requests : request[r].for = p => request[r].next # "log"
      BY <1>6, <3>1 DEF ProcessDies, Changed
    <3>3. applied[p] # 0 => proposal[p].status = "executed"
      BY <3>1, <3>2 DEF Once, Untouched
    <3> QED BY <2>1, <2>2, <3>1, <3>3 DEF Once, Untouched
  <2> QED BY <1>1, <2>1, <2>3 DEF OnceInv, IdleHasNone, OnlyAsText
<1> QED BY <1>3, <1>4, <1>5, <1>6, AccountStepOnce, ProposalStepOnce DEF AdminNext

\* A proposal that requests did not work on at once, and that no death left
\* changed and not marked, changes its account once (executeProposal).
THEOREM AdminAppliedOnce == AdminSpec => []AppliedOnce
<1>1. OnceInv => AppliedOnce
  BY DEF OnceInv, Once, AppliedOnce
<1> QED BY <1>1, OnceInit, OnceStep, PTL DEF AdminSpec

-----------------------------------------------------------------------------
(***************************************************************************)
(* The components of the run together.                                     *)
(***************************************************************************)

\* A behaviour of the run is one of each of its components: one of them takes the
\* steps, and the others keep still.
LEMMA RecordsRunTheirComponents ==
  RecordsSpec =>
    BreakerSpec /\ AdminSpec /\ AlertSpec /\ RoutingSpec /\ IntakeSpec /\ IngestSpec /\
    DecommissionSpec /\ BackfillSpec
<1>1. RecordsInit =>
        BreakerInit /\ AdminInit /\ AlertInit /\ RoutingInit /\ IntakeInit /\ IngestInit /\
        DecommissionInit /\ BackfillInit
  BY DEF RecordsInit
<1>2. ASSUME [RecordsNext]_recordsVars
      PROVE
        [BreakerNext]_breakerVars /\ [AdminNext]_adminVars /\ [AlertNext]_alertVars /\
        [RoutingNext]_routingVars /\ [IntakeNext]_intakeVars /\ [IngestNext]_ingestVars /\
        [DecommissionNext]_decommissionVars /\ [BackfillNext]_backfillVars
  <2>1. CASE Runs("breaker") /\ BreakerNext
    BY <2>1 DEF Runs
  <2>2. CASE Runs("admin") /\ AdminNext
    BY <2>2 DEF Runs
  <2>3. CASE Runs("alerts") /\ AlertNext
    BY <2>3 DEF Runs
  <2>4. CASE Runs("routing") /\ RoutingNext
    BY <2>4 DEF Runs
  <2>5. CASE Runs("intake") /\ IntakeNext
    BY <2>5 DEF Runs
  <2>6. CASE Runs("ingest") /\ IngestNext
    BY <2>6 DEF Runs
  <2>7. CASE Runs("decommission") /\ DecommissionNext
    BY <2>7 DEF Runs
  <2>8. CASE Runs("backfill") /\ BackfillNext
    BY <2>8 DEF Runs
  <2>9. CASE UNCHANGED recordsVars
    BY <2>9 DEF recordsVars
  <2> QED BY <1>2, <2>1, <2>2, <2>3, <2>4, <2>5, <2>6, <2>7, <2>8, <2>9 DEF RecordsNext
<1> QED BY <1>1, <1>2, PTL
       DEF RecordsSpec, BreakerSpec, AdminSpec, AlertSpec, RoutingSpec, IntakeSpec, IngestSpec,
       DecommissionSpec, BackfillSpec

\* Whatever the requests that overlap do, a report is stored no more often than it was
\* sent and the network broke (incidentIngestion.service.ts), chunks lie in the range and
\* no more are in flight than there are workers (backfillOrchestrator.ts), and an intake
\* raises only an incident that exists (alertDeduplication.service.ts).
THEOREM RecordsKeepTypes == RecordsSpec => []RecordsTypeOK
BY RecordsRunTheirComponents, BreakerTypeCorrect, AdminTypeCorrect, AlertTypeCorrect,
   RoutingTypeCorrect, IntakeTypeCorrect, IngestTypeCorrect, DecommissionTypeCorrect,
   BackfillTypeCorrect, PTL
   DEF RecordsTypeOK
=============================================================================
