------------------------- MODULE SourceDecommission -------------------------
(***************************************************************************)
(* The decommission of one data source                                     *)
(* (services/sourceDecommission.service.ts, jobs/sourceDecommission.job.ts)*)
(*                                                                         *)
(* Every operation reads the row, tests what it read, and later writes     *)
(* columns of it without testing again; requests and the readiness sweep   *)
(* run concurrently.  Progress is reduced to none, some and all.  Audit    *)
(* entries are left out.                                                   *)
(***************************************************************************)
EXTENDS Naturals, FiniteSets

CONSTANTS
  Operators,         \* requests and sweeps running at a time
  MaxDecommissions   \* bound: requests in a behaviour

ASSUME DecommissionAssumption == MaxDecommissions \in Nat

VARIABLES
  decommission,  \* the row of source_decommissions
  operator,      \* where each operation is and the row it has read
  crossed,       \* two operations have been under way at once
  operations

decommissionVars == <<decommission, operator, crossed, operations>>

ProgressLevels == {"none", "some", "all"}
UnderWay == {"deprecated", "migrating"}

DecommissionRow == [status : UnderWay \cup {"absent", "completed", "rolled_back"},
                    progress : ProgressLevels, elapsed : BOOLEAN,
                    fallback : BOOLEAN, ready : BOOLEAN]

OperatorPlaces == {"none", "starting", "progressing", "checking", "completing", "rollingBack",
                   "sweeping"}

DecommissionTypeOK ==
  /\ decommission \in DecommissionRow
  /\ operator \in [Operators -> [at : OperatorPlaces, saw : DecommissionRow, progress : ProgressLevels]]
  /\ crossed \in BOOLEAN
  /\ operations \in 0 .. MaxDecommissions

NoRecord == [status |-> "absent", progress |-> "none", elapsed |-> FALSE,
             fallback |-> FALSE, ready |-> FALSE]

NoOperation == [at |-> "none", saw |-> NoRecord, progress |-> "none"]

DecommissionInit ==
  /\ decommission = NoRecord
  /\ operator = [o \in Operators |-> NoOperation]
  /\ crossed = FALSE /\ operations = 0

\* o reads the row and goes on to its write, with the progress it was given.
ReadsRow(o, place, progress) ==
  /\ operator[o].at = "none" /\ operations < MaxDecommissions
  /\ operations' = operations + 1
  /\ operator' = [operator EXCEPT ![o] = [at |-> place, saw |-> decommission,
                                          progress |-> progress]]
  /\ crossed' = (crossed \/ \E p \in Operators : operator[p].at # "none")
  /\ UNCHANGED decommission

\* o writes its columns, whatever the row is by now, and ends.
WritesRow(o, place, row) ==
  /\ operator[o].at = place
  /\ decommission' = row
  /\ operator' = [operator EXCEPT ![o] = NoOperation]
  /\ UNCHANGED <<crossed, operations>>

CouldComplete(row) == row.progress = "all" /\ row.elapsed

-----------------------------------------------------------------------------

StartRead(o) ==
  /\ decommission.status \in {"absent", "rolled_back"}
  /\ ReadsRow(o, "starting", "none")

\* INSERT ... ON CONFLICT (source_key) DO UPDATE: also over a row that is active
StartWrite(o) ==
  WritesRow(o, "starting", [status |-> "deprecated", progress |-> "none", elapsed |-> FALSE,
                            fallback |-> TRUE, ready |-> FALSE])

\* requireActive
IsUnderWay == decommission.status \in UnderWay

ProgressRead(o, progress) == IsUnderWay /\ ReadsRow(o, "progressing", progress)

\* Seeded fault: the whole row that was read is written back.
ProgressWriteBack(o) ==
  LET saw == operator[o].saw
      progress == operator[o].progress IN
  /\ WritesRow(o, "progressing",
       [saw EXCEPT
          !.status = IF progress = "all" THEN decommission.status ELSE "migrating",
          !.progress = progress,
          !.ready = progress = "all" /\ saw.elapsed])

ProgressWrite(o) ==
  LET saw == operator[o].saw
      progress == operator[o].progress IN
  /\ WritesRow(o, "progressing",
       [decommission EXCEPT
          !.status = IF progress = "all" THEN saw.status ELSE "migrating",
          !.progress = progress,
          !.ready = progress = "all" /\ saw.elapsed])

\* completeDecommission reads the row twice: it is active, and it is complete.
CompleteRead(o) == IsUnderWay /\ ReadsRow(o, "checking", "none")

\* Seeded fault: the period is not looked at.
CheckProgress(o) ==
  /\ operator[o].at = "checking"
  /\ operator' = [operator EXCEPT ![o] =
       IF IsUnderWay /\ decommission.progress = "all"
         THEN [@ EXCEPT !.at = "completing"] ELSE NoOperation]
  /\ UNCHANGED <<decommission, crossed, operations>>

CheckCompletion(o) ==
  /\ operator[o].at = "checking"
  /\ operator' = [operator EXCEPT ![o] =
       IF IsUnderWay /\ CouldComplete(decommission) THEN [@ EXCEPT !.at = "completing"] ELSE NoOperation]
  /\ UNCHANGED <<decommission, crossed, operations>>

CompleteWrite(o) ==
  WritesRow(o, "completing", [decommission EXCEPT !.status = "completed", !.fallback = FALSE])

RollbackRead(o) == IsUnderWay /\ ReadsRow(o, "rollingBack", "none")

RollbackWrite(o) ==
  WritesRow(o, "rollingBack", [decommission EXCEPT !.status = "rolled_back", !.fallback = FALSE,
                                                   !.ready = FALSE])

\* refreshCompletionReadiness, for this row
SweepReadiness(o) ==
  /\ IsUnderWay /\ decommission.ready # CouldComplete(decommission)
  /\ ReadsRow(o, "sweeping", "none")

SweepFlag(o) ==
  WritesRow(o, "sweeping", [decommission EXCEPT !.ready = CouldComplete(operator[o].saw)])

PeriodElapses ==
  /\ decommission.status # "absent" /\ ~decommission.elapsed
  /\ decommission' = [decommission EXCEPT !.elapsed = TRUE]
  /\ UNCHANGED <<operator, crossed, operations>>

DecommissionNext ==
  \/ \E o \in Operators :
        \/ StartRead(o) \/ StartWrite(o)
        \/ ProgressWrite(o) \/ \E progress \in ProgressLevels : ProgressRead(o, progress)
        \/ CompleteRead(o) \/ CheckCompletion(o) \/ CompleteWrite(o)
        \/ RollbackRead(o) \/ RollbackWrite(o)
        \/ SweepReadiness(o) \/ SweepFlag(o)
  \/ PeriodElapses

DecommissionSpec == DecommissionInit /\ [][DecommissionNext]_decommissionVars

-----------------------------------------------------------------------------
(* Properties *)

\* Whatever overlaps, traffic is redirected only while a decommission is under
\* way: no stale write leaves the fallback on after a completion or a rollback
\* (the columns each update names).
FallbackOnlyUnderWay ==
  decommission.fallback => decommission.status \in UnderWay

\* A source that is completed has all its data migrated and its period elapsed,
\* one that is flagged as ready could be completed, and one that is under way
\* keeps its fallback, unless operations have crossed.
CompletionEarned ==
  ~crossed =>
    /\ decommission.status = "completed" => CouldComplete(decommission)
    /\ decommission.status \in UnderWay => decommission.fallback
    /\ decommission.ready => CouldComplete(decommission)
==============================================================================
