--------------------------- MODULE Breaker_proofs ---------------------------
(***************************************************************************)
(* Theorems about ProviderBreaker for any providers, any number of calls   *)
(* under way, any threshold and any changes of the threshold.              *)
(***************************************************************************)
EXTENDS ProviderBreaker, TLAPS

\* The highest threshold is one of them.
LEMMA MaxThresholdIsMax ==
  /\ MaxThreshold \in Thresholds
  /\ MaxThreshold \in Nat \ {0}
  /\ \A t \in Thresholds : t \in Nat \ {0} /\ t <= MaxThreshold
<1> DEFINE IsMost(m) == \A t \in Thresholds : t <= m
<1>1. PICK m \in Thresholds : IsMost(m)
  BY BreakerAssumption
<1>2. MaxThreshold \in Thresholds /\ IsMost(MaxThreshold)
  BY <1>1 DEF MaxThreshold
<1> QED BY <1>2, BreakerAssumption

LEMMA CountRange ==
  /\ MaxThreshold \in Nat /\ MaxThreshold >= 1
  /\ 0 \in 0 .. MaxThreshold
  /\ \A n \in 0 .. MaxThreshold : n \in Nat
<1>1. MaxThreshold \in Nat \ {0}
  BY MaxThresholdIsMax
<1> QED BY <1>1

\* A count stays in its range, rises by at most one, and is positive once raised.
LEMMA UpBounded ==
  ASSUME NEW n \in 0 .. MaxThreshold
  PROVE  Up(n) \in 1 .. MaxThreshold /\ Up(n) <= n + 1
BY MaxThresholdIsMax DEF Up

LEMMA LookType ==
  ASSUME NEW r \in Row
  PROVE  Look(r) \in Seen
BY DEF Row, Seen, Look

LEMMA BreakerInitType == BreakerInit => BreakerTypeOK
<1>1. NewRow \in Row
  BY MaxThresholdIsMax DEF NewRow, Row, BreakerStates
<1>2. NoCall \in [at : Places, saw : Seen]
  BY <1>1, LookType DEF NoCall, Places
<1>3. 0 \in 0 .. MaxOverrides /\ 0 \in 0 .. MaxStoreFaults
  BY BreakerAssumption
<1>4. 0 \in 0 .. MaxThreshold
  BY CountRange
<1> QED BY <1>1, <1>2, <1>3, <1>4 DEF BreakerInit, BreakerTypeOK

LEMMA BreakerStepType == BreakerTypeOK /\ [BreakerNext]_breakerVars => BreakerTypeOK'
<1> SUFFICES ASSUME BreakerTypeOK, [BreakerNext]_breakerVars
             PROVE  BreakerTypeOK'
  OBVIOUS
<1> USE DEF BreakerTypeOK
<1>1. NoCall \in [at : Places, saw : Seen]
  BY LookType, MaxThresholdIsMax DEF NoCall, NewRow, Row, BreakerStates, Places
<1>2. Look(row) \in Seen
  BY LookType
<1>3. ASSUME NEW c \in Callers, CallerStep(c)
      PROVE  BreakerTypeOK'
  <2>1. CASE Admit(c)
    BY <2>1 DEF Admit, Go, Places
  <2>2. CASE AdmitProbe(c)
    BY <2>2 DEF AdmitProbe, Go, Places
  <2>3. CASE Probe(c)
    BY <2>3 DEF Probe, Go, ToHalfOpen, Places, Row, BreakerStates
  <2>4. CASE RecordSuccess(c)
    BY <2>4, <1>2 DEF RecordSuccess, ReadRow, Places
  <2>5. CASE ResetFailures(c)
    <3>1. row' \in Row /\ streak' \in 0 .. MaxThreshold
      BY <2>5, MaxThresholdIsMax DEF ResetFailures, Row
    <3> QED BY <2>5, <3>1, <1>1 DEF ResetFailures, Go, Reset, Places
  <2>6. CASE CloseBreaker(c)
    BY <2>6, <1>1 DEF CloseBreaker, Reset, Row, BreakerStates
  <2>7. CASE RecordFailure(c)
    BY <2>7, <1>2 DEF RecordFailure, ReadRow, Places
  <2>8. CASE CountFailure(c)
    <3>1. calls[c].saw.failures \in 0 .. MaxThreshold
      BY DEF Seen
    <3>2. row' \in Row /\ streak' \in 0 .. MaxThreshold
      BY <2>8, <3>1, UpBounded DEF CountFailure, Row
    <3> QED BY <2>8, <3>2, <1>1 DEF CountFailure, Go, Reset, Places
  <2>9. CASE TripOpen(c)
    BY <2>9, <1>1 DEF TripOpen, Reset, Row, BreakerStates
  <2> QED BY <1>3, <2>1, <2>2, <2>3, <2>4, <2>5, <2>6, <2>7, <2>8, <2>9 DEF CallerStep
<1>4. ASSUME NEW c \in Callers, AdmitUnchecked(c) \/ Throttled(c) \/ RecordThrows(c)
      PROVE  BreakerTypeOK'
  <2>1. storeFaults' \in 0 .. MaxStoreFaults
    BY <1>4, BreakerAssumption DEF AdmitUnchecked, Throttled, RecordThrows
  <2>2. CASE AdmitUnchecked(c)
    BY <2>1, <2>2 DEF AdmitUnchecked, Places
  <2>3. CASE Throttled(c)
    BY <2>3, <1>1 DEF Throttled, Reset
  <2>4. CASE RecordThrows(c)
    BY <2>1, <2>4, <1>1 DEF RecordThrows, Reset
  <2> QED BY <1>4, <2>2, <2>3, <2>4
<1>5. CASE SweepRead \/ SweepWrite
  BY <1>5 DEF SweepRead, SweepWrite, ToHalfOpen, Row, BreakerStates
<1>6. ASSUME NEW override \in {"none", "force_open", "force_closed"},
             SetManualOverride(override)
      PROVE  BreakerTypeOK'
  <2>1. overrides' \in 0 .. MaxOverrides
    BY <1>6, BreakerAssumption DEF SetManualOverride, AdminRequest
  <2>2. row' \in Row /\ streak' \in 0 .. MaxThreshold /\ due' \in BOOLEAN
    <3>1. CASE override = "force_closed"
      BY <1>6, <3>1, CountRange DEF SetManualOverride, Row, BreakerStates
    <3>2. CASE override = "force_open"
      BY <1>6, <3>2 DEF SetManualOverride, Row, BreakerStates
    <3>3. CASE override = "none"
      BY <1>6, <3>3 DEF SetManualOverride, Row
    <3> QED BY <3>1, <3>2, <3>3
  <2> QED BY <1>6, <2>1, <2>2 DEF SetManualOverride
<1>7. ASSUME NEW threshold \in Thresholds, ConfigureThresholds(threshold)
      PROVE  BreakerTypeOK'
  <2>1. overrides' \in 0 .. MaxOverrides
    BY <1>7, BreakerAssumption DEF ConfigureThresholds, AdminRequest
  <2> QED BY <1>7, <2>1 DEF ConfigureThresholds, Row
<1>8. CASE RecoveryTimeoutElapses \/ ProviderChanges
  BY <1>8 DEF RecoveryTimeoutElapses, ProviderChanges, Row
<1>9. CASE UNCHANGED breakerVars
  BY <1>9 DEF breakerVars
<1> QED BY <1>3, <1>4, <1>5, <1>6, <1>7, <1>8, <1>9 DEF BreakerNext

\* Unless operations overlapped, the stored count is that of the failures since
\* the last reset; and a streak that was due has begun.
CountKept ==
  /\ ~rowRaced => row.failures = streak
  /\ due => streak > 0

CutOffInv == BreakerTypeOK /\ CountKept /\ CutOffWhenDue

LEMMA CutOffStep == CutOffInv /\ [BreakerNext]_breakerVars => CountKept' /\ CutOffWhenDue'
<1> SUFFICES ASSUME CutOffInv, [BreakerNext]_breakerVars
             PROVE  CountKept' /\ CutOffWhenDue'
  OBVIOUS
<1> USE DEF CutOffInv, BreakerTypeOK, CountKept, CutOffWhenDue
<1>1. ASSUME NEW c \in Callers, CallerStep(c)
      PROVE  CountKept' /\ CutOffWhenDue'
  <2>1. CASE Admit(c) \/ AdmitProbe(c) \/ Probe(c) \/ RecordSuccess(c) \/ RecordFailure(c)
    BY <2>1 DEF Admit, AdmitProbe, Probe, RecordSuccess, RecordFailure, Go, ReadRow,
                ToHalfOpen, Row
  <2>2. CASE ResetFailures(c)
    BY <2>2 DEF ResetFailures, Row
  <2>3. CASE CloseBreaker(c)
    <3>1. CASE rowRaced'
      BY <2>3, <3>1 DEF CloseBreaker, Row
    <3>2. CASE ~rowRaced'
      <4>1. row.failures = 0 /\ ~rowRaced
        BY <2>3, <3>2 DEF CloseBreaker, Look, Seen
      <4> QED BY <2>3, <4>1 DEF CloseBreaker, Row
    <3> QED BY <3>1, <3>2
  <2>4. CASE CountFailure(c)
    <3>1. /\ row' = [row EXCEPT !.failures = Up(calls[c].saw.failures)]
          /\ streak' = Up(streak) /\ due' = (due \/ streak' >= row.threshold)
          /\ rowRaced' = (rowRaced \/ calls[c].saw # Look(row))
          /\ calls[c].at = "counting"
          /\ \A d \in Callers \ {c} : calls'[d] = calls[d]
          /\ Trips(calls[c].saw) => calls'[c].at = "tripping"
      BY <2>4 DEF CountFailure, RowChanged, Go, Reset
    <3>2. streak' \in 1 .. MaxThreshold /\ streak' <= streak + 1
      BY <3>1, UpBounded
    <3>3. row.failures \in Nat /\ row.threshold \in Nat /\ streak \in Nat
      BY CountRange, BreakerAssumption DEF Row
    <3>4. CASE rowRaced'
      BY <3>2, <3>4
    <3>5. CASE ~rowRaced'
      <4>1. ~rowRaced /\ row.failures = streak /\ calls[c].saw = Look(row)
        BY <3>1, <3>5
      <4>2. CountKept'
        BY <3>1, <3>2, <4>1 DEF Look, Row
      <4>3. CASE streak' >= row.threshold /\ row.state # "open"
        <5>1. Trips(calls[c].saw)
          BY <4>1, <4>3, <3>2, <3>3 DEF Trips, Look, Row, BreakerStates
        <5> QED BY <5>1, <4>2, <3>1
      <4>4. CASE row.state = "open"
        BY <4>2, <4>4, <3>1 DEF Row
      <4>5. CASE ~(streak' >= row.threshold)
        BY <4>2, <4>5, <4>1, <3>1 DEF Row
      <4> QED BY <4>3, <4>4, <4>5
    <3> QED BY <3>4, <3>5
  <2>5. CASE TripOpen(c)
    BY <2>5 DEF TripOpen, Row
  <2> QED BY <1>1, <2>1, <2>2, <2>3, <2>4, <2>5 DEF CallerStep
<1>2. ASSUME NEW c \in Callers, AdmitUnchecked(c) \/ Throttled(c) \/ RecordThrows(c)
      PROVE  CountKept' /\ CutOffWhenDue'
  BY <1>2 DEF AdmitUnchecked, Throttled, RecordThrows, Reset
<1>3. CASE SweepRead \/ SweepWrite
  BY <1>3 DEF SweepRead, SweepWrite, ToHalfOpen, Row
<1>4. ASSUME NEW override \in {"none", "force_open", "force_closed"},
             SetManualOverride(override)
      PROVE  CountKept' /\ CutOffWhenDue'
  BY <1>4 DEF SetManualOverride, Row
<1>5. ASSUME NEW threshold \in Thresholds, ConfigureThresholds(threshold)
      PROVE  CountKept' /\ CutOffWhenDue'
  BY <1>5 DEF ConfigureThresholds, Row
<1>6. CASE RecoveryTimeoutElapses \/ ProviderChanges
  BY <1>6 DEF RecoveryTimeoutElapses, ProviderChanges, Row
<1>7. CASE UNCHANGED breakerVars
  BY <1>7 DEF breakerVars
<1> QED BY <1>1, <1>2, <1>3, <1>4, <1>5, <1>6, <1>7 DEF BreakerNext

\* A provider that has failed as often in a row as its threshold says is cut off,
\* unless operations on its row overlapped or a statement was refused.
THEOREM BreakerCutsOff == BreakerSpec => []CutOffWhenDue
<1>1. BreakerInit => CutOffInv
  BY BreakerInitType DEF BreakerInit, CutOffInv, CountKept, CutOffWhenDue, NewRow
<1>2. CutOffInv /\ [BreakerNext]_breakerVars => CutOffInv'
  BY BreakerStepType, CutOffStep DEF CutOffInv
<1>3. CutOffInv => CutOffWhenDue
  BY DEF CutOffInv
<1> QED BY <1>1, <1>2, <1>3, PTL DEF BreakerSpec

\* The types of the state, for any values of the constants.
LEMMA BreakerTypeCorrect == BreakerSpec => []BreakerTypeOK
BY BreakerInitType, BreakerStepType, PTL DEF BreakerSpec
=============================================================================
