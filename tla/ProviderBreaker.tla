--------------------------- MODULE ProviderBreaker ---------------------------
(***************************************************************************)
(* The circuit breaker of one price provider                               *)
(* (services/providerCircuitBreaker.service.ts), its callers in            *)
(* services/price.service.ts and its recovery sweep                        *)
(* (jobs/providerCircuitBreaker.job.ts).                                   *)
(*                                                                         *)
(* The breaker is a row of provider_circuit_breaker_state.  Every operation*)
(* reads the row, awaits, and writes columns of it back without looking    *)
(* again.  An operation is cut at each await; `saw` is what it has read.   *)
(* The transitions table, the audit log and the gauge are left out.        *)
(***************************************************************************)
EXTENDS Naturals, FiniteSets

CONSTANTS
  Callers,        \* price fetches running at a time
  Thresholds,     \* the values failure_threshold may be configured to
  MaxOverrides,   \* bound: administrative requests in a behaviour
  MaxStoreFaults  \* bound: statements the database refuses

ASSUME BreakerAssumption ==
  /\ Thresholds \in SUBSET (Nat \ {0})
  /\ \E most \in Thresholds : \A t \in Thresholds : t <= most
  /\ MaxOverrides \in Nat /\ MaxStoreFaults \in Nat

VARIABLES
  row,        \* the breaker's row
  calls,      \* where each caller is and what it has read
  sweep,      \* the recovery sweep
  up,         \* whether the provider answers
  streak,     \* failures counted since the count was last reset
  due,        \* the streak has reached the threshold
  rowRaced,      \* a write was based on a row that had changed since it was read
  overrides, storeFaults

breakerVars == <<row, calls, sweep, up, streak, due, rowRaced, overrides, storeFaults>>

MaxThreshold == CHOOSE most \in Thresholds : \A t \in Thresholds : t <= most

BreakerStates == {"closed", "open", "half_open"}

\* A count above every threshold is as good as the highest threshold.
Up(n) == IF n < MaxThreshold THEN n + 1 ELSE MaxThreshold

\* opened_at is "recent" until recovery_timeout_ms have passed since.
Row == [state : BreakerStates, failures : 0 .. MaxThreshold, threshold : Thresholds,
        override : {"none", "force_open", "force_closed"},
        opened : {"null", "recent", "past"}]

Seen == [state : BreakerStates, failures : 0 .. MaxThreshold, threshold : Thresholds]

Look(r) == [state |-> r.state, failures |-> r.failures, threshold |-> r.threshold]

Places == {"idle", "probing", "calling", "resetting", "closing", "counting", "tripping"}

BreakerTypeOK ==
  /\ row \in Row
  /\ calls \in [Callers -> [at : Places, saw : Seen]]
  /\ sweep \in {"idle", "writing"}
  /\ up \in BOOLEAN /\ due \in BOOLEAN /\ rowRaced \in BOOLEAN
  /\ streak \in 0 .. MaxThreshold
  /\ overrides \in 0 .. MaxOverrides
  /\ storeFaults \in 0 .. MaxStoreFaults

NewRow == [state |-> "closed", failures |-> 0, threshold |-> MaxThreshold,
           override |-> "none", opened |-> "null"]

NoCall == [at |-> "idle", saw |-> Look(NewRow)]

BreakerInit ==
  /\ row = NewRow
  /\ calls = [c \in Callers |-> NoCall]
  /\ sweep = "idle"
  /\ up = TRUE /\ due = FALSE /\ rowRaced = FALSE
  /\ streak = 0 /\ overrides = 0 /\ storeFaults = 0

Go(c, from, to) ==
  /\ calls[c].at = from
  /\ calls' = [calls EXCEPT ![c].at = to]

\* ensureState at the start of an operation, which reads the row
ReadRow(c, from, to) ==
  /\ calls[c].at = from
  /\ calls' = [calls EXCEPT ![c] = [at |-> to, saw |-> Look(row)]]

Reset(c) == calls' = [calls EXCEPT ![c] = NoCall]

RowChanged(c) == calls[c].saw # Look(row)

ToHalfOpen == row' = [row EXCEPT !.state = "half_open"]

-----------------------------------------------------------------------------
(* isAvailable, as fetchProviderPrice calls it *)

\* The read lets the call through at once: overridden, closed or half open.
Admit(c) ==
  /\ row.override # "force_open"
  /\ row.override = "force_closed" \/ row.state # "open"
  /\ Go(c, "idle", "calling")
  /\ UNCHANGED <<row, sweep, up, streak, due, rowRaced, overrides, storeFaults>>

\* Open for longer than the recovery timeout: the caller moves the breaker on.
AdmitProbe(c) ==
  /\ row.override = "none" /\ row.state = "open" /\ row.opened # "recent"
  /\ Go(c, "idle", "probing")
  /\ UNCHANGED <<row, sweep, up, streak, due, rowRaced, overrides, storeFaults>>

Probe(c) ==
  /\ Go(c, "probing", "calling")
  /\ ToHalfOpen
  /\ rowRaced' = (rowRaced \/ row.state # "open")
  /\ UNCHANGED <<sweep, up, streak, due, overrides, storeFaults>>

\* The check throws; price collection proceeds without the breaker.
AdmitUnchecked(c) ==
  /\ storeFaults < MaxStoreFaults
  /\ storeFaults' = storeFaults + 1
  /\ calls[c].at \in {"idle", "probing"}
  /\ calls' = [calls EXCEPT ![c].at = "calling"]
  /\ UNCHANGED <<row, sweep, up, streak, due, rowRaced, overrides>>

-----------------------------------------------------------------------------
(* The call and the record of its outcome *)

\* The provider's own rate limit, or Circle's: no outcome is recorded.  A
\* request of the availability route ends here too.
Throttled(c) ==
  /\ calls[c].at = "calling"
  /\ Reset(c)
  /\ UNCHANGED <<row, sweep, up, streak, due, rowRaced, overrides, storeFaults>>

\* The provider answers, and recordSuccess reads the row.
RecordSuccess(c) ==
  /\ up
  /\ ReadRow(c, "calling", "resetting")
  /\ UNCHANGED <<row, sweep, up, streak, due, rowRaced, overrides, storeFaults>>

\* Seeded fault: a success in half_open only resets the count.
ResetFailuresOnly(c) ==
  /\ calls[c].at = "resetting"
  /\ row' = [row EXCEPT !.failures = 0]
  /\ streak' = 0 /\ due' = FALSE /\ rowRaced' = FALSE
  /\ Reset(c)
  /\ UNCHANGED <<sweep, up, overrides, storeFaults>>

ResetFailures(c) ==
  /\ calls[c].at = "resetting"
  /\ row' = [row EXCEPT !.failures = 0]
  /\ streak' = 0 /\ due' = FALSE /\ rowRaced' = FALSE
  /\ IF calls[c].saw.state = "half_open" THEN Go(c, "resetting", "closing") ELSE Reset(c)
  /\ UNCHANGED <<sweep, up, overrides, storeFaults>>

CloseBreaker(c) ==
  /\ calls[c].at = "closing"
  /\ row' = [row EXCEPT !.state = "closed", !.opened = "null"]
  /\ rowRaced' = (rowRaced \/ Look(row) # [calls[c].saw EXCEPT !.failures = 0])
  /\ Reset(c)
  /\ UNCHANGED <<sweep, up, streak, due, overrides, storeFaults>>

\* The request fails, and recordFailure reads the row.
RecordFailure(c) ==
  /\ ~up
  /\ ReadRow(c, "calling", "counting")
  /\ UNCHANGED <<row, sweep, up, streak, due, rowRaced, overrides, storeFaults>>

\* Seeded fault: off by one, the threshold itself does not trip.
TripsLate(saw) ==
  \/ saw.state = "half_open"
  \/ saw.state = "closed" /\ saw.failures + 1 > saw.threshold

Trips(saw) ==
  \/ saw.state = "half_open"
  \/ saw.state = "closed" /\ saw.failures + 1 >= saw.threshold

CountFailure(c) ==
  /\ calls[c].at = "counting"
  /\ row' = [row EXCEPT !.failures = Up(calls[c].saw.failures)]
  /\ streak' = Up(streak)
  /\ due' = (due \/ streak' >= row.threshold)
  /\ rowRaced' = (rowRaced \/ RowChanged(c))
  /\ IF Trips(calls[c].saw) THEN Go(c, "counting", "tripping") ELSE Reset(c)
  /\ UNCHANGED <<sweep, up, overrides, storeFaults>>

TripOpen(c) ==
  /\ calls[c].at = "tripping"
  /\ row' = [row EXCEPT !.state = "open", !.opened = "recent"]
  /\ rowRaced' = (rowRaced \/ Look(row) # [calls[c].saw EXCEPT !.failures = Up(@)])
  /\ Reset(c)
  /\ UNCHANGED <<sweep, up, streak, due, overrides, storeFaults>>

\* A statement of recordSuccess or recordFailure is refused; the caller goes on.
RecordThrows(c) ==
  /\ storeFaults < MaxStoreFaults
  /\ storeFaults' = storeFaults + 1
  /\ calls[c].at \in Places \ {"idle", "probing", "calling"}
  /\ Reset(c)
  /\ rowRaced' = TRUE
  /\ UNCHANGED <<row, sweep, up, streak, due, overrides>>

-----------------------------------------------------------------------------
(* The sweep, the administrator, the provider and the clock *)

SweepRead ==
  /\ sweep = "idle"
  /\ row.state = "open" /\ row.override # "force_open" /\ row.opened # "recent"
  /\ sweep' = "writing"
  /\ UNCHANGED <<row, calls, up, streak, due, rowRaced, overrides, storeFaults>>

SweepWrite ==
  /\ sweep = "writing"
  /\ ToHalfOpen
  /\ rowRaced' = (rowRaced \/ row.state # "open")
  /\ sweep' = "idle"
  /\ UNCHANGED <<calls, up, streak, due, overrides, storeFaults>>

AdminRequest == overrides < MaxOverrides /\ overrides' = overrides + 1

\* Seeded fault: the override is stored as the state.
SetStateToOverride(override) ==
  /\ AdminRequest
  /\ row' = [row EXCEPT !.override = override, !.state = override]
  /\ UNCHANGED <<calls, sweep, up, streak, due, rowRaced, storeFaults>>

SetManualOverride(override) ==
  /\ AdminRequest
  /\ CASE override = "force_closed" ->
            /\ row' = [row EXCEPT !.override = override, !.state = "closed", !.failures = 0]
            /\ streak' = 0 /\ due' = FALSE
       [] override = "force_open" ->
            /\ row' = [row EXCEPT !.override = override, !.state = "open", !.opened = "recent"]
            /\ UNCHANGED <<streak, due>>
       [] OTHER -> row' = [row EXCEPT !.override = override] /\ UNCHANGED <<streak, due>>
  /\ UNCHANGED <<calls, sweep, up, rowRaced, storeFaults>>

ConfigureThresholds(threshold) ==
  /\ AdminRequest
  /\ row' = [row EXCEPT !.threshold = threshold]
  /\ UNCHANGED <<calls, sweep, up, streak, due, rowRaced, storeFaults>>

RecoveryTimeoutElapses ==
  /\ row.opened = "recent"
  /\ row' = [row EXCEPT !.opened = "past"]
  /\ UNCHANGED <<calls, sweep, up, streak, due, rowRaced, overrides, storeFaults>>

ProviderChanges ==
  /\ up' = ~up
  /\ UNCHANGED <<row, calls, sweep, streak, due, rowRaced, overrides, storeFaults>>

-----------------------------------------------------------------------------

CallerStep(c) ==
  \/ Admit(c) \/ AdmitProbe(c) \/ Probe(c)
  \/ RecordSuccess(c) \/ ResetFailures(c) \/ CloseBreaker(c)
  \/ RecordFailure(c) \/ CountFailure(c) \/ TripOpen(c)

BreakerNext ==
  \/ \E c \in Callers :
        CallerStep(c) \/ AdmitUnchecked(c) \/ Throttled(c) \/ RecordThrows(c)
  \/ SweepRead \/ SweepWrite
  \/ \E override \in {"none", "force_open", "force_closed"} : SetManualOverride(override)
  \/ \E threshold \in Thresholds : ConfigureThresholds(threshold)
  \/ RecoveryTimeoutElapses \/ ProviderChanges

\* Prices are collected again and again, calls and statements end, the sweep
\* runs on its interval and the clock advances.  The rate limit's window slides,
\* so a caller is not throttled for ever (strong fairness).
BreakerFairness ==
  /\ \A c \in Callers : WF_breakerVars(CallerStep(c)) /\ SF_breakerVars(RecordSuccess(c))
  /\ WF_breakerVars(SweepRead) /\ WF_breakerVars(SweepWrite)
  /\ WF_breakerVars(RecoveryTimeoutElapses)

BreakerSpec == BreakerInit /\ [][BreakerNext]_breakerVars

FairBreakerSpec == BreakerSpec /\ BreakerFairness

-----------------------------------------------------------------------------
(* Properties *)

\* A provider that has failed threshold times in a row is cut off, unless
\* operations on its row have overlapped or a statement was refused.  The
\* count, the trip and the closing are separate writes of stale reads
\* (recordFailure, recordSuccess, transition).
CutOffWhenDue ==
  (due /\ ~rowRaced /\ \A c \in Callers : calls[c].at # "tripping") => row.state # "closed"

\* However its operations overlap, the breaker finds back: when the provider
\* answers for good and is not forced open, the breaker closes for good.
BreakerHeals ==
  <>[](up /\ row.override # "force_open") => <>[](row.state = "closed")
==============================================================================
