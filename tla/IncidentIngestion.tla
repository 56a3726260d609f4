-------------------------- MODULE IncidentIngestion --------------------------
(***************************************************************************)
(* ingestWithRetry of services/incidentIngestion.service.ts: reports of    *)
(* external sources become incidents.                                      *)
(*                                                                         *)
(* A call looks for the fingerprint, then for the external id, inserts,    *)
(* and writes a history entry, each in a statement of its own; calls run   *)
(* concurrently and a sender may repeat its report.  A statement that the  *)
(* network breaks is retried from the start, at most maxAttempts times,    *)
(* and may have been carried out.  A report without a date is dated when it*)
(* is normalized, so it has a new fingerprint each time.  Reports that lack*)
(* a field go to the review queue and are left out.                        *)
(***************************************************************************)
EXTENDS Naturals, FiniteSets

CONSTANTS
  Reports,           \* [dated : BOOLEAN, external : BOOLEAN], by name
  Calls,             \* calls running at a time
  MaxIngestAttempts,
  MaxDeliveries, MaxNetworkFaults  \* bounds

ASSUME ReportAssumption ==
  /\ DOMAIN Reports # {}
  /\ \A p \in DOMAIN Reports : Reports[p] \in [dated : BOOLEAN, external : BOOLEAN]
  /\ MaxIngestAttempts \in Nat \ {0} /\ IsFiniteSet(Calls)
  /\ MaxDeliveries \in Nat /\ MaxNetworkFaults \in Nat

VARIABLES
  stored,        \* incidents per report, with the number of the call's attempt
  ingest,        \* where each call is, its report, and its attempt
  met,           \* reports that two calls have worked on at once
  deliveries, networkFaults

ingestVars == <<stored, ingest, met, deliveries, networkFaults>>

ReportNames == DOMAIN Reports
IngestPlaces == {"none", "byFingerprint", "byExternalId", "inserting", "logging", "duplicate"}

\* A report is stored no more often than it was sent and the network broke.
IngestTypeOK ==
  /\ stored \in [ReportNames -> 0 .. MaxDeliveries + MaxNetworkFaults]
  /\ ingest \in [Calls -> [at : IngestPlaces, of : ReportNames, attempt : 0 .. MaxIngestAttempts]]
  /\ met \in SUBSET ReportNames
  /\ deliveries \in 0 .. MaxDeliveries /\ networkFaults \in 0 .. MaxNetworkFaults

NoIngest == [at |-> "none", of |-> CHOOSE p \in ReportNames : TRUE, attempt |-> 0]

IngestInit ==
  /\ stored = [p \in ReportNames |-> 0]
  /\ ingest = [c \in Calls |-> NoIngest]
  /\ met = {}
  /\ deliveries = 0 /\ networkFaults = 0

ReportOf(c) == ingest[c].of

Goes(c, from, to) ==
  /\ ingest[c].at = from
  /\ ingest' = [ingest EXCEPT ![c].at = to]

\* The unique index: a dated report has one fingerprint, an undated one never
\* the same twice.
FingerprintTaken(p) == Reports[p].dated /\ stored[p] > 0

-----------------------------------------------------------------------------

IngestReport(c, p) ==
  /\ ingest[c].at = "none" /\ deliveries < MaxDeliveries
  /\ deliveries' = deliveries + 1
  /\ ingest' = [ingest EXCEPT ![c] = [at |-> "byFingerprint", of |-> p, attempt |-> 1]]
  /\ met' = IF \E d \in Calls : ingest[d].at # "none" /\ ReportOf(d) = p
              THEN met \cup {p} ELSE met
  /\ UNCHANGED <<stored, networkFaults>>

\* Seeded fault: the external id is not looked for.
FindByFingerprintOnly(c) ==
  /\ Goes(c, "byFingerprint", IF FingerprintTaken(ReportOf(c)) THEN "duplicate" ELSE "inserting")
  /\ UNCHANGED <<stored, met, deliveries, networkFaults>>

FindByFingerprint(c) ==
  /\ Goes(c, "byFingerprint",
       IF FingerprintTaken(ReportOf(c)) THEN "duplicate"
       ELSE IF Reports[ReportOf(c)].external THEN "byExternalId" ELSE "inserting")
  /\ UNCHANGED <<stored, met, deliveries, networkFaults>>

FindByExternalId(c) ==
  /\ Goes(c, "byExternalId", IF stored[ReportOf(c)] > 0 THEN "duplicate" ELSE "inserting")
  /\ UNCHANGED <<stored, met, deliveries, networkFaults>>

CreateFromNormalized(c) ==
  /\ ~FingerprintTaken(ReportOf(c))
  /\ Goes(c, "inserting", "logging")
  /\ stored' = [stored EXCEPT ![ReportOf(c)] = @ + 1]
  /\ UNCHANGED <<met, deliveries, networkFaults>>

\* A violation of the index is not retryable: the sender gets an error.
InsertConflicts(c) ==
  /\ ingest[c].at = "inserting" /\ FingerprintTaken(ReportOf(c))
  /\ ingest' = [ingest EXCEPT ![c] = NoIngest]
  /\ UNCHANGED <<stored, met, deliveries, networkFaults>>

\* recordHistory, which nothing here reads, and the answer
RecordIngested(c) ==
  /\ ingest[c].at \in {"logging", "duplicate"}
  /\ ingest' = [ingest EXCEPT ![c] = NoIngest]
  /\ UNCHANGED <<stored, met, deliveries, networkFaults>>

\* ECONNRESET and its like: the statement may have been carried out or not.
NetworkBreaks(c) ==
  LET p == ReportOf(c) IN
  /\ networkFaults < MaxNetworkFaults /\ networkFaults' = networkFaults + 1
  /\ ingest[c].at # "none"
  /\ \/ UNCHANGED stored
     \/ /\ ingest[c].at = "inserting" /\ ~FingerprintTaken(p)
        /\ stored' = [stored EXCEPT ![p] = @ + 1]
  /\ ingest' = [ingest EXCEPT ![c] =
       IF ingest[c].attempt < MaxIngestAttempts
         THEN [ingest[c] EXCEPT !.at = "byFingerprint", !.attempt = ingest[c].attempt + 1]
         ELSE NoIngest]
  /\ UNCHANGED <<met, deliveries>>

IngestNext ==
  \E c \in Calls :
    \/ \E p \in ReportNames : IngestReport(c, p)
    \/ FindByFingerprint(c) \/ FindByExternalId(c) \/ CreateFromNormalized(c)
    \/ InsertConflicts(c) \/ RecordIngested(c) \/ NetworkBreaks(c)

IngestSpec == IngestInit /\ [][IngestNext]_ingestVars

-----------------------------------------------------------------------------
(* Properties *)

\* However often a report is sent, retried or broken off after its insert, it is
\* stored once: if it is dated, whatever overlaps (the unique index); if it has
\* an external id only, unless two calls worked on it at once.
StoredOnce ==
  \A p \in ReportNames :
    (Reports[p].dated \/ (Reports[p].external /\ p \notin met)) => stored[p] <= 1
==============================================================================
