--------------------------- MODULE Alerts_proofs ----------------------------
(***************************************************************************)
(* Theorems about what becomes of an alert or an incident report: its      *)
(* ingestion, its evaluation and the duplicate check, its merging into an  *)
(* incident of a bridge, its routing. Each part is about one component and *)
(* uses nothing of the others.                                             *)
(***************************************************************************)
EXTENDS IncidentIngestion, AlertIncidents, AlertRouting, AlertEvaluation,
        FiniteSetTheorems, SequenceTheorems, WellFoundedInduction, TLAPS

-----------------------------------------------------------------------------
(***************************************************************************)
(* The ingestion of incident reports: any reports, any number of calls at  *)
(* a time, of deliveries, of network faults and of attempts.               *)
(***************************************************************************)

Call == [at : IngestPlaces, of : ReportNames, attempt : Nat]

Shape ==
  /\ stored \in [ReportNames -> Nat]
  /\ ingest \in [Calls -> Call]

Working(c) == ingest[c].at # "none"

\* The unique index alone keeps a dated report single.
DatedOnce == \A p \in ReportNames : Reports[p].dated => stored[p] <= 1

\* Without the index it is that one call works on the report at a time, and that
\* it has found nothing when it inserts.
LookedUp ==
  \A p \in ReportNames \ met : ~Reports[p].dated /\ Reports[p].external =>
    /\ stored[p] <= 1
    /\ \A c, d \in Calls : Working(c) /\ Working(d) /\ ReportOf(c) = p /\ ReportOf(d) = p => c = d
    /\ \A c \in Calls : ingest[c].at = "inserting" /\ ReportOf(c) = p => stored[p] = 0

StoredInv == Shape /\ DatedOnce /\ LookedUp

LEMMA NoIngestType == NoIngest \in Call /\ NoIngest.at = "none"
<1>1. (CHOOSE p \in ReportNames : TRUE) \in ReportNames
  BY ReportAssumption DEF ReportNames
<1> QED BY <1>1 DEF NoIngest, Call, IngestPlaces

LEMMA StoredInit == IngestInit => StoredInv
<1> SUFFICES ASSUME IngestInit PROVE StoredInv
  OBVIOUS
<1>1. Shape
  BY NoIngestType DEF IngestInit, Shape
<1>2. \A c \in Calls : ingest[c].at = "none"
  BY NoIngestType DEF IngestInit
<1>3. \A p \in ReportNames : stored[p] = 0
  BY DEF IngestInit
<1> QED BY <1>1, <1>2, <1>3 DEF StoredInv, DatedOnce, LookedUp, Working

\* A call goes on with its report or ends, and nothing is stored.
LEMMA LookKeeps ==
  ASSUME StoredInv, UNCHANGED <<stored, met>>, NEW c \in Calls,
         ingest' \in [Calls -> Call],
         \A d \in Calls \ {c} : ingest'[d] = ingest[d],
         Working(c), Working(c)' => ReportOf(c)' = ReportOf(c),
         ingest'[c].at = "inserting" => stored[ReportOf(c)] = 0 \/ Reports[ReportOf(c)].dated
                                          \/ ~Reports[ReportOf(c)].external
  PROVE  StoredInv'
<1>1. Shape'
  BY DEF StoredInv, Shape
<1>2. DatedOnce'
  BY DEF StoredInv, DatedOnce
<1>3. ASSUME NEW p \in ReportNames \ met, ~Reports[p].dated, Reports[p].external
      PROVE  /\ \A d, e \in Calls : Working(d)' /\ Working(e)' /\ ReportOf(d)' = p /\ ReportOf(e)' = p
                  => d = e
             /\ \A d \in Calls : ingest'[d].at = "inserting" /\ ReportOf(d)' = p => stored[p] = 0
  <2>1. \A d, e \in Calls : Working(d) /\ Working(e) /\ ReportOf(d) = p /\ ReportOf(e) = p => d = e
    BY <1>3 DEF StoredInv, LookedUp
  <2>2. \A d \in Calls : Working(d)' /\ ReportOf(d)' = p => Working(d) /\ ReportOf(d) = p
    BY DEF Working, ReportOf
  <2>3. \A d \in Calls \ {c} : ingest'[d].at = "inserting" /\ ReportOf(d)' = p => stored[p] = 0
    BY <1>3 DEF StoredInv, LookedUp, ReportOf
  <2>4. ingest'[c].at = "inserting" /\ ReportOf(c)' = p => stored[p] = 0
    BY <1>3 DEF Working
  <2> QED BY <2>1, <2>2, <2>3, <2>4
<1>4. LookedUp'
  BY <1>3 DEF StoredInv, LookedUp
<1> QED BY <1>1, <1>2, <1>4 DEF StoredInv

\* A call stores its report, which the index allows, and goes on elsewhere.
LEMMA StoreKeeps ==
  ASSUME StoredInv, UNCHANGED met, NEW c \in Calls, ingest[c].at = "inserting",
         ~FingerprintTaken(ReportOf(c)),
         stored' = [stored EXCEPT ![ReportOf(c)] = @ + 1],
         ingest' \in [Calls -> Call],
         \A d \in Calls \ {c} : ingest'[d] = ingest[d],
         Working(c)' => ReportOf(c)' = ReportOf(c), ingest'[c].at # "inserting"
  PROVE  StoredInv'
<1> DEFINE mine == ReportOf(c)
<1>1. mine \in ReportNames /\ stored \in [ReportNames -> Nat] /\ Working(c)
  BY DEF StoredInv, Shape, Call, ReportOf, Working
<1>2. /\ stored' \in [ReportNames -> Nat]
      /\ \A p \in ReportNames : stored'[p] = IF p = mine THEN stored[p] + 1 ELSE stored[p]
  BY <1>1
<1>3. Shape'
  BY <1>2 DEF Shape
<1>4. DatedOnce'
  <2>1. Reports[mine].dated => stored[mine] = 0
    BY <1>1 DEF FingerprintTaken
  <2> QED BY <1>1, <1>2, <2>1 DEF StoredInv, DatedOnce
<1>5. ASSUME NEW p \in ReportNames \ met, ~Reports[p].dated, Reports[p].external
      PROVE  /\ stored'[p] <= 1
             /\ \A d, e \in Calls : Working(d)' /\ Working(e)' /\ ReportOf(d)' = p /\ ReportOf(e)' = p
                  => d = e
             /\ \A d \in Calls : ingest'[d].at = "inserting" /\ ReportOf(d)' = p => stored'[p] = 0
  <2>1. /\ stored[p] <= 1
        /\ \A d, e \in Calls : Working(d) /\ Working(e) /\ ReportOf(d) = p /\ ReportOf(e) = p => d = e
        /\ \A d \in Calls : ingest[d].at = "inserting" /\ ReportOf(d) = p => stored[p] = 0
    BY <1>5 DEF StoredInv, LookedUp
  <2>2. stored'[p] <= 1
    BY <1>1, <1>2, <2>1
  <2>3. \A d \in Calls : Working(d)' /\ ReportOf(d)' = p => Working(d) /\ ReportOf(d) = p
    BY <1>1 DEF Working, ReportOf
  <2>4. ASSUME NEW d \in Calls, ingest'[d].at = "inserting", ReportOf(d)' = p PROVE stored'[p] = 0
    <3>1. d # c /\ ingest[d].at = "inserting" /\ ReportOf(d) = p
      BY <2>4 DEF ReportOf
    <3>2. p # mine
      BY <1>1, <2>1, <3>1 DEF Working
    <3> QED BY <1>2, <2>1, <3>1, <3>2
  <2> QED BY <2>1, <2>2, <2>3, <2>4
<1>6. LookedUp'
  BY <1>5 DEF LookedUp
<1> QED BY <1>3, <1>4, <1>6 DEF StoredInv

-----------------------------------------------------------------------------
(* The steps *)

\* An entry of ingest that is replaced by a call.
LEMMA CallType ==
  ASSUME StoredInv, NEW c \in Calls, NEW call \in Call, ingest' = [ingest EXCEPT ![c] = call]
  PROVE  /\ ingest' \in [Calls -> Call] /\ ingest'[c] = call
         /\ \A d \in Calls \ {c} : ingest'[d] = ingest[d]
BY DEF StoredInv, Shape

LEMMA GoesType ==
  ASSUME StoredInv, NEW c \in Calls, NEW from \in IngestPlaces \ {"none"}, NEW to \in IngestPlaces,
         Goes(c, from, to)
  PROVE  /\ ingest[c].at = from /\ Working(c)
         /\ ingest' \in [Calls -> Call] /\ ingest'[c].at = to /\ ReportOf(c)' = ReportOf(c)
         /\ \A d \in Calls \ {c} : ingest'[d] = ingest[d]
<1> DEFINE call == [ingest[c] EXCEPT !.at = to]
<1>1. ingest' = [ingest EXCEPT ![c] = call] /\ ingest[c].at = from
  BY DEF Goes
<1>2. call \in Call /\ call.at = to /\ call.of = ingest[c].of
  BY DEF StoredInv, Shape, Call
<1> HIDE DEF call
<1> QED BY <1>1, <1>2, CallType DEF Working, ReportOf

LEMMA BeginKeeps ==
  ASSUME StoredInv, NEW c \in Calls, NEW p \in ReportNames, IngestReport(c, p)
  PROVE  StoredInv'
<1> DEFINE call == [at |-> "byFingerprint", of |-> p, attempt |-> 1]
<1>1. ingest' = [ingest EXCEPT ![c] = call] /\ stored' = stored /\ ~Working(c)
  BY DEF IngestReport, Working
<1>2. call \in Call /\ call.at = "byFingerprint" /\ call.of = p
  BY DEF Call, IngestPlaces
<1> HIDE DEF call
<1>3. /\ ingest' \in [Calls -> Call] /\ ingest'[c] = call
      /\ \A d \in Calls \ {c} : ingest'[d] = ingest[d]
  BY <1>1, <1>2, CallType
<1>4. met \subseteq met' /\ (p \notin met' => \A d \in Calls : ~(Working(d) /\ ReportOf(d) = p))
  BY DEF IngestReport, Working
<1>5. Shape' /\ DatedOnce'
  BY <1>1, <1>3 DEF StoredInv, Shape, DatedOnce
<1>6. ASSUME NEW s \in ReportNames \ met', ~Reports[s].dated, Reports[s].external
      PROVE  /\ \A d, e \in Calls : Working(d)' /\ Working(e)' /\ ReportOf(d)' = s /\ ReportOf(e)' = s
                  => d = e
             /\ \A d \in Calls : ingest'[d].at = "inserting" /\ ReportOf(d)' = s => stored[s] = 0
  <2>1. /\ \A d, e \in Calls : Working(d) /\ Working(e) /\ ReportOf(d) = s /\ ReportOf(e) = s => d = e
        /\ \A d \in Calls : ingest[d].at = "inserting" /\ ReportOf(d) = s => stored[s] = 0
    BY <1>4, <1>6 DEF StoredInv, LookedUp
  <2>2. /\ \A d \in Calls \ {c} : (Working(d)' <=> Working(d)) /\ ReportOf(d)' = ReportOf(d)
        /\ ReportOf(c)' = p
    BY <1>2, <1>3 DEF Working, ReportOf
  <2>3. ASSUME NEW d \in Calls, ingest'[d].at = "inserting", ReportOf(d)' = s PROVE stored[s] = 0
    <3>1. d # c /\ ingest[d].at = "inserting"
      BY <1>2, <1>3, <2>3
    <3> QED BY <2>1, <2>2, <2>3, <3>1
  <2>4. s = p => \A d \in Calls : Working(d)' /\ ReportOf(d)' = s => d = c
    BY <1>4, <1>6, <2>2
  <2>5. s # p => \A d \in Calls : Working(d)' /\ ReportOf(d)' = s => Working(d) /\ ReportOf(d) = s
    BY <2>2
  <2>6. \A d, e \in Calls : Working(d)' /\ Working(e)' /\ ReportOf(d)' = s /\ ReportOf(e)' = s => d = e
    BY <2>1, <2>4, <2>5
  <2> QED BY <2>3, <2>6
<1>7. LookedUp'
  BY <1>1, <1>4, <1>6 DEF StoredInv, LookedUp
<1> QED BY <1>5, <1>7 DEF StoredInv

LEMMA BreakKeeps ==
  ASSUME StoredInv, NEW c \in Calls, NetworkBreaks(c)
  PROVE  StoredInv'
<1> DEFINE again == [ingest[c] EXCEPT !.at = "byFingerprint", !.attempt = ingest[c].attempt + 1]
           call == IF ingest[c].attempt < MaxIngestAttempts THEN again ELSE NoIngest
<1>1. ingest' = [ingest EXCEPT ![c] = call] /\ Working(c) /\ met' = met
  BY DEF NetworkBreaks, Working
<1>2. again \in Call /\ again.at = "byFingerprint" /\ again.of = ingest[c].of
  <2>1. ingest[c] \in Call
    BY DEF StoredInv, Shape
  <2>2. ingest[c].attempt + 1 \in Nat /\ "byFingerprint" \in IngestPlaces
    BY <2>1 DEF Call, IngestPlaces
  <2> QED BY <2>1, <2>2 DEF Call
<1> HIDE DEF again
<1>3. call \in Call /\ call.at # "inserting" /\ (call.at # "none" => call.of = ingest[c].of)
  <2>1. call = again \/ call = NoIngest
    OBVIOUS
  <2> HIDE DEF call
  <2> QED BY <1>2, <2>1, NoIngestType
<1> HIDE DEF call
<1>4. /\ ingest' \in [Calls -> Call] /\ ingest'[c].at # "inserting"
      /\ Working(c)' => ReportOf(c)' = ReportOf(c)
      /\ \A d \in Calls \ {c} : ingest'[d] = ingest[d]
  BY <1>1, <1>3, CallType DEF Working, ReportOf
<1>5. CASE stored' = stored
  BY <1>1, <1>4, <1>5, LookKeeps
<1>6. CASE /\ ingest[c].at = "inserting" /\ ~FingerprintTaken(ReportOf(c))
           /\ stored' = [stored EXCEPT ![ReportOf(c)] = @ + 1]
  BY <1>1, <1>4, <1>6, StoreKeeps
<1> QED BY <1>5, <1>6 DEF NetworkBreaks

LEMMA StoredStep == StoredInv /\ [IngestNext]_ingestVars => StoredInv'
<1> SUFFICES ASSUME StoredInv, [IngestNext]_ingestVars PROVE StoredInv'
  OBVIOUS
<1>1. CASE UNCHANGED ingestVars
  BY <1>1 DEF ingestVars, StoredInv, Shape, DatedOnce, LookedUp, Working, ReportOf
<1>2. ASSUME NEW c \in Calls, FindByFingerprint(c) PROVE StoredInv'
  <2> DEFINE to == IF FingerprintTaken(ReportOf(c)) THEN "duplicate"
                   ELSE IF Reports[ReportOf(c)].external THEN "byExternalId" ELSE "inserting"
  <2>1. Goes(c, "byFingerprint", to) /\ UNCHANGED <<stored, met>>
    BY <1>2 DEF FindByFingerprint
  <2>2. to \in IngestPlaces /\ (to = "inserting" => ~Reports[ReportOf(c)].external)
    BY DEF IngestPlaces
  <2> HIDE DEF to
  <2> QED BY <2>1, <2>2, GoesType, LookKeeps DEF IngestPlaces
<1>3. ASSUME NEW c \in Calls, FindByExternalId(c) PROVE StoredInv'
  <2> DEFINE to == IF stored[ReportOf(c)] > 0 THEN "duplicate" ELSE "inserting"
  <2>1. Goes(c, "byExternalId", to) /\ UNCHANGED <<stored, met>>
    BY <1>3 DEF FindByExternalId
  <2>2. stored[ReportOf(c)] \in Nat
    BY DEF StoredInv, Shape, Call, ReportOf
  <2>3. to \in IngestPlaces /\ (to = "inserting" => stored[ReportOf(c)] = 0)
    BY <2>2 DEF IngestPlaces
  <2> HIDE DEF to
  <2> QED BY <2>1, <2>3, GoesType, LookKeeps DEF IngestPlaces
<1>4. ASSUME NEW c \in Calls, CreateFromNormalized(c) PROVE StoredInv'
  <2>1. Goes(c, "inserting", "logging") /\ UNCHANGED met
    BY <1>4 DEF CreateFromNormalized
  <2> QED BY <1>4, <2>1, GoesType, StoreKeeps DEF CreateFromNormalized, IngestPlaces
<1>5. ASSUME NEW c \in Calls, InsertConflicts(c) \/ RecordIngested(c) PROVE StoredInv'
  <2>1. /\ ingest' = [ingest EXCEPT ![c] = NoIngest] /\ UNCHANGED <<stored, met>>
        /\ Working(c)
    BY <1>5 DEF InsertConflicts, RecordIngested, Working
  <2>2. /\ ingest' \in [Calls -> Call] /\ ~Working(c)' /\ ingest'[c].at # "inserting"
        /\ \A d \in Calls \ {c} : ingest'[d] = ingest[d]
    BY <2>1, NoIngestType, CallType DEF Working
  <2> QED BY <2>1, <2>2, LookKeeps
<1> QED BY <1>1, <1>2, <1>3, <1>4, <1>5, BeginKeeps, BreakKeeps DEF IngestNext

\* However often a report is sent, retried or broken off, it is stored once: the
\* unique index sees to it if the report is dated, the search by external id if
\* no two calls worked on it at once (ingestWithRetry).
THEOREM IngestStoredOnce == IngestSpec => []StoredOnce
<1>1. StoredInv => StoredOnce
  BY DEF StoredInv, DatedOnce, LookedUp, StoredOnce
<1> QED BY <1>1, StoredInit, StoredStep, PTL DEF IngestSpec

-----------------------------------------------------------------------------
(* Types of the ingestion of incidents *)

IngestCall == [at : IngestPlaces, of : ReportNames, attempt : 0 .. MaxIngestAttempts]

\* The calls that may still store their report
Storing == {c \in Calls : ingest[c].at \in {"byFingerprint", "byExternalId", "inserting"}}

\* Every row was stored by a delivery or by a statement the network broke.
RowsPaidFor ==
  \A p \in ReportNames : stored[p] + Cardinality(Storing) <= deliveries + networkFaults

IngestTypeInv ==
  /\ stored \in [ReportNames -> Nat]
  /\ ingest \in [Calls -> IngestCall]
  /\ met \in SUBSET ReportNames
  /\ deliveries \in 0 .. MaxDeliveries /\ networkFaults \in 0 .. MaxNetworkFaults
  /\ RowsPaidFor

LEMMA IngestNumbers ==
  /\ MaxIngestAttempts \in Nat \ {0} /\ MaxDeliveries \in Nat /\ MaxNetworkFaults \in Nat
  /\ NoIngest \in IngestCall /\ NoIngest.at = "none"
<1>1. (CHOOSE p \in ReportNames : TRUE) \in ReportNames
  BY ReportAssumption DEF ReportNames
<1>2. 0 \in 0 .. MaxIngestAttempts
  BY ReportAssumption
<1> QED BY <1>1, <1>2, ReportAssumption DEF NoIngest, IngestCall, IngestPlaces

LEMMA StoringCounted ==
  ASSUME NEW S \in SUBSET Calls
  PROVE  IsFiniteSet(S) /\ Cardinality(S) \in Nat
BY ReportAssumption, FS_Subset, FS_CardinalityType

\* One call moves: what may still be stored changes by that call.
LEMMA StoringChanges ==
  ASSUME IngestTypeInv, NEW c \in Calls, NEW call \in IngestCall, ingest' = [ingest EXCEPT ![c] = call]
  PROVE  /\ Cardinality(Storing) \in Nat /\ Cardinality(Storing') \in Nat
         /\ Cardinality(Storing') <= Cardinality(Storing) + 1
         /\ c \in Storing => Cardinality(Storing') <= Cardinality(Storing)
         /\ call.at \notin {"byFingerprint", "byExternalId", "inserting"} =>
              Cardinality(Storing') = IF c \in Storing THEN Cardinality(Storing) - 1
                                                       ELSE Cardinality(Storing)
<1>0. Storing \in SUBSET Calls /\ Storing' \in SUBSET Calls
  BY DEF Storing
<1>1. Storing' = IF call.at \in {"byFingerprint", "byExternalId", "inserting"}
                   THEN Storing \cup {c} ELSE Storing \ {c}
  BY DEF IngestTypeInv, Storing
<1> HIDE DEF Storing
<1>2. IsFiniteSet(Storing) /\ Cardinality(Storing) \in Nat /\ Cardinality(Storing') \in Nat
  BY <1>0, StoringCounted
<1>3. Cardinality(Storing \cup {c}) = IF c \in Storing THEN Cardinality(Storing) ELSE Cardinality(Storing) + 1
  BY <1>2, FS_AddElement
<1>4. Cardinality(Storing \ {c}) = IF c \in Storing THEN Cardinality(Storing) - 1 ELSE Cardinality(Storing)
  BY <1>2, FS_RemoveElement
<1>5. CASE call.at \in {"byFingerprint", "byExternalId", "inserting"}
  <2>1. Cardinality(Storing') = IF c \in Storing THEN Cardinality(Storing) ELSE Cardinality(Storing) + 1
    BY <1>5, <1>1, <1>3
  <2> QED BY <2>1, <1>2, <1>5
<1>6. CASE call.at \notin {"byFingerprint", "byExternalId", "inserting"}
  <2>1. Cardinality(Storing') = IF c \in Storing THEN Cardinality(Storing) - 1 ELSE Cardinality(Storing)
    BY <1>6, <1>1, <1>4
  <2> QED BY <2>1, <1>2, <1>6
<1> QED BY <1>5, <1>6

\* What a step stores of a report, and what it counts
Stores(grown) == /\ stored' \in [ReportNames -> Nat]
                 /\ \A p \in ReportNames : stored'[p] <= stored[p] + grown

Pays(paid) == /\ met' \in SUBSET ReportNames
              /\ deliveries' \in 0 .. MaxDeliveries /\ networkFaults' \in 0 .. MaxNetworkFaults
              /\ deliveries' + networkFaults' = deliveries + networkFaults + paid

\* A call that has something to store does so, or goes on, or ends; what is
\* stored and begun anew is paid for.
LEMMA CallMoves ==
  ASSUME IngestTypeInv, NEW c \in Calls, NEW call \in IngestCall, ingest' = [ingest EXCEPT ![c] = call],
         NEW grown \in 0 .. 1, NEW paid \in 0 .. 1,
         Stores(grown), Pays(paid),
         \/ grown = 0 /\ paid = 1
         \/ grown = paid /\ c \in Storing
         \/ grown = paid /\ call.at \notin {"byFingerprint", "byExternalId", "inserting"}
         \/ grown = 1 /\ c \in Storing /\ call.at \notin {"byFingerprint", "byExternalId", "inserting"}
  PROVE  IngestTypeInv'
<1>1. PICK old \in Nat, new \in Nat : old = Cardinality(Storing) /\ new = Cardinality(Storing')
  BY StoringChanges
<1>2. new + grown <= old + paid
  <2>1. /\ new <= old + 1
        /\ c \in Storing => new <= old
        /\ call.at \notin {"byFingerprint", "byExternalId", "inserting"} =>
             new = IF c \in Storing THEN old - 1 ELSE old
    BY <1>1, StoringChanges
  <2>2. CASE grown = 0 /\ paid = 1
    BY <2>1, <2>2
  <2>3. CASE grown = paid /\ c \in Storing
    BY <2>1, <2>3
  <2>4. CASE grown = paid /\ call.at \notin {"byFingerprint", "byExternalId", "inserting"}
    BY <2>1, <2>4
  <2>5. CASE grown = 1 /\ c \in Storing /\ call.at \notin {"byFingerprint", "byExternalId", "inserting"}
    BY <2>1, <2>5
  <2> QED BY <2>2, <2>3, <2>4, <2>5
<1>3. PICK total \in Nat, later \in Nat :
        total = deliveries + networkFaults /\ later = deliveries' + networkFaults' /\ later = total + paid
  <2>1. deliveries \in Nat /\ networkFaults \in Nat
    BY IngestNumbers DEF IngestTypeInv
  <2>2. PICK total \in Nat : total = deliveries + networkFaults
    BY <2>1
  <2>3. deliveries' + networkFaults' = total + paid /\ total + paid \in Nat
    BY <2>2 DEF Pays
  <2> QED BY <2>2, <2>3
<1>4. ASSUME NEW p \in ReportNames PROVE stored'[p] + new <= later
  <2>1. stored[p] \in Nat /\ stored'[p] \in Nat /\ stored'[p] <= stored[p] + grown
    BY DEF IngestTypeInv, Stores
  <2>2. stored[p] + old <= total
    BY <1>1, <1>3 DEF IngestTypeInv, RowsPaidFor
  <2> QED BY <2>1, <2>2, <1>2, <1>3
<1>5. RowsPaidFor'
  BY <1>1, <1>3, <1>4 DEF RowsPaidFor
<1>6. ingest' \in [Calls -> IngestCall]
  BY DEF IngestTypeInv
<1> QED BY <1>5, <1>6 DEF IngestTypeInv, Stores, Pays

\* The entry of a call that moves
LEMMA CallGoes ==
  ASSUME IngestTypeInv, NEW c \in Calls, NEW from, NEW to \in IngestPlaces, Goes(c, from, to)
  PROVE  \E call \in IngestCall : call.at = to /\ ingest' = [ingest EXCEPT ![c] = call]
<1> DEFINE call == [ingest[c] EXCEPT !.at = to]
<1>1. ingest[c] \in IngestCall
  BY DEF IngestTypeInv
<1>2. call \in IngestCall /\ call.at = to
  BY <1>1 DEF IngestCall
<1>3. ingest' = [ingest EXCEPT ![c] = call]
  BY DEF Goes
<1> QED BY <1>2, <1>3

LEMMA NothingStored ==
  ASSUME IngestTypeInv, stored' = stored
  PROVE  Stores(0)
BY DEF IngestTypeInv, Stores

LEMMA RowStored ==
  ASSUME IngestTypeInv, NEW mine \in ReportNames, stored' = [stored EXCEPT ![mine] = @ + 1]
  PROVE  Stores(1)
BY DEF IngestTypeInv, Stores

LEMMA CountsHold ==
  ASSUME IngestTypeInv
  PROVE  /\ deliveries \in Nat /\ networkFaults \in Nat /\ met \in SUBSET ReportNames
         /\ deliveries \in 0 .. MaxDeliveries /\ networkFaults \in 0 .. MaxNetworkFaults
         /\ deliveries + networkFaults = deliveries + networkFaults + 0
         /\ \A c \in Calls : ingest[c] \in IngestCall /\ ReportOf(c) \in ReportNames
<1>1. \A c \in Calls : ingest[c] \in IngestCall /\ ReportOf(c) \in ReportNames
  BY DEF IngestTypeInv, IngestCall, ReportOf
<1> QED BY <1>1, IngestNumbers DEF IngestTypeInv

-----------------------------------------------------------------------------
(* Steps *)

LEMMA BeginTypes ==
  ASSUME IngestTypeInv, NEW c \in Calls, NEW p \in ReportNames, IngestReport(c, p)
  PROVE  IngestTypeInv'
<1> DEFINE call == [at |-> "byFingerprint", of |-> p, attempt |-> 1]
<1>1. call \in IngestCall
  BY IngestNumbers DEF IngestCall, IngestPlaces
<1>2. ingest' = [ingest EXCEPT ![c] = call]
  BY DEF IngestReport
<1> HIDE DEF call
<1>3. deliveries' = deliveries + 1 /\ deliveries < MaxDeliveries /\ stored' = stored /\ networkFaults' = networkFaults
  BY DEF IngestReport
<1>4. met' \in SUBSET ReportNames
  BY CountsHold DEF IngestReport
<1>5. Pays(1)
  BY <1>3, <1>4, CountsHold, IngestNumbers DEF Pays
<1>6. Stores(0)
  BY <1>3, NothingStored
<1>7. PICK g \in 0 .. 1, d \in 0 .. 1 : g = 0 /\ d = 1
  OBVIOUS
<1>8. Stores(g) /\ Pays(d)
  BY <1>5, <1>6, <1>7
<1> QED BY <1>1, <1>2, <1>7, <1>8, CallMoves

\* A step that stores nothing and takes none of the calls that may not store back.
LEMMA LookTypes ==
  ASSUME IngestTypeInv, NEW c \in Calls, NEW call \in IngestCall, ingest' = [ingest EXCEPT ![c] = call],
         UNCHANGED <<stored, met, deliveries, networkFaults>>,
         c \in Storing \/ call.at \notin {"byFingerprint", "byExternalId", "inserting"}
  PROVE  IngestTypeInv'
<1>1. Stores(0)
  BY NothingStored
<1>2. Pays(0)
  BY CountsHold DEF Pays
<1>3. PICK g \in 0 .. 1 : g = 0
  OBVIOUS
<1>4. Stores(g) /\ Pays(g)
  BY <1>1, <1>2, <1>3
<1> QED BY <1>3, <1>4, CallMoves

LEMMA FindTypes ==
  ASSUME IngestTypeInv, NEW c \in Calls, FindByFingerprint(c) \/ FindByExternalId(c)
  PROVE  IngestTypeInv'
<1>1. PICK from \in {"byFingerprint", "byExternalId"}, to \in {"duplicate", "byExternalId", "inserting"} :
        Goes(c, from, to) /\ UNCHANGED <<stored, met, deliveries, networkFaults>>
  BY DEF FindByFingerprint, FindByExternalId
<1>2. to \in IngestPlaces /\ c \in Storing
  BY <1>1 DEF IngestPlaces, Goes, Storing
<1> QED BY <1>1, <1>2, CallGoes, LookTypes

LEMMA InsertTypes ==
  ASSUME IngestTypeInv, NEW c \in Calls, CreateFromNormalized(c)
  PROVE  IngestTypeInv'
<1>1. Goes(c, "inserting", "logging") /\ UNCHANGED <<met, deliveries, networkFaults>>
      /\ stored' = [stored EXCEPT ![ReportOf(c)] = @ + 1]
  BY DEF CreateFromNormalized
<1>2. "logging" \in IngestPlaces /\ c \in Storing
  BY <1>1 DEF IngestPlaces, Goes, Storing
<1>3. PICK call \in IngestCall : call.at = "logging" /\ ingest' = [ingest EXCEPT ![c] = call]
  BY <1>1, <1>2, CallGoes
<1>4. Stores(1)
  BY <1>1, CountsHold, RowStored
<1>5. Pays(0)
  BY <1>1, CountsHold DEF Pays
<1>6. PICK g \in 0 .. 1, d \in 0 .. 1 : g = 1 /\ d = 0
  OBVIOUS
<1>7. Stores(g) /\ Pays(d)
  BY <1>4, <1>5, <1>6
<1>8. call.at \notin {"byFingerprint", "byExternalId", "inserting"}
  BY <1>3
<1> QED BY <1>2, <1>3, <1>6, <1>7, <1>8, CallMoves

LEMMA EndTypes ==
  ASSUME IngestTypeInv, NEW c \in Calls, InsertConflicts(c) \/ RecordIngested(c)
  PROVE  IngestTypeInv'
<1>1. ingest' = [ingest EXCEPT ![c] = NoIngest] /\ UNCHANGED <<stored, met, deliveries, networkFaults>>
  BY DEF InsertConflicts, RecordIngested
<1> HIDE DEF NoIngest
<1> QED BY <1>1, IngestNumbers, LookTypes

LEMMA BreakTypes ==
  ASSUME IngestTypeInv, NEW c \in Calls, NetworkBreaks(c)
  PROVE  IngestTypeInv'
<1> DEFINE again == [ingest[c] EXCEPT !.at = "byFingerprint", !.attempt = ingest[c].attempt + 1]
<1>1. PICK call : call = IF ingest[c].attempt < MaxIngestAttempts THEN again ELSE NoIngest
  OBVIOUS
<1>2. ingest' = [ingest EXCEPT ![c] = call]
  BY <1>1 DEF NetworkBreaks
<1>3. call \in IngestCall
  <2>1. CASE ingest[c].attempt < MaxIngestAttempts
    <3>1. ingest[c] \in IngestCall
      BY CountsHold
    <3>2. ingest[c].attempt + 1 \in 0 .. MaxIngestAttempts /\ "byFingerprint" \in IngestPlaces
      BY <2>1, <3>1, IngestNumbers DEF IngestCall, IngestPlaces
    <3>3. again \in IngestCall
      BY <3>1, <3>2 DEF IngestCall
    <3> QED BY <3>3, <2>1, <1>1
  <2>2. CASE ~ (ingest[c].attempt < MaxIngestAttempts)
    BY <2>2, <1>1, IngestNumbers
  <2> QED BY <2>1, <2>2
<1> HIDE DEF again
<1>4. /\ networkFaults < MaxNetworkFaults /\ networkFaults' = networkFaults + 1
      /\ UNCHANGED <<met, deliveries>>
      /\ \/ stored' = stored
         \/ ingest[c].at = "inserting" /\ stored' = [stored EXCEPT ![ReportOf(c)] = @ + 1]
  BY DEF NetworkBreaks
<1>5. Pays(1)
  BY <1>4, CountsHold, IngestNumbers DEF Pays
<1>6. CASE stored' = stored
  <2>1. Stores(0)
    BY <1>6, NothingStored
  <2>2. PICK g \in 0 .. 1, d \in 0 .. 1 : g = 0 /\ d = 1
    OBVIOUS
  <2>3. Stores(g) /\ Pays(d)
    BY <2>1, <2>2, <1>5
  <2> QED BY <2>2, <2>3, <1>2, <1>3, CallMoves
<1>7. CASE ingest[c].at = "inserting" /\ stored' = [stored EXCEPT ![ReportOf(c)] = @ + 1]
  <2>1. Stores(1)
    BY <1>7, CountsHold, RowStored
  <2>2. c \in Storing
    BY <1>7 DEF Storing
  <2>3. PICK g \in 0 .. 1 : g = 1
    OBVIOUS
  <2>4. Stores(g) /\ Pays(g)
    BY <2>1, <2>3, <1>5
  <2> QED BY <2>2, <2>4, <1>2, <1>3, CallMoves
<1> QED BY <1>4, <1>6, <1>7

LEMMA IngestTypeInit == IngestInit => IngestTypeInv
<1> SUFFICES ASSUME IngestInit PROVE IngestTypeInv
  OBVIOUS
<1>1. \A c \in Calls : ingest[c] = NoIngest
  BY DEF IngestInit
<1>2. Storing = {}
  BY <1>1, IngestNumbers DEF Storing
<1>3. Cardinality(Storing) = 0
  BY <1>2, FS_EmptySet
<1>4. ingest \in [Calls -> IngestCall] /\ stored \in [ReportNames -> Nat] /\ \A p \in ReportNames : stored[p] = 0
  BY IngestNumbers DEF IngestInit
<1>5. deliveries = 0 /\ networkFaults = 0 /\ met = {}
  BY DEF IngestInit
<1> QED BY <1>3, <1>4, <1>5, IngestNumbers DEF IngestTypeInv, RowsPaidFor

LEMMA IngestTypeStep ==
  ASSUME IngestTypeInv, [IngestNext]_ingestVars
  PROVE  IngestTypeInv'
<1>1. CASE IngestNext
  BY <1>1, BeginTypes, FindTypes, InsertTypes, EndTypes, BreakTypes DEF IngestNext
<1>2. CASE UNCHANGED ingestVars
  BY <1>2 DEF ingestVars, IngestTypeInv, RowsPaidFor, Storing
<1> QED BY <1>1, <1>2

LEMMA IngestTypes == IngestTypeInv => IngestTypeOK
<1> SUFFICES ASSUME IngestTypeInv PROVE IngestTypeOK
  OBVIOUS
<1>1. PICK old \in Nat : old = Cardinality(Storing)
  BY StoringCounted DEF Storing
<1>2. ASSUME NEW p \in ReportNames PROVE stored[p] \in 0 .. MaxDeliveries + MaxNetworkFaults
  BY <1>1, IngestNumbers DEF IngestTypeInv, RowsPaidFor
<1>3. stored \in [ReportNames -> 0 .. MaxDeliveries + MaxNetworkFaults]
  BY <1>2 DEF IngestTypeInv
<1> QED BY <1>3 DEF IngestTypeInv, IngestTypeOK, IngestCall

\* The types of the state, for any values of the constants.
LEMMA IngestTypeCorrect == IngestSpec => []IngestTypeOK
<1>1. IngestTypeInv => IngestTypeOK
  BY IngestTypes
<1> QED BY <1>1, IngestTypeInit, IngestTypeStep, PTL DEF IngestSpec

-----------------------------------------------------------------------------
(***************************************************************************)
(* Alerts merged into incidents: any severities and alerts, any number of  *)
(* intakes at a time, any clock.                                           *)
(***************************************************************************)

RaiserState == [at : RaiserPlaces, priority : Nat, found : Nat, looked : Nat]

\* The open incidents of the window that no operator has touched
Joinable ==
  {i \in DOMAIN bridgeIncidents :
     /\ bridgeIncidents[i].source # "other" /\ bridgeIncidents[i].status = "open"
     /\ bridgeIncidents[i].inWindow /\ ~bridgeIncidents[i].touched}

NoneCreatedOver == \A i \in Joinable : OnlyEarlierLooks(i)

\* Whoever is about to create one looked before those that are open by now were there.
CreatorsLookedBefore ==
  \A r \in Raisers : raiser[r].at = "creating" => \A i \in Joinable : raiser[r].looked < i

\* An incident that no two calls crossed on is as severe as its worst alert, or the one
\* call that is about to raise it brings that alert.
Follows(i) ==
  ~bridgeIncidents[i].crossed =>
    /\ bridgeIncidents[i].severity <= bridgeIncidents[i].worst
    /\ bridgeIncidents[i].severity = bridgeIncidents[i].worst \/ EscalatingOn(i) # {}
    /\ \A r, s \in EscalatingOn(i) : r = s
    /\ \A r \in EscalatingOn(i) : raiser[r].priority = bridgeIncidents[i].worst

SeverityFollows == \A i \in DOMAIN bridgeIncidents : Follows(i)

IntakeInv == /\ IntakeTypeOK
             /\ raiser \in [Raisers -> RaiserState]
             /\ NoneCreatedOver /\ CreatorsLookedBefore /\ SeverityFollows

\* Replacing one incident keeps the list and the others.
LEMMA OneIncidentChanges ==
  ASSUME NEW list \in Seq(BridgeIncident), NEW i \in DOMAIN list, NEW incident \in BridgeIncident,
         NEW after, after = [list EXCEPT ![i] = incident]
  PROVE  /\ after \in Seq(BridgeIncident) /\ Len(after) = Len(list)
         /\ DOMAIN after = DOMAIN list
         /\ after[i] = incident /\ \A k \in DOMAIN list : k # i => after[k] = list[k]
OBVIOUS

\* What every step but an insert leaves of an incident.
Kept(b, c) == c \in BridgeIncident /\ c.source = b.source /\ c.looked = b.looked

\* What a statement that sets a column of an incident leaves of it.
LEMMA StatusChanges ==
  ASSUME NEW b \in BridgeIncident, NEW x \in {"open", "investigating", "resolved"},
         NEW c, c = [b EXCEPT !.status = x]
  PROVE  /\ Kept(b, c) /\ c.status = x /\ c.inWindow = b.inWindow /\ c.touched = b.touched
         /\ c.severity = b.severity /\ c.worst = b.worst /\ c.crossed = b.crossed
BY DEF BridgeIncident, Kept

LEMMA TouchChanges ==
  ASSUME NEW b \in BridgeIncident, NEW x \in {"open", "investigating", "resolved"},
         NEW c, c = [b EXCEPT !.status = x, !.touched = TRUE]
  PROVE  /\ Kept(b, c) /\ c.touched = TRUE
         /\ c.severity = b.severity /\ c.worst = b.worst /\ c.crossed = b.crossed
BY DEF BridgeIncident, Kept

LEMMA SeverityChanges ==
  ASSUME NEW b \in BridgeIncident, NEW x \in Severities,
         NEW c, c = [b EXCEPT !.severity = x]
  PROVE  /\ Kept(b, c) /\ c.status = b.status /\ c.inWindow = b.inWindow /\ c.touched = b.touched
         /\ c.severity = x /\ c.worst = b.worst /\ c.crossed = b.crossed
BY DEF BridgeIncident, Kept

LEMMA WindowChanges ==
  ASSUME NEW b \in BridgeIncident, NEW c, c = [b EXCEPT !.inWindow = FALSE]
  PROVE  /\ Kept(b, c) /\ c.status = b.status /\ c.inWindow = FALSE /\ c.touched = b.touched
         /\ c.severity = b.severity /\ c.worst = b.worst /\ c.crossed = b.crossed
BY DEF BridgeIncident, Kept

\* A set of naturals has a least member, and a greatest one if it is bounded.
LEMMA LeastNatural ==
  ASSUME NEW S \in SUBSET Nat, S # {}
  PROVE  \E x \in S : \A y \in S : x <= y
<1>1. PICK x \in S : \A y \in S : ~ (<<y, x>> \in OpToRel(<, Nat))
  BY NatLessThanWellFounded, WFMin
<1>2. \A y \in S : ~ (y < x)
  BY <1>1 DEF OpToRel
<1> QED BY <1>2

LEMMA GreatestNatural ==
  ASSUME NEW S \in SUBSET Nat, S # {}, NEW bound \in Nat, \A s \in S : s <= bound
  PROVE  \E x \in S : \A y \in S : y <= x
<1> DEFINE Below == {n \in Nat : bound - n \in S}
<1>1. PICK s \in S : TRUE
  OBVIOUS
<1>2. bound - s \in Nat /\ bound - (bound - s) = s
  BY <1>1
<1>3. bound - s \in Below
  BY <1>1, <1>2
<1>4. PICK x \in Below : \A y \in Below : x <= y
  BY <1>3, LeastNatural, Zenon
<1>5. ASSUME NEW y \in S PROVE y <= bound - x
  <2>1. bound - y \in Nat /\ bound - (bound - y) = y
    OBVIOUS
  <2>2. bound - y \in Below
    BY <2>1
  <2>3. x <= bound - y
    BY <2>2, <1>4, Zenon
  <2>4. x \in Nat
    BY <1>4
  <2> HIDE DEF Below
  <2> QED BY <2>3, <2>4
<1> QED BY <1>4, <1>5

LEMMA LatestIsOneOf ==
  ASSUME IntakeTypeOK, Matching # {}
  PROVE  LatestOf(Matching) \in Matching
<1>1. Matching \in SUBSET Nat /\ Len(bridgeIncidents) \in Nat
      /\ \A i \in Matching : i <= Len(bridgeIncidents)
  BY DEF Matching, IntakeTypeOK
<1>2. \E i \in Matching : \A j \in Matching : j <= i
  BY <1>1, GreatestNatural
<1> QED BY <1>2 DEF LatestOf

LEMMA IntakeInitially == IntakeInit => IntakeInv
<1> SUFFICES ASSUME IntakeInit PROVE IntakeInv
  OBVIOUS
<1>1. bridgeIncidents = <<>> /\ bridgeIncidents \in Seq(BridgeIncident) /\ Len(bridgeIncidents) = 0
      /\ DOMAIN bridgeIncidents = {}
  BY DEF IntakeInit
<1>2. raiser \in [Raisers -> RaiserState]
      /\ \A r \in Raisers : raiser[r].at = "none" /\ raiser[r].looked = 0
  BY DEF IntakeInit, RaiserState, NoRaiser, RaiserPlaces
<1>3. IntakeTypeOK
  <2>1. 0 <= MaxIncidents /\ 0 \in 0 .. MaxIntakeFaults
    BY IntakeAssumption
  <2> QED BY <1>1, <1>2, <2>1 DEF IntakeInit, IntakeTypeOK, RaiserPlaces
<1>4. NoneCreatedOver /\ CreatorsLookedBefore /\ SeverityFollows
  BY <1>1, <1>2 DEF NoneCreatedOver, CreatorsLookedBefore, SeverityFollows, Joinable
<1> QED BY <1>2, <1>3, <1>4 DEF IntakeInv

\* What the types say of the state
LEMMA IntakeTyped ==
  ASSUME IntakeTypeOK
  PROVE  /\ bridgeIncidents \in Seq(BridgeIncident) /\ Len(bridgeIncidents) <= MaxIncidents
         /\ DOMAIN bridgeIncidents = 1 .. Len(bridgeIncidents) /\ Len(bridgeIncidents) \in Nat
         /\ \A i \in DOMAIN bridgeIncidents :
               /\ bridgeIncidents[i] \in BridgeIncident
               /\ bridgeIncidents[i].severity \in Severities /\ bridgeIncidents[i].severity \in Nat
               /\ bridgeIncidents[i].worst \in Severities /\ bridgeIncidents[i].worst \in Nat
               /\ bridgeIncidents[i].looked \in Nat
<1>1. Severities \subseteq Nat /\ MaxIncidents \in Nat
  BY IntakeAssumption
<1>2. /\ bridgeIncidents \in Seq(BridgeIncident) /\ Len(bridgeIncidents) <= MaxIncidents
      /\ DOMAIN bridgeIncidents = 1 .. Len(bridgeIncidents) /\ Len(bridgeIncidents) \in Nat
      /\ \A i \in DOMAIN bridgeIncidents : bridgeIncidents[i] \in BridgeIncident
  BY DEF IntakeTypeOK
<1>3. ASSUME NEW i \in DOMAIN bridgeIncidents
      PROVE  /\ bridgeIncidents[i].severity \in Severities /\ bridgeIncidents[i].severity \in Nat
             /\ bridgeIncidents[i].worst \in Severities /\ bridgeIncidents[i].worst \in Nat
             /\ bridgeIncidents[i].looked \in Nat
  <2>1. bridgeIncidents[i] \in BridgeIncident
    BY <1>2
  <2>2. bridgeIncidents[i].severity \in Severities /\ bridgeIncidents[i].worst \in Severities
    BY <2>1 DEF BridgeIncident
  <2>3. bridgeIncidents[i].looked \in 0 .. MaxIncidents
    BY <2>1 DEF BridgeIncident
  <2>4. \A n \in 0 .. MaxIncidents : n \in Nat
    OBVIOUS
  <2> QED BY <2>2, <2>3, <2>4, <1>1
<1> QED BY <1>1, <1>2, <1>3

\* The raisers that a step of r leaves alone
OthersStay(r) == \A s \in Raisers : s # r => raiser'[s] = raiser[s]

LEMMA RaiserMoves ==
  ASSUME raiser \in [Raisers -> RaiserState], NEW r \in Raisers, NEW next \in RaiserState,
         raiser' = [raiser EXCEPT ![r] = next]
  PROVE  /\ raiser' \in [Raisers -> RaiserState]
         /\ raiser'[r] = next /\ OthersStay(r)
BY DEF OthersStay

LEMMA NoRaiserIsOne ==
  NoRaiser \in RaiserState /\ NoRaiser.at = "none" /\ NoRaiser.looked = 0
BY DEF NoRaiser, RaiserState, RaiserPlaces

RaiserTyped(r) ==
  /\ raiser[r].at \in RaiserPlaces
  /\ raiser[r].at \in {"escalating", "marking"} => raiser[r].found \in DOMAIN bridgeIncidents
  /\ raiser[r].at # "none" => raiser[r].priority \in Severities
  /\ raiser[r].looked \in 0 .. Len(bridgeIncidents)

\* A step of r keeps the types when it keeps its own and the list grows at most.
LEMMA IntakeTypesKept ==
  ASSUME IntakeTypeOK, NEW r \in Raisers, OthersStay(r), RaiserTyped(r)',
         bridgeIncidents' \in Seq(BridgeIncident), Len(bridgeIncidents') <= MaxIncidents,
         Len(bridgeIncidents) <= Len(bridgeIncidents'), intakeFaults' \in 0 .. MaxIntakeFaults
  PROVE  IntakeTypeOK'
<1>1. /\ DOMAIN bridgeIncidents = 1 .. Len(bridgeIncidents) /\ Len(bridgeIncidents) \in Nat
      /\ DOMAIN bridgeIncidents' = 1 .. Len(bridgeIncidents') /\ Len(bridgeIncidents') \in Nat
  BY IntakeTyped
<1>2. ASSUME NEW s \in Raisers PROVE RaiserTyped(s)'
  <2>1. CASE s = r
    BY <2>1
  <2>2. CASE s # r
    <3>1. RaiserTyped(s) /\ raiser'[s] = raiser[s]
      BY <2>2 DEF IntakeTypeOK, RaiserTyped, OthersStay
    <3> QED BY <3>1, <1>1 DEF RaiserTyped
  <2> QED BY <2>1, <2>2
<1> QED BY <1>2 DEF IntakeTypeOK, RaiserTyped

\* Every incident keeps its place and its looked, and none becomes joinable.
NoneJoins ==
  /\ DOMAIN bridgeIncidents' = DOMAIN bridgeIncidents
  /\ \A k \in DOMAIN bridgeIncidents : bridgeIncidents'[k].looked = bridgeIncidents[k].looked
  /\ Joinable' \subseteq Joinable

LEMMA NoneJoinsKeeps ==
  ASSUME NoneJoins, NoneCreatedOver, CreatorsLookedBefore,
         \A r \in Raisers : raiser'[r].at = "creating" =>
            raiser[r].at = "creating" /\ raiser'[r].looked = raiser[r].looked
  PROVE  NoneCreatedOver' /\ CreatorsLookedBefore'
BY DEF NoneJoins, NoneCreatedOver, CreatorsLookedBefore, OnlyEarlierLooks

\* Changing one incident, status and window to nothing that can be joined
LEMMA ChangeJoinsNone ==
  ASSUME NEW i \in DOMAIN bridgeIncidents, DOMAIN bridgeIncidents' = DOMAIN bridgeIncidents,
         Kept(bridgeIncidents[i], bridgeIncidents'[i]),
         \/ bridgeIncidents'[i].touched
         \/ bridgeIncidents'[i].status # "open"
         \/ ~bridgeIncidents'[i].inWindow
         \/ /\ bridgeIncidents'[i].status = bridgeIncidents[i].status
            /\ bridgeIncidents'[i].inWindow = bridgeIncidents[i].inWindow
            /\ bridgeIncidents'[i].touched = bridgeIncidents[i].touched,
         \A k \in DOMAIN bridgeIncidents : k # i => bridgeIncidents'[k] = bridgeIncidents[k]
  PROVE  NoneJoins
<1>1. \A k \in Joinable' : k \in Joinable
  BY DEF Joinable, Kept
<1> QED BY <1>1 DEF NoneJoins, Kept

\* An incident that keeps severity, worst and crossed, and whose escalations stay.
LEMMA FollowsKept ==
  ASSUME NEW k, Follows(k), EscalatingOn(k)' = EscalatingOn(k),
         \A s \in EscalatingOn(k) : raiser'[s].priority = raiser[s].priority,
         bridgeIncidents'[k].severity = bridgeIncidents[k].severity,
         bridgeIncidents'[k].worst = bridgeIncidents[k].worst,
         bridgeIncidents'[k].crossed = bridgeIncidents[k].crossed
  PROVE  Follows(k)'
BY DEF Follows

\* A step of r that is in no escalation of k before or after
LEMMA EscalatingStays ==
  ASSUME NEW r \in Raisers, OthersStay(r), NEW k,
         raiser[r].at = "escalating" => raiser[r].found # k,
         raiser'[r].at = "escalating" => raiser'[r].found # k
  PROVE  /\ EscalatingOn(k)' = EscalatingOn(k)
         /\ \A s \in EscalatingOn(k) : raiser'[s].priority = raiser[s].priority
BY DEF EscalatingOn, OthersStay

LEMMA FindNoneStep ==
  ASSUME IntakeInv, NEW r \in Raisers, NEW priority \in Severities,
         raiser[r].at = "none", FindNone(r, priority), UNCHANGED intakeFaults
  PROVE  IntakeInv'
<1> DEFINE next == [at |-> "creating", priority |-> priority, found |-> 0,
                    looked |-> Len(bridgeIncidents)]
<1>1. Matching = {} /\ raiser' = [raiser EXCEPT ![r] = next] /\ UNCHANGED bridgeIncidents
  BY DEF FindNone
<1>2. /\ bridgeIncidents \in Seq(BridgeIncident) /\ Len(bridgeIncidents) <= MaxIncidents
      /\ Len(bridgeIncidents) \in Nat /\ DOMAIN bridgeIncidents = 1 .. Len(bridgeIncidents)
      /\ \A i \in DOMAIN bridgeIncidents : bridgeIncidents[i] \in BridgeIncident
  BY IntakeTyped DEF IntakeInv
<1>3. /\ next \in RaiserState /\ next.at = "creating" /\ next.priority = priority
      /\ next.looked = Len(bridgeIncidents)
  BY <1>2, IntakeAssumption DEF RaiserState, RaiserPlaces
<1> HIDE DEF next
<1>4. raiser' \in [Raisers -> RaiserState] /\ raiser'[r] = next /\ OthersStay(r)
  BY <1>1, <1>3, RaiserMoves DEF IntakeInv
<1>5. IntakeTypeOK'
  <2>1. RaiserTyped(r)'
    BY <1>1, <1>2, <1>3, <1>4 DEF RaiserTyped, RaiserPlaces
  <2> QED BY <2>1, <1>1, <1>2, <1>4, IntakeTypesKept DEF IntakeInv, IntakeTypeOK
<1>6. Joinable = {} /\ Joinable' = {}
  <2>1. Joinable \subseteq Matching
    BY <1>2 DEF Joinable, Matching, BridgeIncident, SourceTypes
  <2> QED BY <2>1, <1>1 DEF Joinable
<1>7. SeverityFollows'
  <2>1. ASSUME NEW k \in DOMAIN bridgeIncidents PROVE Follows(k)'
    <3>1. Follows(k)
      BY DEF IntakeInv, SeverityFollows
    <3> QED BY <3>1, <1>1, <1>3, <1>4, EscalatingStays, FollowsKept
  <2> QED BY <2>1, <1>1 DEF SeverityFollows
<1> QED BY <1>4, <1>5, <1>6, <1>7 DEF IntakeInv, NoneCreatedOver, CreatorsLookedBefore

LEMMA FindAsSevereStep ==
  ASSUME IntakeInv, NEW r \in Raisers, NEW priority \in Severities,
         raiser[r].at = "none", FindAsSevere(r, priority), UNCHANGED intakeFaults
  PROVE  IntakeInv'
<1> DEFINE i == LatestOf(Matching)
           w == IF priority > bridgeIncidents[i].worst THEN priority ELSE bridgeIncidents[i].worst
           x == [bridgeIncidents[i] EXCEPT !.worst = w, !.crossed = bridgeIncidents[i].crossed]
<1>1. /\ Matching # {} /\ UNCHANGED raiser /\ ~(priority > bridgeIncidents[i].severity)
      /\ bridgeIncidents' = [bridgeIncidents EXCEPT ![i] = [bridgeIncidents[i] EXCEPT !.worst = w]]
  BY DEF FindAsSevere, Outranks
<1>2. /\ bridgeIncidents \in Seq(BridgeIncident) /\ Len(bridgeIncidents) <= MaxIncidents
      /\ Len(bridgeIncidents) \in Nat
  BY IntakeTyped DEF IntakeInv
<1>3. i \in DOMAIN bridgeIncidents
  BY <1>1, LatestIsOneOf DEF IntakeInv, Matching
<1> HIDE DEF i
<1>4. /\ bridgeIncidents[i] \in BridgeIncident /\ bridgeIncidents[i].severity \in Nat
      /\ bridgeIncidents[i].worst \in Severities /\ bridgeIncidents[i].worst \in Nat
      /\ priority \in Nat
  BY <1>3, IntakeTyped, IntakeAssumption DEF IntakeInv
<1>5. w \in Severities
  BY <1>4
<1>6. bridgeIncidents' = [bridgeIncidents EXCEPT ![i] = x]
  BY <1>1, <1>4 DEF BridgeIncident
<1> HIDE DEF w
<1>7. /\ Kept(bridgeIncidents[i], x) /\ x.status = bridgeIncidents[i].status
      /\ x.inWindow = bridgeIncidents[i].inWindow /\ x.touched = bridgeIncidents[i].touched
      /\ x.severity = bridgeIncidents[i].severity /\ x.worst = w
      /\ x.crossed = bridgeIncidents[i].crossed
  BY <1>4, <1>5 DEF BridgeIncident, Kept
<1> HIDE DEF x
<1>8. /\ bridgeIncidents' \in Seq(BridgeIncident) /\ Len(bridgeIncidents') = Len(bridgeIncidents)
      /\ DOMAIN bridgeIncidents' = DOMAIN bridgeIncidents
      /\ bridgeIncidents'[i] = x
      /\ \A k \in DOMAIN bridgeIncidents : k # i => bridgeIncidents'[k] = bridgeIncidents[k]
  BY <1>2, <1>3, <1>6, <1>7, OneIncidentChanges DEF Kept
<1>9. IntakeTypeOK'
  <2>1. RaiserTyped(r)'
    BY <1>1, <1>8 DEF IntakeInv, IntakeTypeOK, RaiserTyped
  <2> QED BY <2>1, <1>1, <1>2, <1>8, IntakeTypesKept DEF IntakeInv, IntakeTypeOK, OthersStay
<1>10. NoneCreatedOver' /\ CreatorsLookedBefore'
  <2>1. NoneJoins
    BY <1>3, <1>7, <1>8, ChangeJoinsNone
  <2> QED BY <2>1, <1>1, NoneJoinsKeeps DEF IntakeInv
<1>11. SeverityFollows'
  <2>1. ASSUME NEW k \in DOMAIN bridgeIncidents PROVE Follows(k)'
    <3>1. Follows(k) /\ EscalatingOn(k)' = EscalatingOn(k)
      BY <1>1 DEF IntakeInv, SeverityFollows, EscalatingOn
    <3>2. CASE k # i
      BY <3>1, <3>2, <1>1, <1>8, FollowsKept
    <3>3. CASE k = i /\ bridgeIncidents[i].crossed
      BY <3>1, <3>3, <1>7, <1>8 DEF Follows
    <3>4. CASE k = i /\ ~bridgeIncidents[i].crossed
      <4>1. bridgeIncidents[i].severity <= bridgeIncidents[i].worst
        BY <3>1, <3>4 DEF Follows
      <4>2. w = bridgeIncidents[i].worst
        BY <4>1, <1>1, <1>4 DEF w
      <4> QED BY <4>2, <3>1, <3>4, <1>1, <1>7, <1>8, FollowsKept
    <3> QED BY <3>2, <3>3, <3>4
  <2> QED BY <2>1, <1>8 DEF SeverityFollows
<1> QED BY <1>1, <1>9, <1>10, <1>11 DEF IntakeInv

LEMMA FindLessSevereStep ==
  ASSUME IntakeInv, NEW r \in Raisers, NEW priority \in Severities,
         raiser[r].at = "none", FindLessSevere(r, priority), UNCHANGED intakeFaults
  PROVE  IntakeInv'
<1> DEFINE i == LatestOf(Matching)
           w == IF priority > bridgeIncidents[i].worst THEN priority ELSE bridgeIncidents[i].worst
           c == bridgeIncidents[i].crossed \/ EscalatingOn(i) # {}
           x == [bridgeIncidents[i] EXCEPT !.worst = w, !.crossed = c]
           next == [at |-> "escalating", priority |-> priority, found |-> i, looked |-> 0]
<1>1. Matching # {} /\ priority > bridgeIncidents[i].severity
      /\ raiser' = [raiser EXCEPT ![r] = next]
  BY DEF FindLessSevere, Outranks
<1>2. /\ bridgeIncidents \in Seq(BridgeIncident) /\ Len(bridgeIncidents) <= MaxIncidents
      /\ Len(bridgeIncidents) \in Nat /\ DOMAIN bridgeIncidents = 1 .. Len(bridgeIncidents)
  BY IntakeTyped DEF IntakeInv
<1>3. i \in DOMAIN bridgeIncidents /\ i \in Nat
  BY <1>1, <1>2, LatestIsOneOf DEF IntakeInv, Matching
<1>4. /\ bridgeIncidents[i] \in BridgeIncident /\ bridgeIncidents[i].severity \in Nat
      /\ bridgeIncidents[i].worst \in Severities /\ bridgeIncidents[i].worst \in Nat
      /\ priority \in Nat
  BY <1>3, IntakeTyped, IntakeAssumption DEF IntakeInv
<1>5. bridgeIncidents' = [bridgeIncidents EXCEPT ![i] = x]
  <2>1. bridgeIncidents' = [[bridgeIncidents EXCEPT ![i] = [bridgeIncidents[i] EXCEPT !.worst = w]]
             EXCEPT ![i] = [[bridgeIncidents[i] EXCEPT !.worst = w] EXCEPT !.crossed = c]]
    BY <1>2, <1>3, <1>4 DEF FindLessSevere, BridgeIncident
  <2> QED BY <2>1, <1>2, <1>3, <1>4 DEF BridgeIncident
<1>6. /\ next \in RaiserState /\ next.at = "escalating" /\ next.priority = priority
      /\ next.found = i /\ next.looked = 0
  BY <1>3, <1>4 DEF RaiserState, RaiserPlaces
<1> HIDE DEF i, next
<1>7. w \in Severities /\ w \in Nat /\ c \in BOOLEAN
  BY <1>4 DEF BridgeIncident
<1> HIDE DEF w, c
<1>8. /\ Kept(bridgeIncidents[i], x) /\ x.status = bridgeIncidents[i].status
      /\ x.inWindow = bridgeIncidents[i].inWindow /\ x.touched = bridgeIncidents[i].touched
      /\ x.severity = bridgeIncidents[i].severity /\ x.worst = w /\ x.crossed = c
  BY <1>4, <1>7 DEF BridgeIncident, Kept
<1> HIDE DEF x
<1>9. /\ bridgeIncidents' \in Seq(BridgeIncident) /\ Len(bridgeIncidents') = Len(bridgeIncidents)
      /\ DOMAIN bridgeIncidents' = DOMAIN bridgeIncidents
      /\ bridgeIncidents'[i] = x
      /\ \A k \in DOMAIN bridgeIncidents : k # i => bridgeIncidents'[k] = bridgeIncidents[k]
  BY <1>2, <1>3, <1>5, <1>8, OneIncidentChanges DEF Kept
<1>10. raiser' \in [Raisers -> RaiserState] /\ raiser'[r] = next /\ OthersStay(r)
  BY <1>1, <1>6, RaiserMoves DEF IntakeInv
<1>11. IntakeTypeOK'
  <2>1. RaiserTyped(r)'
    BY <1>2, <1>3, <1>6, <1>9, <1>10 DEF RaiserTyped, RaiserPlaces
  <2> QED BY <2>1, <1>2, <1>9, <1>10, IntakeTypesKept DEF IntakeInv, IntakeTypeOK
<1>12. NoneCreatedOver' /\ CreatorsLookedBefore'
  <2>1. NoneJoins
    BY <1>3, <1>8, <1>9, ChangeJoinsNone
  <2>2. \A s \in Raisers : raiser'[s].at = "creating" =>
           raiser[s].at = "creating" /\ raiser'[s].looked = raiser[s].looked
    BY <1>6, <1>10 DEF OthersStay
  <2> QED BY <2>1, <2>2, NoneJoinsKeeps DEF IntakeInv
<1>13. SeverityFollows'
  <2>1. ASSUME NEW k \in DOMAIN bridgeIncidents PROVE Follows(k)'
    <3>1. Follows(k)
      BY DEF IntakeInv, SeverityFollows
    <3>2. CASE k # i
      BY <3>1, <3>2, <1>6, <1>9, <1>10, EscalatingStays, FollowsKept
    <3>3. CASE k = i /\ c
      BY <3>3, <1>8, <1>9 DEF Follows
    <3>4. CASE k = i /\ ~c
      <4>1. ~bridgeIncidents[i].crossed /\ EscalatingOn(i) = {}
        BY <3>4, <1>4 DEF c
      <4>2. bridgeIncidents[i].severity = bridgeIncidents[i].worst
        BY <4>1, <3>1, <3>4 DEF Follows
      <4>3. w = priority
        BY <4>2, <1>1 DEF w
      <4>4. EscalatingOn(k)' = {r}
        BY <3>4, <4>1, <1>6, <1>10 DEF EscalatingOn, OthersStay
      <4>5. bridgeIncidents'[k].severity <= bridgeIncidents'[k].worst
        BY <3>4, <4>3, <1>1, <1>4, <1>8, <1>9
      <4> QED BY <4>3, <4>4, <4>5, <3>4, <1>6, <1>8, <1>9, <1>10 DEF Follows
    <3> QED BY <3>2, <3>3, <3>4
  <2> QED BY <2>1, <1>9 DEF SeverityFollows
<1> QED BY <1>10, <1>11, <1>12, <1>13 DEF IntakeInv

\* An incident is inserted, by the call of r that is creating, or by an operator.
LEMMA InsertStep ==
  ASSUME IntakeInv, NEW source \in SourceTypes, NEW severity \in Severities,
         NEW looked \in 0 .. Len(bridgeIncidents), Insert(source, severity, looked),
         \A i \in Joinable : looked < i
  PROVE  /\ bridgeIncidents' \in Seq(BridgeIncident) /\ Len(bridgeIncidents') <= MaxIncidents
         /\ Len(bridgeIncidents') = Len(bridgeIncidents) + 1
         /\ NoneCreatedOver'
         /\ \A i \in Joinable' : i \in Joinable \/ i = Len(bridgeIncidents) + 1
         /\ \A k \in DOMAIN bridgeIncidents : bridgeIncidents'[k] = bridgeIncidents[k]
         /\ DOMAIN bridgeIncidents' = DOMAIN bridgeIncidents \cup {Len(bridgeIncidents) + 1}
         /\ bridgeIncidents'[Len(bridgeIncidents) + 1].severity = severity
         /\ bridgeIncidents'[Len(bridgeIncidents) + 1].worst = severity
<1> DEFINE n == Len(bridgeIncidents) + 1
           x == [source |-> source, status |-> "open", severity |-> severity, inWindow |-> TRUE,
                 worst |-> severity, touched |-> FALSE, crossed |-> FALSE, looked |-> looked]
<1>1. /\ bridgeIncidents \in Seq(BridgeIncident) /\ Len(bridgeIncidents) < MaxIncidents
      /\ Len(bridgeIncidents) \in Nat /\ DOMAIN bridgeIncidents = 1 .. Len(bridgeIncidents)
      /\ bridgeIncidents' = Append(bridgeIncidents, x) /\ MaxIncidents \in Nat
      /\ \A k \in DOMAIN bridgeIncidents : bridgeIncidents[k].looked \in Nat
  BY IntakeTyped, IntakeAssumption DEF IntakeInv, Insert
<1>2. /\ x \in BridgeIncident /\ x.looked = looked /\ x.severity = severity /\ x.worst = severity
  BY <1>1 DEF BridgeIncident
<1> HIDE DEF x
<1>3. /\ bridgeIncidents' \in Seq(BridgeIncident) /\ Len(bridgeIncidents') = n
      /\ DOMAIN bridgeIncidents' = DOMAIN bridgeIncidents \cup {n} /\ n \notin DOMAIN bridgeIncidents
      /\ bridgeIncidents'[n] = x
      /\ \A k \in DOMAIN bridgeIncidents : bridgeIncidents'[k] = bridgeIncidents[k]
  BY <1>1, <1>2
<1>4. \A i \in Joinable' : i \in Joinable \/ i = n
  BY <1>3 DEF Joinable
<1>5. NoneCreatedOver'
  <2> SUFFICES ASSUME NEW i \in Joinable', NEW j \in DOMAIN bridgeIncidents', j > i
               PROVE  bridgeIncidents'[j].looked < i
    BY DEF NoneCreatedOver, OnlyEarlierLooks
  <2>1. i \in Joinable
    <3>1. j <= n /\ j \in Nat
      BY <1>1, <1>3
    <3> QED BY <3>1, <1>1, <1>4
  <2>2. CASE j = n
    BY <2>1, <2>2, <1>2, <1>3
  <2>3. CASE j \in DOMAIN bridgeIncidents
    BY <2>1, <2>3, <1>3 DEF IntakeInv, NoneCreatedOver, OnlyEarlierLooks
  <2> QED BY <2>2, <2>3, <1>3
<1> QED BY <1>1, <1>2, <1>3, <1>4, <1>5

\* What the insert leaves to show: the raisers and the severities.
LEMMA InsertKeeps ==
  ASSUME IntakeInv, IntakeTypeOK', raiser' \in [Raisers -> RaiserState], NoneCreatedOver',
         \A i \in Joinable' : i \in Joinable \/ i = Len(bridgeIncidents) + 1,
         \A k \in DOMAIN bridgeIncidents : bridgeIncidents'[k] = bridgeIncidents[k],
         DOMAIN bridgeIncidents' = DOMAIN bridgeIncidents \cup {Len(bridgeIncidents) + 1},
         bridgeIncidents'[Len(bridgeIncidents) + 1].severity \in Nat,
         bridgeIncidents'[Len(bridgeIncidents) + 1].severity =
           bridgeIncidents'[Len(bridgeIncidents) + 1].worst,
         \A r \in Raisers : raiser'[r] = raiser[r] \/ (raiser[r].at = "creating" /\ raiser'[r].at = "none")
  PROVE  IntakeInv'
<1>1. /\ Len(bridgeIncidents) \in Nat /\ DOMAIN bridgeIncidents = 1 .. Len(bridgeIncidents)
      /\ \A r \in Raisers : raiser[r].looked \in 0 .. Len(bridgeIncidents)
      /\ \A r \in Raisers : raiser[r].at = "escalating" => raiser[r].found \in DOMAIN bridgeIncidents
      /\ CreatorsLookedBefore /\ SeverityFollows
  BY IntakeTyped DEF IntakeInv, IntakeTypeOK
<1>2. CreatorsLookedBefore'
  <2> SUFFICES ASSUME NEW r \in Raisers, raiser'[r].at = "creating", NEW i \in Joinable'
               PROVE  raiser'[r].looked < i
    BY DEF CreatorsLookedBefore
  <2>1. raiser'[r] = raiser[r]
    OBVIOUS
  <2>2. CASE i \in Joinable
    BY <2>1, <2>2, <1>1 DEF CreatorsLookedBefore
  <2>3. CASE i = Len(bridgeIncidents) + 1
    BY <2>1, <2>3, <1>1
  <2> QED BY <2>2, <2>3
<1>3. \A k : EscalatingOn(k)' = EscalatingOn(k)
             /\ \A s \in EscalatingOn(k) : raiser'[s].priority = raiser[s].priority
  BY DEF EscalatingOn
<1>4. ASSUME NEW k \in DOMAIN bridgeIncidents' PROVE Follows(k)'
  <2>1. CASE k \in DOMAIN bridgeIncidents
    BY <2>1, <1>1, <1>3, FollowsKept DEF SeverityFollows
  <2>2. CASE k = Len(bridgeIncidents) + 1
    <3>1. EscalatingOn(k)' = {}
      BY <2>2, <1>1, <1>3 DEF EscalatingOn
    <3> QED BY <2>2, <3>1 DEF Follows
  <2> QED BY <2>1, <2>2
<1> QED BY <1>2, <1>4 DEF IntakeInv, SeverityFollows

LEMMA CreateStep ==
  ASSUME IntakeInv, NEW r \in Raisers, CreateIncident(r)
  PROVE  IntakeInv'
<1>1. /\ raiser[r].at = "creating" /\ Insert("alert", raiser[r].priority, raiser[r].looked)
      /\ raiser' = [raiser EXCEPT ![r] = NoRaiser] /\ UNCHANGED intakeFaults
  BY DEF CreateIncident, RaiserEnds
<1>2. /\ raiser[r].priority \in Severities /\ raiser[r].looked \in 0 .. Len(bridgeIncidents)
      /\ intakeFaults \in 0 .. MaxIntakeFaults /\ Len(bridgeIncidents) \in Nat
      /\ \A i \in Joinable : raiser[r].looked < i
  BY <1>1, IntakeTyped DEF IntakeInv, IntakeTypeOK, CreatorsLookedBefore
<1>3. raiser' \in [Raisers -> RaiserState] /\ raiser'[r] = NoRaiser /\ OthersStay(r)
  BY <1>1, NoRaiserIsOne, RaiserMoves DEF IntakeInv
<1>4. "alert" \in SourceTypes
  BY DEF SourceTypes
<1>5. /\ bridgeIncidents' \in Seq(BridgeIncident) /\ Len(bridgeIncidents') <= MaxIncidents
      /\ Len(bridgeIncidents') = Len(bridgeIncidents) + 1
      /\ NoneCreatedOver'
      /\ \A i \in Joinable' : i \in Joinable \/ i = Len(bridgeIncidents) + 1
      /\ \A k \in DOMAIN bridgeIncidents : bridgeIncidents'[k] = bridgeIncidents[k]
      /\ DOMAIN bridgeIncidents' = DOMAIN bridgeIncidents \cup {Len(bridgeIncidents) + 1}
      /\ bridgeIncidents'[Len(bridgeIncidents) + 1].severity \in Nat
      /\ bridgeIncidents'[Len(bridgeIncidents) + 1].severity =
           bridgeIncidents'[Len(bridgeIncidents) + 1].worst
  BY <1>1, <1>2, <1>4, InsertStep, IntakeAssumption
<1>6. IntakeTypeOK'
  <2>1. RaiserTyped(r)'
    BY <1>2, <1>3, <1>5, NoRaiserIsOne DEF RaiserTyped, RaiserPlaces
  <2> QED BY <2>1, <1>1, <1>2, <1>3, <1>5, IntakeTypesKept DEF IntakeInv
<1>7. \A s \in Raisers :
         raiser'[s] = raiser[s] \/ (raiser[s].at = "creating" /\ raiser'[s].at = "none")
  BY <1>1, <1>3, NoRaiserIsOne DEF OthersStay
<1> QED BY <1>3, <1>5, <1>6, <1>7, InsertKeeps

LEMMA ReportStep ==
  ASSUME IntakeInv, NEW source \in {"null", "other"}, NEW severity \in Severities,
         ReportIncident(source, severity)
  PROVE  IntakeInv'
<1>1. Insert(source, severity, 0) /\ UNCHANGED <<raiser, intakeFaults>>
  BY DEF ReportIncident
<1>2. /\ 0 \in 0 .. Len(bridgeIncidents) /\ intakeFaults \in 0 .. MaxIntakeFaults
      /\ Len(bridgeIncidents) \in Nat
      /\ \A i \in Joinable : 0 < i
  BY IntakeTyped DEF IntakeInv, IntakeTypeOK, Joinable
<1>3. source \in SourceTypes
  BY DEF SourceTypes
<1>4. /\ bridgeIncidents' \in Seq(BridgeIncident) /\ Len(bridgeIncidents') <= MaxIncidents
      /\ Len(bridgeIncidents') = Len(bridgeIncidents) + 1
      /\ NoneCreatedOver'
      /\ \A i \in Joinable' : i \in Joinable \/ i = Len(bridgeIncidents) + 1
      /\ \A k \in DOMAIN bridgeIncidents : bridgeIncidents'[k] = bridgeIncidents[k]
      /\ DOMAIN bridgeIncidents' = DOMAIN bridgeIncidents \cup {Len(bridgeIncidents) + 1}
      /\ bridgeIncidents'[Len(bridgeIncidents) + 1].severity \in Nat
      /\ bridgeIncidents'[Len(bridgeIncidents) + 1].severity =
           bridgeIncidents'[Len(bridgeIncidents) + 1].worst
  <2>1. severity \in Nat
    BY IntakeAssumption
  <2>2. PICK looked \in 0 .. Len(bridgeIncidents) : looked = 0
    BY <1>2
  <2>3. Insert(source, severity, looked) /\ \A i \in Joinable : looked < i
    BY <1>1, <1>2, <2>2
  <2>4. /\ bridgeIncidents' \in Seq(BridgeIncident) /\ Len(bridgeIncidents') <= MaxIncidents
        /\ Len(bridgeIncidents') = Len(bridgeIncidents) + 1
        /\ NoneCreatedOver'
        /\ \A i \in Joinable' : i \in Joinable \/ i = Len(bridgeIncidents) + 1
        /\ \A k \in DOMAIN bridgeIncidents : bridgeIncidents'[k] = bridgeIncidents[k]
        /\ DOMAIN bridgeIncidents' = DOMAIN bridgeIncidents \cup {Len(bridgeIncidents) + 1}
        /\ bridgeIncidents'[Len(bridgeIncidents) + 1].severity = severity
        /\ bridgeIncidents'[Len(bridgeIncidents) + 1].worst = severity
    BY <1>3, <2>3, InsertStep
  <2> QED BY <2>1, <2>4
<1>5. IntakeTypeOK'
  <2>1. \A r \in Raisers :
           /\ raiser[r].looked \in 0 .. Len(bridgeIncidents')
           /\ raiser[r].at \in {"escalating", "marking"} =>
                raiser[r].found \in DOMAIN bridgeIncidents'
    BY <1>2, <1>4 DEF IntakeInv, IntakeTypeOK
  <2> QED BY <2>1, <1>1, <1>2, <1>4 DEF IntakeInv, IntakeTypeOK
<1> QED BY <1>1, <1>4, <1>5, InsertKeeps DEF IntakeInv

LEMMA RaiseStep ==
  ASSUME IntakeInv, NEW r \in Raisers, UpdateIncidentSeverity(r)
  PROVE  IntakeInv'
<1> DEFINE i == raiser[r].found
           x == [bridgeIncidents[i] EXCEPT !.severity = raiser[r].priority]
           next == [raiser[r] EXCEPT !.at = "marking"]
<1>1. /\ raiser[r].at = "escalating" /\ bridgeIncidents' = [bridgeIncidents EXCEPT ![i] = x]
      /\ raiser' = [raiser EXCEPT ![r] = next] /\ UNCHANGED intakeFaults
  BY DEF UpdateIncidentSeverity
<1>2. /\ i \in DOMAIN bridgeIncidents /\ raiser[r].priority \in Severities
      /\ raiser[r].looked \in 0 .. Len(bridgeIncidents) /\ raiser[r] \in RaiserState
      /\ raiser[r].priority \in Nat
  BY <1>1, IntakeAssumption DEF IntakeInv, IntakeTypeOK
<1>3. /\ bridgeIncidents \in Seq(BridgeIncident) /\ Len(bridgeIncidents) <= MaxIncidents
      /\ bridgeIncidents[i] \in BridgeIncident /\ Len(bridgeIncidents) \in Nat
  BY <1>2, IntakeTyped DEF IntakeInv
<1>4. /\ Kept(bridgeIncidents[i], x) /\ x.status = bridgeIncidents[i].status
      /\ x.inWindow = bridgeIncidents[i].inWindow /\ x.touched = bridgeIncidents[i].touched
      /\ x.severity = raiser[r].priority /\ x.worst = bridgeIncidents[i].worst
      /\ x.crossed = bridgeIncidents[i].crossed
  BY <1>2, <1>3, SeverityChanges
<1>5. /\ next \in RaiserState /\ next.at = "marking" /\ next.found = i
      /\ next.priority = raiser[r].priority /\ next.looked = raiser[r].looked
  BY <1>2 DEF RaiserState, RaiserPlaces
<1> HIDE DEF x, next
<1>6. /\ bridgeIncidents' \in Seq(BridgeIncident) /\ Len(bridgeIncidents') = Len(bridgeIncidents)
      /\ DOMAIN bridgeIncidents' = DOMAIN bridgeIncidents
      /\ bridgeIncidents'[i] = x
      /\ \A k \in DOMAIN bridgeIncidents : k # i => bridgeIncidents'[k] = bridgeIncidents[k]
  <2> HIDE DEF i
  <2> QED BY <1>1, <1>2, <1>3, <1>4, OneIncidentChanges DEF Kept
<1>7. raiser' \in [Raisers -> RaiserState] /\ raiser'[r] = next /\ OthersStay(r)
  BY <1>1, <1>5, RaiserMoves DEF IntakeInv
<1>8. IntakeTypeOK'
  <2>1. RaiserTyped(r)'
    BY <1>2, <1>5, <1>6, <1>7 DEF RaiserTyped, RaiserPlaces
  <2> QED BY <2>1, <1>1, <1>3, <1>6, <1>7, IntakeTypesKept DEF IntakeInv, IntakeTypeOK
<1>9. NoneCreatedOver' /\ CreatorsLookedBefore'
  <2>1. NoneJoins
    BY <1>2, <1>4, <1>6, ChangeJoinsNone
  <2>2. \A s \in Raisers : raiser'[s].at = "creating" =>
           raiser[s].at = "creating" /\ raiser'[s].looked = raiser[s].looked
    BY <1>5, <1>7 DEF OthersStay
  <2> QED BY <2>1, <2>2, NoneJoinsKeeps DEF IntakeInv
<1>10. SeverityFollows'
  <2>1. ASSUME NEW k \in DOMAIN bridgeIncidents PROVE Follows(k)'
    <3>1. Follows(k)
      BY DEF IntakeInv, SeverityFollows
    <3>2. CASE k # i
      BY <3>1, <3>2, <1>5, <1>6, <1>7, EscalatingStays, FollowsKept
    <3>3. CASE k = i /\ bridgeIncidents[i].crossed
      BY <3>3, <1>4, <1>6 DEF Follows
    <3>4. CASE k = i /\ ~bridgeIncidents[i].crossed
      <4>1. r \in EscalatingOn(i)
        BY <1>1 DEF EscalatingOn
      <4>2. raiser[r].priority = bridgeIncidents[i].worst /\ \A s \in EscalatingOn(i) : s = r
        BY <4>1, <3>1, <3>4 DEF Follows
      <4>3. EscalatingOn(k)' = {}
        BY <3>4, <4>2, <1>5, <1>7 DEF EscalatingOn, OthersStay
      <4> QED BY <4>2, <4>3, <3>4, <1>2, <1>4, <1>6 DEF Follows
    <3> QED BY <3>2, <3>3, <3>4
  <2> QED BY <2>1, <1>6 DEF SeverityFollows
<1> QED BY <1>7, <1>8, <1>9, <1>10 DEF IntakeInv

LEMMA MarkStep ==
  ASSUME IntakeInv, NEW r \in Raisers, MarkInvestigating(r)
  PROVE  IntakeInv'
<1> DEFINE i == raiser[r].found
           x == [bridgeIncidents[i] EXCEPT !.status = "investigating"]
<1>1. /\ raiser[r].at = "marking" /\ bridgeIncidents' = [bridgeIncidents EXCEPT ![i] = x]
      /\ raiser' = [raiser EXCEPT ![r] = NoRaiser] /\ UNCHANGED intakeFaults
  BY DEF MarkInvestigating, RaiserEnds
<1>2. i \in DOMAIN bridgeIncidents
  BY <1>1 DEF IntakeInv, IntakeTypeOK
<1>3. /\ bridgeIncidents \in Seq(BridgeIncident) /\ Len(bridgeIncidents) <= MaxIncidents
      /\ bridgeIncidents[i] \in BridgeIncident /\ Len(bridgeIncidents) \in Nat
  BY <1>2, IntakeTyped DEF IntakeInv
<1>4. /\ Kept(bridgeIncidents[i], x) /\ x.status = "investigating"
      /\ x.severity = bridgeIncidents[i].severity /\ x.worst = bridgeIncidents[i].worst
      /\ x.crossed = bridgeIncidents[i].crossed
  BY <1>3, StatusChanges
<1> HIDE DEF x, i
<1>5. /\ bridgeIncidents' \in Seq(BridgeIncident) /\ Len(bridgeIncidents') = Len(bridgeIncidents)
      /\ DOMAIN bridgeIncidents' = DOMAIN bridgeIncidents
      /\ bridgeIncidents'[i] = x
      /\ \A k \in DOMAIN bridgeIncidents : k # i => bridgeIncidents'[k] = bridgeIncidents[k]
  BY <1>1, <1>2, <1>3, <1>4, OneIncidentChanges DEF Kept
<1>6. raiser' \in [Raisers -> RaiserState] /\ raiser'[r] = NoRaiser /\ OthersStay(r)
  BY <1>1, NoRaiserIsOne, RaiserMoves DEF IntakeInv
<1>7. IntakeTypeOK'
  <2>1. RaiserTyped(r)'
    BY <1>3, <1>5, <1>6, NoRaiserIsOne DEF RaiserTyped, RaiserPlaces
  <2> QED BY <2>1, <1>1, <1>3, <1>5, <1>6, IntakeTypesKept DEF IntakeInv, IntakeTypeOK
<1>8. NoneCreatedOver' /\ CreatorsLookedBefore'
  <2>1. NoneJoins
    BY <1>2, <1>4, <1>5, ChangeJoinsNone
  <2>2. \A s \in Raisers : raiser'[s].at = "creating" =>
           raiser[s].at = "creating" /\ raiser'[s].looked = raiser[s].looked
    BY <1>6, NoRaiserIsOne DEF OthersStay
  <2> QED BY <2>1, <2>2, NoneJoinsKeeps DEF IntakeInv
<1>9. SeverityFollows'
  <2>1. ASSUME NEW k \in DOMAIN bridgeIncidents PROVE Follows(k)'
    <3>1. Follows(k)
      BY DEF IntakeInv, SeverityFollows
    <3>2. /\ EscalatingOn(k)' = EscalatingOn(k)
          /\ \A s \in EscalatingOn(k) : raiser'[s].priority = raiser[s].priority
      BY <1>1, <1>6, NoRaiserIsOne, EscalatingStays
    <3> QED BY <3>1, <3>2, <1>4, <1>5, FollowsKept
  <2> QED BY <2>1, <1>5 DEF SeverityFollows
<1> QED BY <1>6, <1>7, <1>8, <1>9 DEF IntakeInv

LEMMA ThrowStep ==
  ASSUME IntakeInv, NEW r \in Raisers, DeduplicateThrows(r)
  PROVE  IntakeInv'
<1> DEFINE i == raiser[r].found
           x == [bridgeIncidents[i] EXCEPT !.worst = bridgeIncidents[i].severity,
                                           !.crossed = bridgeIncidents[i].crossed]
<1>1. /\ raiser[r].at # "none" /\ intakeFaults' \in 0 .. MaxIntakeFaults
      /\ raiser' = [raiser EXCEPT ![r] = NoRaiser]
  BY IntakeAssumption DEF DeduplicateThrows, RaiserEnds, Raising, IntakeInv, IntakeTypeOK
<1>2. /\ bridgeIncidents \in Seq(BridgeIncident) /\ Len(bridgeIncidents) <= MaxIncidents
      /\ Len(bridgeIncidents) \in Nat
  BY IntakeTyped DEF IntakeInv
<1>3. raiser' \in [Raisers -> RaiserState] /\ raiser'[r] = NoRaiser /\ OthersStay(r)
  BY <1>1, NoRaiserIsOne, RaiserMoves DEF IntakeInv
<1>4. \A s \in Raisers : raiser'[s].at = "creating" =>
         raiser[s].at = "creating" /\ raiser'[s].looked = raiser[s].looked
  BY <1>3, NoRaiserIsOne DEF OthersStay
<1>5. CASE raiser[r].at # "escalating"
  <2>1. UNCHANGED bridgeIncidents
    BY <1>5 DEF DeduplicateThrows
  <2>2. IntakeTypeOK'
    <3>1. RaiserTyped(r)'
      BY <2>1, <1>2, <1>3, NoRaiserIsOne DEF RaiserTyped, RaiserPlaces
    <3> QED BY <3>1, <2>1, <1>1, <1>2, <1>3, IntakeTypesKept DEF IntakeInv
  <2>3. NoneCreatedOver' /\ CreatorsLookedBefore'
    <3>1. NoneJoins
      BY <2>1 DEF NoneJoins, Joinable
    <3> QED BY <3>1, <1>4, NoneJoinsKeeps DEF IntakeInv
  <2>4. SeverityFollows'
    <3>1. ASSUME NEW k \in DOMAIN bridgeIncidents PROVE Follows(k)'
      <4>1. Follows(k)
        BY DEF IntakeInv, SeverityFollows
      <4> QED BY <4>1, <2>1, <1>3, <1>5, NoRaiserIsOne, EscalatingStays, FollowsKept
    <3> QED BY <3>1, <2>1 DEF SeverityFollows
  <2> QED BY <2>2, <2>3, <2>4, <1>3 DEF IntakeInv
<1>6. CASE raiser[r].at = "escalating"
  <2>1. i \in DOMAIN bridgeIncidents
    BY <1>6 DEF IntakeInv, IntakeTypeOK
  <2>2. /\ bridgeIncidents[i] \in BridgeIncident /\ bridgeIncidents[i].severity \in Severities
        /\ bridgeIncidents[i].severity \in Nat
    BY <2>1, IntakeTyped DEF IntakeInv
  <2>3. bridgeIncidents' = [bridgeIncidents EXCEPT ![i] = x]
    <3>1. bridgeIncidents' = [bridgeIncidents EXCEPT ![i] =
             [bridgeIncidents[i] EXCEPT !.worst = bridgeIncidents[i].severity]]
      BY <1>6 DEF DeduplicateThrows
    <3> QED BY <3>1, <2>2 DEF BridgeIncident
  <2>4. /\ Kept(bridgeIncidents[i], x) /\ x.status = bridgeIncidents[i].status
        /\ x.inWindow = bridgeIncidents[i].inWindow /\ x.touched = bridgeIncidents[i].touched
        /\ x.severity = bridgeIncidents[i].severity /\ x.worst = bridgeIncidents[i].severity
        /\ x.crossed = bridgeIncidents[i].crossed
    BY <2>2 DEF BridgeIncident, Kept
  <2> HIDE DEF x
  <2>5. /\ bridgeIncidents' \in Seq(BridgeIncident) /\ Len(bridgeIncidents') = Len(bridgeIncidents)
        /\ DOMAIN bridgeIncidents' = DOMAIN bridgeIncidents
        /\ bridgeIncidents'[i] = x
        /\ \A k \in DOMAIN bridgeIncidents : k # i => bridgeIncidents'[k] = bridgeIncidents[k]
    <3> HIDE DEF i
    <3> QED BY <2>1, <2>3, <2>4, <1>2, OneIncidentChanges DEF Kept
  <2>6. IntakeTypeOK'
    <3>1. RaiserTyped(r)'
      BY <2>5, <1>2, <1>3, NoRaiserIsOne DEF RaiserTyped, RaiserPlaces
    <3> QED BY <3>1, <2>5, <1>1, <1>2, <1>3, IntakeTypesKept DEF IntakeInv
  <2>7. NoneCreatedOver' /\ CreatorsLookedBefore'
    <3>1. NoneJoins
      BY <2>1, <2>4, <2>5, ChangeJoinsNone
    <3> QED BY <3>1, <1>4, NoneJoinsKeeps DEF IntakeInv
  <2>8. SeverityFollows'
    <3>1. ASSUME NEW k \in DOMAIN bridgeIncidents PROVE Follows(k)'
      <4>1. Follows(k)
        BY DEF IntakeInv, SeverityFollows
      <4>2. CASE k # i
        BY <4>1, <4>2, <2>5, <1>3, NoRaiserIsOne, EscalatingStays, FollowsKept
      <4>3. CASE k = i /\ bridgeIncidents[i].crossed
        BY <4>3, <2>4, <2>5 DEF Follows
      <4>4. CASE k = i /\ ~bridgeIncidents[i].crossed
        <5>1. r \in EscalatingOn(i)
          BY <1>6 DEF EscalatingOn
        <5>2. \A s \in EscalatingOn(i) : s = r
          BY <5>1, <4>1, <4>4 DEF Follows
        <5>3. EscalatingOn(k)' = {}
          BY <4>4, <5>2, <1>3, NoRaiserIsOne DEF EscalatingOn, OthersStay
        <5> QED BY <5>3, <4>4, <2>2, <2>4, <2>5 DEF Follows
      <4> QED BY <4>2, <4>3, <4>4
    <3> QED BY <3>1, <2>5 DEF SeverityFollows
  <2> QED BY <2>6, <2>7, <2>8, <1>3 DEF IntakeInv
<1> QED BY <1>5, <1>6

\* A step that leaves the raisers alone and changes neither severity, worst nor crossed.
LEMMA OutsideStep ==
  ASSUME IntakeInv, UNCHANGED <<raiser, intakeFaults>>,
         NEW i \in DOMAIN bridgeIncidents, NEW x, bridgeIncidents' = [bridgeIncidents EXCEPT ![i] = x],
         Kept(bridgeIncidents[i], x), x.touched \/ ~x.inWindow,
         x.severity = bridgeIncidents[i].severity, x.worst = bridgeIncidents[i].worst,
         x.crossed = bridgeIncidents[i].crossed
  PROVE  IntakeInv'
<1>1. /\ bridgeIncidents' \in Seq(BridgeIncident) /\ Len(bridgeIncidents') = Len(bridgeIncidents)
      /\ DOMAIN bridgeIncidents' = DOMAIN bridgeIncidents
      /\ bridgeIncidents'[i] = x
      /\ \A k \in DOMAIN bridgeIncidents : k # i => bridgeIncidents'[k] = bridgeIncidents[k]
  BY OneIncidentChanges DEF IntakeInv, IntakeTypeOK, Kept
<1>2. IntakeTypeOK'
  BY <1>1 DEF IntakeInv, IntakeTypeOK
<1>3. NoneCreatedOver' /\ CreatorsLookedBefore'
  <2>1. NoneJoins
    BY <1>1, ChangeJoinsNone
  <2> QED BY <2>1, NoneJoinsKeeps DEF IntakeInv
<1>4. SeverityFollows'
  <2>1. ASSUME NEW k \in DOMAIN bridgeIncidents PROVE Follows(k)'
    <3>1. Follows(k) /\ EscalatingOn(k)' = EscalatingOn(k)
      BY DEF IntakeInv, SeverityFollows, EscalatingOn
    <3> QED BY <3>1, <1>1, FollowsKept
  <2> QED BY <2>1, <1>1 DEF SeverityFollows
<1> QED BY <1>2, <1>3, <1>4 DEF IntakeInv

LEMMA IntakeStep == IntakeInv /\ [IntakeNext]_intakeVars => IntakeInv'
<1> SUFFICES ASSUME IntakeInv, [IntakeNext]_intakeVars PROVE IntakeInv'
  OBVIOUS
<1>1. \A i \in DOMAIN bridgeIncidents : bridgeIncidents[i] \in BridgeIncident
  BY IntakeTyped DEF IntakeInv
<1>2. ASSUME NEW r \in Raisers, NEW priority \in Severities, FindMatchingIncident(r, priority)
      PROVE  IntakeInv'
  BY <1>2, FindNoneStep, FindAsSevereStep, FindLessSevereStep DEF FindMatchingIncident
<1>3. ASSUME NEW i \in DOMAIN bridgeIncidents, NEW status \in {"open", "investigating", "resolved"},
             UpdateIncidentStatus(i, status)
      PROVE  IntakeInv'
  <2> DEFINE x == [bridgeIncidents[i] EXCEPT !.status = status, !.touched = TRUE]
  <2>1. bridgeIncidents' = [bridgeIncidents EXCEPT ![i] = x] /\ UNCHANGED <<raiser, intakeFaults>>
    BY <1>1, <1>3 DEF UpdateIncidentStatus, BridgeIncident
  <2>2. /\ Kept(bridgeIncidents[i], x) /\ x.touched = TRUE
        /\ x.severity = bridgeIncidents[i].severity /\ x.worst = bridgeIncidents[i].worst
        /\ x.crossed = bridgeIncidents[i].crossed
    BY <1>1, TouchChanges
  <2> QED BY <2>1, <2>2, OutsideStep
<1>4. ASSUME NEW i \in DOMAIN bridgeIncidents, LeavesWindow(i)
      PROVE  IntakeInv'
  <2> DEFINE x == [bridgeIncidents[i] EXCEPT !.inWindow = FALSE]
  <2>1. bridgeIncidents' = [bridgeIncidents EXCEPT ![i] = x] /\ UNCHANGED <<raiser, intakeFaults>>
    BY <1>4 DEF LeavesWindow
  <2>2. /\ Kept(bridgeIncidents[i], x) /\ x.inWindow = FALSE
        /\ x.severity = bridgeIncidents[i].severity /\ x.worst = bridgeIncidents[i].worst
        /\ x.crossed = bridgeIncidents[i].crossed
    BY <1>1, WindowChanges
  <2> QED BY <2>1, <2>2, OutsideStep
<1>5. CASE UNCHANGED intakeVars
  BY <1>5 DEF intakeVars, IntakeInv, IntakeTypeOK, Joinable, NoneCreatedOver, CreatorsLookedBefore,
              SeverityFollows, OnlyEarlierLooks, Follows, EscalatingOn
<1> QED BY <1>2, <1>3, <1>4, <1>5, CreateStep, RaiseStep, MarkStep, ThrowStep, ReportStep
        DEF IntakeNext

\* Alerts are merged, whatever overlaps: no call that could have found an open incident
\* of the window that no operator has touched creates another, and between calls every
\* incident that no two calls crossed on is as severe as the worst alert it has taken
\* (alertDeduplication.service.ts).
THEOREM IntakeMergesAlerts == IntakeSpec => [](DuplicatesOverlapped /\ SeverityFollowsAlerts)
<1>1. IntakeInv => DuplicatesOverlapped
  BY DEF IntakeInv, NoneCreatedOver, DuplicatesOverlapped, Joinable
<1>2. IntakeInv => SeverityFollowsAlerts
  <2>1. Raising = {} => \A i : EscalatingOn(i) = {}
    BY DEF Raising, EscalatingOn
  <2> QED BY <2>1 DEF IntakeInv, SeverityFollows, Follows, SeverityFollowsAlerts
<1> QED BY <1>1, <1>2, IntakeInitially, IntakeStep, PTL DEF IntakeSpec

\* The types of the state, for any values of the constants.
LEMMA IntakeTypeCorrect == IntakeSpec => []IntakeTypeOK
<1>1. IntakeInv => IntakeTypeOK
  BY DEF IntakeInv
<1> QED BY <1>1, IntakeInitially, IntakeStep, PTL DEF IntakeSpec

-----------------------------------------------------------------------------
(***************************************************************************)
(* The routing of alerts: any alerts, channels and rules, any outcomes of  *)
(* their deliveries.                                                       *)
(***************************************************************************)

RouteState ==
  [at : {"new", "primary", "fallback", "done", "filtered", "threw"},
   primary : SUBSET Channels, fallback : SUBSET Channels, suppresses : BOOLEAN]
TaskState == [at : TaskPlaces, status : TaskStatuses]

\* What an alert was served by has been served, and the audit tells of what ended.
ServedOnce ==
  /\ \A row \in auditRows : task[row.of].at = "ended"
  /\ \A t \in RoutedAlerts \X Channels :
       /\ task[t].at \in {"auditing", "ended"} <=> task[t].status # "none"
       /\ task[t].status = "sent" => t \in heard
       /\ task[t].status = "suppressed" =>
            \E b \in RoutedAlerts \ {t[1]} : <<b, t[2]>> \in heard

\* Where the channels of an alert are while its routing is at each stage
Fresh(a) == \A c \in Channels : task[<<a, c>>].at = "none"

ServesPrimary(a) ==
  /\ routing[a].primary \cap routing[a].fallback = {}
  /\ \A c \in Channels \ routing[a].primary : task[<<a, c>>].at = "none"

ServesFallback(a) ==
  \A c \in Channels :
    /\ c \in routing[a].primary => /\ task[<<a, c>>].at = "ended"
                                   /\ task[<<a, c>>].status \in {"suppressed", "failed"}
    /\ c \in routing[a].fallback => /\ task[<<a, c>>].at # "checking"
                                    /\ task[<<a, c>>].status # "suppressed"
    /\ c \notin routing[a].primary \cup routing[a].fallback => task[<<a, c>>].at = "none"

Mute(a) == {c \in Channels : task[<<a, c>>].status = "suppressed"}

Settled(a) ==
  \/ \E c \in Channels : <<a, c>> \in heard
  \/ Mute(a) = routing[a].primary
  \/ \A c \in (routing[a].primary \cup routing[a].fallback) \ Mute(a) :
        task[<<a, c>>].status = "failed"

Stage(a) ==
  /\ routing[a].at \in {"new", "filtered"} => Fresh(a)
  /\ routing[a].at = "primary" => ServesPrimary(a)
  /\ routing[a].at = "fallback" => ServesFallback(a)
  /\ routing[a].at = "done" =>
       /\ \A c \in Channels : task[<<a, c>>].at \in {"none", "ended"}
       /\ Settled(a)

RoutingInv == RoutingTypeOK /\ ServedOnce /\ \A a \in RoutedAlerts : Stage(a)

LEMMA SettledStays ==
  ASSUME NEW a \in RoutedAlerts, Settled(a),
         routing'[a].primary = routing[a].primary, routing'[a].fallback = routing[a].fallback,
         \A c \in Channels : task'[<<a, c>>] = task[<<a, c>>],
         heard \subseteq heard', routing[a].primary \cup routing[a].fallback \subseteq Channels
  PROVE  Settled(a)'
<1>1. Mute(a)' = Mute(a)
  BY DEF Mute
<1>2. CASE \E c \in Channels : <<a, c>> \in heard
  BY <1>2 DEF Settled
<1>3. CASE Mute(a) = routing[a].primary
  BY <1>1, <1>3 DEF Settled
<1>4. CASE \A c \in (routing[a].primary \cup routing[a].fallback) \ Mute(a) :
              task[<<a, c>>].status = "failed"
  BY <1>1, <1>4 DEF Settled
<1> QED BY <1>2, <1>3, <1>4 DEF Settled

\* A step of another alert leaves the stage of this one.
LEMMA StageStays ==
  ASSUME NEW a \in RoutedAlerts, Stage(a), routing'[a] = routing[a],
         \A c \in Channels : task'[<<a, c>>] = task[<<a, c>>],
         heard \subseteq heard',
         routing[a].primary \cup routing[a].fallback \subseteq Channels
  PROVE  Stage(a)'
<1>1. Mute(a)' = Mute(a)
  BY DEF Mute
<1>2. Settled(a) => Settled(a)'
  BY <1>1, SettledStays
<1>3. /\ Fresh(a) => Fresh(a)'
      /\ ServesPrimary(a) => ServesPrimary(a)'
      /\ ServesFallback(a) => ServesFallback(a)'
  BY DEF Fresh, ServesPrimary, ServesFallback
<1> QED BY <1>2, <1>3 DEF Stage

LEMMA ChannelsOfRules ==
  ASSUME NEW rules \in {{}} \cup {{rule} : rule \in RoutingRules}, NEW preferred \in Preferences
  PROVE  /\ PrimaryChannels(rules, preferred) \in SUBSET Channels
         /\ FallbackChannels(rules) \in SUBSET Channels
         /\ (\E rule \in rules : rule.suppresses) \in BOOLEAN
<1> DEFINE fromRule == UNION {rule.channels : rule \in rules}
           configured == UNION {rule.fallbackChannels : rule \in rules}
<1>1. rules \subseteq RoutingRules
  OBVIOUS
<1>2. fromRule \subseteq Channels /\ configured \subseteq Channels
  BY <1>1, RoutingAssumption
<1>3. preferred \subseteq Channels /\ {"in_app"} \subseteq Channels
  BY RoutingAssumption
<1>4. PrimaryChannels(rules, preferred) \in {fromRule \cap preferred, fromRule, preferred, {"in_app"}}
  <2> HIDE DEF fromRule
  <2>1. PrimaryChannels(rules, preferred) =
          CASE fromRule \cap preferred # {} -> fromRule \cap preferred
            [] fromRule \cap preferred = {} /\ fromRule # {} -> fromRule
            [] fromRule = {} /\ preferred # {} -> preferred
            [] OTHER -> {"in_app"}
    BY DEF PrimaryChannels, fromRule
  <2>2. CASE fromRule \cap preferred # {}
    BY <2>1, <2>2
  <2>3. CASE fromRule \cap preferred = {} /\ fromRule # {}
    BY <2>1, <2>3
  <2>4. CASE fromRule = {} /\ preferred # {}
    BY <2>1, <2>4
  <2>5. CASE fromRule = {} /\ preferred = {}
    BY <2>1, <2>5
  <2> QED BY <2>2, <2>3, <2>4, <2>5
<1>5. FallbackChannels(rules) \in {configured, {"in_app"}}
  BY DEF FallbackChannels
<1> HIDE DEF fromRule, configured
<1> QED BY <1>2, <1>3, <1>4, <1>5

LEMMA RoutingInitially == RoutingInit => RoutingInv
<1> SUFFICES ASSUME RoutingInit PROVE RoutingInv
  OBVIOUS
<1>1. \A t \in RoutedAlerts \X Channels : task[t] = NoTask
  BY DEF RoutingInit
<1>2. 0 \in 0 .. MaxRoutingRefusals
  BY RoutingAssumption
<1>3. RoutingTypeOK
  BY <1>2 DEF RoutingInit, RoutingTypeOK, NoTask, TaskPlaces, TaskStatuses
<1>4. ServedOnce
  BY <1>1 DEF RoutingInit, ServedOnce, NoTask
<1>5. \A a \in RoutedAlerts : Stage(a)
  BY <1>1 DEF RoutingInit, Stage, Fresh, NoTask
<1> QED BY <1>3, <1>4, <1>5 DEF RoutingInv

\* A step of one task leaves the others.
LEMMA TaskMoves ==
  ASSUME task \in [RoutedAlerts \X Channels -> TaskState], NEW a \in RoutedAlerts, NEW c \in Channels,
         NEW next \in TaskState, task' = [task EXCEPT ![<<a, c>>] = next]
  PROVE  /\ task' \in [RoutedAlerts \X Channels -> TaskState] /\ task'[<<a, c>>] = next
         /\ \A u \in RoutedAlerts \X Channels : u # <<a, c>> => task'[u] = task[u]
         /\ \A b \in RoutedAlerts \ {a}, d \in Channels : task'[<<b, d>>] = task[<<b, d>>]
         /\ \A d \in Channels \ {c} : task'[<<a, d>>] = task[<<a, d>>]
OBVIOUS

LEMMA RouteMoves ==
  ASSUME routing \in [RoutedAlerts -> RouteState], NEW a \in RoutedAlerts, NEW next \in RouteState,
         routing' = [routing EXCEPT ![a] = next]
  PROVE  /\ routing' \in [RoutedAlerts -> RouteState] /\ routing'[a] = next
         /\ \A b \in RoutedAlerts \ {a} : routing'[b] = routing[b]
OBVIOUS

\* A task that is under way moves within the stage of its alert.
LEMMA UnderWayStays ==
  ASSUME NEW a \in RoutedAlerts, Stage(a), routing' = routing, NEW c \in Channels,
         task[<<a, c>>].at \in {"checking", "dispatching", "auditing"},
         \A d \in Channels \ {c} : task'[<<a, d>>] = task[<<a, d>>],
         \/ task[<<a, c>>].at = "checking"
         \/ /\ task'[<<a, c>>].at # "checking"
            /\ task'[<<a, c>>].status = "suppressed" => task[<<a, c>>].status = "suppressed"
  PROVE  Stage(a)'
<1>1. routing[a].at \notin {"new", "filtered", "done"}
  BY DEF Stage, Fresh
<1>2. CASE routing[a].at = "primary"
  <2>1. ServesPrimary(a)
    BY <1>2 DEF Stage
  <2>2. ServesPrimary(a)'
    BY <2>1 DEF ServesPrimary
  <2> QED BY <1>2, <2>2 DEF Stage
<1>3. CASE routing[a].at = "fallback"
  <2>1. ServesFallback(a)
    BY <1>3 DEF Stage
  <2>2. /\ c \notin routing[a].primary /\ task[<<a, c>>].at # "checking"
        /\ c \in routing[a].fallback /\ task[<<a, c>>].status # "suppressed"
    BY <2>1 DEF ServesFallback
  <2>3. ServesFallback(a)'
    BY <2>1, <2>2 DEF ServesFallback
  <2> QED BY <1>3, <2>3 DEF Stage
<1> QED BY <1>1, <1>2, <1>3 DEF Stage

LEMMA RoutingStep == RoutingInv /\ [RoutingNext]_routingVars => RoutingInv'
<1> SUFFICES ASSUME RoutingInv, [RoutingNext]_routingVars PROVE RoutingInv'
  OBVIOUS
<1>1. /\ routing \in [RoutedAlerts -> RouteState]
      /\ task \in [RoutedAlerts \X Channels -> TaskState]
      /\ heard \subseteq RoutedAlerts \X Channels
      /\ auditRows \subseteq [of : heard, recent : BOOLEAN]
      /\ routingRefusals \in 0 .. MaxRoutingRefusals
  BY DEF RoutingInv, RoutingTypeOK, RouteState, TaskState
<1>2. ServedOnce /\ \A a \in RoutedAlerts : Stage(a)
  BY DEF RoutingInv
<1> DEFINE Types == /\ routing' \in [RoutedAlerts -> RouteState]
                    /\ task' \in [RoutedAlerts \X Channels -> TaskState]
                    /\ heard' \subseteq RoutedAlerts \X Channels
                    /\ auditRows' \subseteq [of : heard', recent : BOOLEAN]
                    /\ routingRefusals' \in 0 .. MaxRoutingRefusals
<1>15. \A a \in RoutedAlerts : routing[a].primary \cup routing[a].fallback \subseteq Channels
  BY <1>1 DEF RouteState
<1> SUFFICES Types /\ ServedOnce' /\ \A a \in RoutedAlerts : Stage(a)'
  BY DEF RoutingInv, RoutingTypeOK, RouteState, TaskState
<1>3. ASSUME NEW a \in RoutedAlerts, FilterAlert(a)
      PROVE  Types /\ ServedOnce' /\ \A b \in RoutedAlerts : Stage(b)'
  <2>1. /\ routing[a].at = "new" /\ UNCHANGED <<task, heard, auditRows, routingRefusals>>
        /\ routing' = [routing EXCEPT ![a] = [routing[a] EXCEPT !.at = "filtered"]]
    BY <1>3 DEF FilterAlert
  <2>2. /\ routing' \in [RoutedAlerts -> RouteState] /\ routing'[a].at = "filtered"
        /\ \A b \in RoutedAlerts \ {a} : routing'[b] = routing[b]
    BY <2>1, <1>1 DEF RouteState
  <2>3. Stage(a)'
    BY <2>1, <2>2, <1>2 DEF Stage, Fresh
  <2>4. \A b \in RoutedAlerts \ {a} : Stage(b)'
    BY <2>1, <2>2, <1>2, <1>15, StageStays
  <2>5. ServedOnce'
    BY <2>1, <1>2 DEF ServedOnce
  <2> QED BY <2>1, <2>2, <2>3, <2>4, <2>5, <1>1
<1>4. ASSUME NEW a \in RoutedAlerts, NEW rules \in {{}} \cup {{rule} : rule \in RoutingRules},
             NEW preferred \in Preferences, RouteAlert(a, rules, preferred)
      PROVE  Types /\ ServedOnce' /\ \A b \in RoutedAlerts : Stage(b)'
  <2> DEFINE primary == PrimaryChannels(rules, preferred)
             suppresses == \E rule \in rules : rule.suppresses
             next == [at |-> "primary", primary |-> primary, suppresses |-> suppresses,
                      fallback |-> FallbackChannels(rules) \ primary]
             begun == [NoTask EXCEPT !.at = IF suppresses THEN "checking" ELSE "dispatching"]
  <2>1. /\ routing[a].at = "new" /\ UNCHANGED <<heard, auditRows, routingRefusals>>
        /\ routing' = [routing EXCEPT ![a] = next]
        /\ task' = [t \in RoutedAlerts \X Channels |->
              IF t[1] = a /\ t[2] \in primary THEN begun ELSE task[t]]
    BY <1>4 DEF RouteAlert
  <2>2. /\ begun \in TaskState /\ begun.at \in {"checking", "dispatching"} /\ begun.status = "none"
    BY DEF NoTask, TaskState, TaskPlaces, TaskStatuses
  <2>3. primary \in SUBSET Channels /\ FallbackChannels(rules) \in SUBSET Channels /\ suppresses \in BOOLEAN
    BY ChannelsOfRules
  <2> HIDE DEF primary, suppresses, begun
  <2>4. /\ next \in RouteState /\ next.at = "primary" /\ next.primary = primary
        /\ next.fallback = FallbackChannels(rules) \ primary
    BY <2>3 DEF RouteState
  <2> HIDE DEF next
  <2>5. /\ routing' \in [RoutedAlerts -> RouteState] /\ routing'[a] = next
        /\ \A b \in RoutedAlerts \ {a} : routing'[b] = routing[b]
    BY <2>1, <2>4, <1>1, RouteMoves
  <2>6. /\ task' \in [RoutedAlerts \X Channels -> TaskState]
        /\ \A c \in Channels : task'[<<a, c>>] = IF c \in primary THEN begun ELSE task[<<a, c>>]
        /\ \A b \in RoutedAlerts \ {a}, c \in Channels : task'[<<b, c>>] = task[<<b, c>>]
    BY <2>1, <2>2, <1>1
  <2>7. \A c \in Channels : task[<<a, c>>].at = "none"
    BY <2>1, <1>2 DEF Stage, Fresh
  <2>8. Stage(a)'
    BY <2>4, <2>5, <2>6, <2>7 DEF Stage, ServesPrimary
  <2>9. \A b \in RoutedAlerts \ {a} : Stage(b)'
    BY <2>1, <2>5, <2>6, <1>2, <1>15, StageStays
  <2>10. ServedOnce'
    <3>1. \A t \in RoutedAlerts \X Channels :
             \/ task'[t] = task[t]
             \/ task[t].at = "none" /\ task'[t].at \in {"checking", "dispatching"} /\ task'[t].status = "none"
      BY <2>2, <2>6, <2>7
    <3>2. \A row \in auditRows : row.of \in RoutedAlerts \X Channels
      BY <1>1
    <3> QED BY <3>1, <3>2, <2>1, <1>2 DEF ServedOnce
  <2> QED BY <2>1, <2>5, <2>6, <2>8, <2>9, <2>10, <1>1
<1>5. ASSUME NEW a \in RoutedAlerts, PrimaryEnds(a)
      PROVE  Types /\ ServedOnce' /\ \A b \in RoutedAlerts : Stage(b)'
  <2> DEFINE statuses == ResultsOf(a, routing[a].primary)
             settled == "sent" \in statuses \/ statuses = {"suppressed"}
             begun == [NoTask EXCEPT !.at = "dispatching"]
  <2>1. /\ routing[a].at = "primary" /\ AllEnded(a, routing[a].primary)
        /\ UNCHANGED <<heard, auditRows, routingRefusals>>
        /\ routing' = [routing EXCEPT ![a] = [routing[a] EXCEPT !.at = IF settled THEN "done" ELSE "fallback"]]
        /\ task' = [t \in RoutedAlerts \X Channels |->
              IF ~settled /\ t[1] = a /\ t[2] \in routing[a].fallback THEN begun ELSE task[t]]
    BY <1>5 DEF PrimaryEnds
  <2>2. begun \in TaskState /\ begun.at = "dispatching" /\ begun.status = "none"
    BY DEF NoTask, TaskState, TaskPlaces, TaskStatuses
  <2> HIDE DEF begun
  <2>3. /\ routing[a].primary \subseteq Channels /\ routing[a].fallback \subseteq Channels
        /\ routing[a].primary \cap routing[a].fallback = {}
        /\ \A c \in Channels \ routing[a].primary : task[<<a, c>>].at = "none"
        /\ \A c \in routing[a].primary : task[<<a, c>>].at = "ended"
    BY <2>1, <1>1, <1>2 DEF RouteState, Stage, ServesPrimary, AllEnded
  <2>4. \A c \in Channels : /\ task[<<a, c>>].status \in TaskStatuses
                            /\ task[<<a, c>>].at \in {"auditing", "ended"} <=> task[<<a, c>>].status # "none"
                            /\ task[<<a, c>>].status = "sent" => <<a, c>> \in heard
    BY <1>1, <1>2 DEF TaskState, ServedOnce
  <2>5. /\ routing' \in [RoutedAlerts -> RouteState]
        /\ routing'[a].at = IF settled THEN "done" ELSE "fallback"
        /\ routing'[a].primary = routing[a].primary /\ routing'[a].fallback = routing[a].fallback
        /\ \A b \in RoutedAlerts \ {a} : routing'[b] = routing[b]
    <3> HIDE DEF settled
    <3> QED BY <2>1, <1>1 DEF RouteState
  <2>6. CASE settled
    <3>1. routing'[a].at = "done" /\ task' = task
      BY <2>1, <2>5, <2>6, <1>1
    <3>2. Settled(a)
      <4>1. CASE "sent" \in statuses
        BY <4>1, <2>3, <2>4 DEF ResultsOf, Settled
      <4>2. CASE statuses = {"suppressed"}
        <5>1. \A c \in routing[a].primary : task[<<a, c>>].status = "suppressed"
          BY <4>2 DEF ResultsOf
        <5>2. Mute(a) = routing[a].primary
          BY <5>1, <2>3, <2>4 DEF Mute
        <5> QED BY <5>2 DEF Settled
      <4> QED BY <4>1, <4>2, <2>6
    <3>3. Settled(a)'
      BY <3>1, <3>2, <2>1, <2>5, <1>15, SettledStays
    <3>4. Stage(a)'
      BY <3>1, <3>3, <2>3 DEF Stage
    <3>5. \A b \in RoutedAlerts \ {a} : Stage(b)'
      BY <3>1, <2>1, <2>5, <1>2, <1>15, StageStays
    <3>6. ServedOnce'
      BY <3>1, <2>1, <1>2 DEF ServedOnce
    <3> QED BY <3>1, <3>4, <3>5, <3>6, <2>1, <2>5, <1>1
  <2>7. CASE ~settled
    <3>1. \A c \in routing[a].primary : task[<<a, c>>].status \in {"suppressed", "failed"}
      BY <2>3, <2>4, <2>7 DEF ResultsOf, TaskStatuses
    <3>2. /\ task' \in [RoutedAlerts \X Channels -> TaskState]
          /\ \A c \in Channels :
                task'[<<a, c>>] = IF c \in routing[a].fallback THEN begun ELSE task[<<a, c>>]
          /\ \A b \in RoutedAlerts \ {a}, c \in Channels : task'[<<b, c>>] = task[<<b, c>>]
      <4> HIDE DEF settled
      <4> QED BY <2>1, <2>2, <2>7, <1>1
    <3>3. routing'[a].at = "fallback"
      BY <2>5, <2>7
    <3> HIDE DEF settled
    <3>4. ServesFallback(a)'
      BY <3>1, <3>2, <2>2, <2>3, <2>5 DEF ServesFallback
    <3>5. Stage(a)'
      BY <3>3, <3>4 DEF Stage
    <3>6. \A b \in RoutedAlerts \ {a} : Stage(b)'
      BY <3>2, <2>1, <2>5, <1>2, <1>15, StageStays
    <3>7. ServedOnce'
      <4>1. \A t \in RoutedAlerts \X Channels :
               \/ task'[t] = task[t]
               \/ task[t].at = "none" /\ task'[t].at = "dispatching" /\ task'[t].status = "none"
        BY <2>2, <2>3, <3>2
      <4>2. \A row \in auditRows : row.of \in RoutedAlerts \X Channels
        BY <1>1
      <4> QED BY <4>1, <4>2, <2>1, <1>2 DEF ServedOnce
    <3> QED BY <3>2, <3>5, <3>6, <3>7, <2>1, <2>5, <1>1
  <2> QED BY <2>6, <2>7
<1>6. ASSUME NEW a \in RoutedAlerts, FallbackEnds(a)
      PROVE  Types /\ ServedOnce' /\ \A b \in RoutedAlerts : Stage(b)'
  <2>1. /\ routing[a].at = "fallback" /\ AllEnded(a, routing[a].fallback)
        /\ UNCHANGED <<task, heard, auditRows, routingRefusals>>
        /\ routing' = [routing EXCEPT ![a] = [routing[a] EXCEPT !.at = "done"]]
    BY <1>6 DEF FallbackEnds
  <2>2. /\ routing' \in [RoutedAlerts -> RouteState] /\ routing'[a].at = "done"
        /\ routing'[a].primary = routing[a].primary /\ routing'[a].fallback = routing[a].fallback
        /\ \A b \in RoutedAlerts \ {a} : routing'[b] = routing[b]
    BY <2>1, <1>1 DEF RouteState
  <2>3. /\ routing[a].primary \subseteq Channels /\ routing[a].fallback \subseteq Channels
        /\ ServesFallback(a) /\ \A c \in routing[a].fallback : task[<<a, c>>].at = "ended"
    BY <2>1, <1>1, <1>2 DEF RouteState, Stage, AllEnded
  <2>4. \A c \in Channels : /\ task[<<a, c>>].status \in TaskStatuses
                            /\ task[<<a, c>>].at \in {"auditing", "ended"} <=> task[<<a, c>>].status # "none"
                            /\ task[<<a, c>>].status = "sent" => <<a, c>> \in heard
    BY <1>1, <1>2 DEF TaskState, ServedOnce
  <2>5. Settled(a)
    <3> SUFFICES ASSUME ~ \E c \in Channels : <<a, c>> \in heard
                 PROVE  \A c \in (routing[a].primary \cup routing[a].fallback) \ Mute(a) :
                           task[<<a, c>>].status = "failed"
      BY DEF Settled
    <3> QED BY <2>3, <2>4 DEF ServesFallback, Mute, TaskStatuses
  <2>6. Settled(a)'
    BY <2>1, <2>2, <2>5 DEF Settled, Mute
  <2>7. Stage(a)'
    BY <2>1, <2>2, <2>3, <2>6 DEF Stage, ServesFallback
  <2>8. \A b \in RoutedAlerts \ {a} : Stage(b)'
    BY <2>1, <2>2, <1>2, <1>15, StageStays
  <2>9. ServedOnce'
    BY <2>1, <1>2 DEF ServedOnce
  <2> QED BY <2>1, <2>2, <2>7, <2>8, <2>9, <1>1
<1>7. ASSUME NEW a \in RoutedAlerts, NEW c \in Channels, CheckSuppression(<<a, c>>)
      PROVE  Types /\ ServedOnce' /\ \A b \in RoutedAlerts : Stage(b)'
  <2> DEFINE t == <<a, c>>
             quiet == \E row \in auditRows : row.recent /\ row.of[2] = c
             next == IF quiet THEN [at |-> "auditing", status |-> "suppressed"]
                     ELSE [task[t] EXCEPT !.at = "dispatching"]
  <2>1. /\ task[t].at = "checking" /\ UNCHANGED <<routing, heard, auditRows, routingRefusals>>
        /\ task' = [task EXCEPT ![t] = next] /\ t \in RoutedAlerts \X Channels
    BY <1>7 DEF CheckSuppression
  <2>2. task[t] \in TaskState /\ task[t].status = "none"
    BY <2>1, <1>1, <1>2 DEF ServedOnce
  <2>3. /\ next \in TaskState
        /\ \/ next.at = "auditing" /\ next.status = "suppressed" /\ quiet
           \/ next.at = "dispatching" /\ next.status = "none"
    <3>1. CASE quiet
      BY <3>1 DEF TaskState, TaskPlaces, TaskStatuses
    <3>2. CASE ~quiet
      <4> HIDE DEF quiet
      <4> QED BY <3>2, <2>2 DEF TaskState, TaskPlaces
    <3> QED BY <3>1, <3>2
  <2> HIDE DEF next
  <2>4. /\ task' \in [RoutedAlerts \X Channels -> TaskState] /\ task'[t] = next
        /\ \A u \in RoutedAlerts \X Channels : u # t => task'[u] = task[u]
        /\ \A b \in RoutedAlerts \ {a}, d \in Channels : task'[<<b, d>>] = task[<<b, d>>]
        /\ \A d \in Channels \ {c} : task'[<<a, d>>] = task[<<a, d>>]
    BY <2>1, <2>3, <1>1, TaskMoves
  \* The entry is one of another alert, whose task has ended.
  <2>5. quiet => \E b \in RoutedAlerts \ {a} : <<b, c>> \in heard
    <3> SUFFICES ASSUME NEW row \in auditRows, row.of[2] = c
                 PROVE  \E b \in RoutedAlerts \ {a} : <<b, c>> \in heard
      OBVIOUS
    <3>1. row.of \in heard /\ task[row.of].at = "ended"
      BY <1>1, <1>2 DEF ServedOnce
    <3>2. PICK b \in RoutedAlerts, d \in Channels : row.of = <<b, d>>
      BY <3>1, <1>1
    <3>3. d = c /\ b # a
      BY <3>1, <3>2, <2>1
    <3> QED BY <3>1, <3>2, <3>3
  <2>6. ServedOnce'
    <3>1. \A row \in auditRows' : task'[row.of].at = "ended"
      <4>1. \A row \in auditRows : row.of \in RoutedAlerts \X Channels /\ row.of # t
        BY <2>1, <1>1, <1>2 DEF ServedOnce
      <4> QED BY <4>1, <2>1, <2>4, <1>2 DEF ServedOnce
    <3>2. ASSUME NEW u \in RoutedAlerts \X Channels
          PROVE  /\ task'[u].at \in {"auditing", "ended"} <=> task'[u].status # "none"
                 /\ task'[u].status = "sent" => u \in heard'
                 /\ task'[u].status = "suppressed" =>
                      \E b \in RoutedAlerts \ {u[1]} : <<b, u[2]>> \in heard'
      <4>1. CASE u = t
        BY <4>1, <2>1, <2>3, <2>4, <2>5
      <4>2. CASE u # t
        BY <4>2, <2>1, <2>4, <1>2 DEF ServedOnce
      <4> QED BY <4>1, <4>2
    <3> QED BY <3>1, <3>2 DEF ServedOnce
  <2>7. Stage(a)'
    BY <2>1, <2>3, <2>4, <1>2, UnderWayStays
  <2>8. \A b \in RoutedAlerts \ {a} : Stage(b)'
    BY <2>1, <2>4, <1>2, <1>15, StageStays
  <2> QED BY <2>1, <2>4, <2>6, <2>7, <2>8, <1>1
<1>8. ASSUME NEW a \in RoutedAlerts, NEW c \in Channels, NEW status \in {"sent", "failed"},
             DispatchChannel(<<a, c>>, status)
      PROVE  Types /\ ServedOnce' /\ \A b \in RoutedAlerts : Stage(b)'
  <2> DEFINE t == <<a, c>>
             next == [at |-> "auditing", status |-> status]
  <2>1. /\ task[t].at = "dispatching" /\ UNCHANGED <<routing, auditRows, routingRefusals>>
        /\ task' = [task EXCEPT ![t] = next] /\ t \in RoutedAlerts \X Channels
        /\ heard \subseteq heard' /\ heard' \subseteq heard \cup {t}
        /\ status = "sent" => t \in heard'
    BY <1>8 DEF DispatchChannel
  <2>2. task[t] \in TaskState
    BY <2>1, <1>1
  <2>3. next \in TaskState /\ next.at = "auditing" /\ next.status = status
    BY DEF TaskState, TaskPlaces, TaskStatuses
  <2> HIDE DEF next
  <2>4. /\ task' \in [RoutedAlerts \X Channels -> TaskState] /\ task'[t] = next
        /\ \A u \in RoutedAlerts \X Channels : u # t => task'[u] = task[u]
        /\ \A b \in RoutedAlerts \ {a}, d \in Channels : task'[<<b, d>>] = task[<<b, d>>]
        /\ \A d \in Channels \ {c} : task'[<<a, d>>] = task[<<a, d>>]
    BY <2>1, <2>3, <1>1, TaskMoves
  <2>6. ServedOnce'
    <3>1. \A row \in auditRows' : task'[row.of].at = "ended"
      <4>1. \A row \in auditRows : row.of \in RoutedAlerts \X Channels /\ row.of # t
        BY <2>1, <1>1, <1>2 DEF ServedOnce
      <4> QED BY <4>1, <2>1, <2>4, <1>2 DEF ServedOnce
    <3>2. ASSUME NEW u \in RoutedAlerts \X Channels
          PROVE  /\ task'[u].at \in {"auditing", "ended"} <=> task'[u].status # "none"
                 /\ task'[u].status = "sent" => u \in heard'
                 /\ task'[u].status = "suppressed" =>
                      \E b \in RoutedAlerts \ {u[1]} : <<b, u[2]>> \in heard'
      <4>1. CASE u = t
        BY <4>1, <2>1, <2>2, <2>3, <2>4, <1>2 DEF ServedOnce
      <4>2. CASE u # t
        BY <4>2, <2>1, <2>4, <1>2 DEF ServedOnce
      <4> QED BY <4>1, <4>2
    <3> QED BY <3>1, <3>2 DEF ServedOnce
  <2>7. Stage(a)'
    BY <2>1, <2>3, <2>4, <1>2, <1>8, UnderWayStays
  <2>8. \A b \in RoutedAlerts \ {a} : Stage(b)'
    BY <2>1, <2>4, <1>2, <1>15, StageStays
  <2>9. heard' \subseteq RoutedAlerts \X Channels /\ auditRows' \subseteq [of : heard', recent : BOOLEAN]
    BY <2>1, <1>1
  <2> QED BY <2>1, <2>4, <2>6, <2>7, <2>8, <2>9, <1>1
<1>9. ASSUME NEW a \in RoutedAlerts, NEW c \in Channels, RecordAudit(<<a, c>>)
      PROVE  Types /\ ServedOnce' /\ \A b \in RoutedAlerts : Stage(b)'
  <2> DEFINE t == <<a, c>>
             next == [task[t] EXCEPT !.at = "ended"]
             entry == [of |-> t, recent |-> TRUE]
  <2>1. /\ task[t].at = "auditing" /\ UNCHANGED <<routing, heard, routingRefusals>>
        /\ task' = [task EXCEPT ![t] = next] /\ t \in RoutedAlerts \X Channels
        /\ auditRows' = IF task[t].status = "sent" THEN auditRows \cup {entry} ELSE auditRows
    BY <1>9 DEF RecordAudit
  <2>2. task[t] \in TaskState
    BY <2>1, <1>1
  <2>3. next \in TaskState /\ next.at = "ended" /\ next.status = task[t].status
    BY <2>2 DEF TaskState, TaskPlaces
  <2> HIDE DEF next
  <2>4. /\ task' \in [RoutedAlerts \X Channels -> TaskState] /\ task'[t] = next
        /\ \A u \in RoutedAlerts \X Channels : u # t => task'[u] = task[u]
        /\ \A b \in RoutedAlerts \ {a}, d \in Channels : task'[<<b, d>>] = task[<<b, d>>]
        /\ \A d \in Channels \ {c} : task'[<<a, d>>] = task[<<a, d>>]
    BY <2>1, <2>3, <1>1, TaskMoves
  <2>5. auditRows' \subseteq [of : heard', recent : BOOLEAN]
    <3>1. CASE task[t].status = "sent"
      <4>1. t \in heard
        BY <2>1, <3>1, <1>2 DEF ServedOnce
      <4>2. entry \in [of : heard, recent : BOOLEAN]
        BY <4>1
      <4> HIDE DEF entry
      <4> QED BY <4>2, <3>1, <2>1, <1>1
    <3>2. CASE task[t].status # "sent"
      BY <3>2, <2>1, <1>1
    <3> QED BY <3>1, <3>2
  <2>6. ServedOnce'
    <3>1. \A row \in auditRows' : task'[row.of].at = "ended"
      <4>1. \A row \in auditRows : row.of \in RoutedAlerts \X Channels /\ task[row.of].at = "ended"
        BY <1>1, <1>2 DEF ServedOnce
      <4>2. \A row \in auditRows' : row \in auditRows \/ row.of = t
        BY <2>1
      <4> QED BY <4>1, <4>2, <2>3, <2>4
    <3>2. ASSUME NEW u \in RoutedAlerts \X Channels
          PROVE  /\ task'[u].at \in {"auditing", "ended"} <=> task'[u].status # "none"
                 /\ task'[u].status = "sent" => u \in heard'
                 /\ task'[u].status = "suppressed" =>
                      \E b \in RoutedAlerts \ {u[1]} : <<b, u[2]>> \in heard'
      <4>1. CASE u = t
        BY <4>1, <2>1, <2>2, <2>3, <2>4, <1>2 DEF ServedOnce
      <4>2. CASE u # t
        BY <4>2, <2>1, <2>4, <1>2 DEF ServedOnce
      <4> QED BY <4>1, <4>2
    <3> QED BY <3>1, <3>2 DEF ServedOnce
  <2>7. Stage(a)'
    BY <2>1, <2>3, <2>4, <1>2, UnderWayStays
  <2>8. \A b \in RoutedAlerts \ {a} : Stage(b)'
    BY <2>1, <2>4, <1>2, <1>15, StageStays
  <2> QED BY <2>1, <2>4, <2>5, <2>6, <2>7, <2>8, <1>1
<1>10. ASSUME NEW a \in RoutedAlerts, NEW c \in Channels, RecordAuditThrows(<<a, c>>)
       PROVE  Types /\ ServedOnce' /\ \A b \in RoutedAlerts : Stage(b)'
  <2> DEFINE t == <<a, c>>
             next == [task[t] EXCEPT !.at = "ended"]
  <2>1. /\ task[t].at = "auditing" /\ UNCHANGED <<heard, auditRows>>
        /\ task' = [task EXCEPT ![t] = next] /\ t \in RoutedAlerts \X Channels
        /\ routing' = [routing EXCEPT ![a] = [routing[a] EXCEPT !.at = "threw"]]
    BY <1>10 DEF RecordAuditThrows
  <2>2. task[t] \in TaskState
    BY <2>1, <1>1
  <2>3. next \in TaskState /\ next.at = "ended" /\ next.status = task[t].status
    BY <2>2 DEF TaskState, TaskPlaces
  <2> HIDE DEF next
  <2>4. /\ task' \in [RoutedAlerts \X Channels -> TaskState] /\ task'[t] = next
        /\ \A u \in RoutedAlerts \X Channels : u # t => task'[u] = task[u]
        /\ \A b \in RoutedAlerts \ {a}, d \in Channels : task'[<<b, d>>] = task[<<b, d>>]
        /\ \A d \in Channels \ {c} : task'[<<a, d>>] = task[<<a, d>>]
    BY <2>1, <2>3, <1>1, TaskMoves
  <2>6. ServedOnce'
    <3>1. \A row \in auditRows' : task'[row.of].at = "ended"
      <4>1. \A row \in auditRows : row.of \in RoutedAlerts \X Channels /\ row.of # t
        BY <2>1, <1>1, <1>2 DEF ServedOnce
      <4> QED BY <4>1, <2>1, <2>4, <1>2 DEF ServedOnce
    <3>2. ASSUME NEW u \in RoutedAlerts \X Channels
          PROVE  /\ task'[u].at \in {"auditing", "ended"} <=> task'[u].status # "none"
                 /\ task'[u].status = "sent" => u \in heard'
                 /\ task'[u].status = "suppressed" =>
                      \E b \in RoutedAlerts \ {u[1]} : <<b, u[2]>> \in heard'
      <4>1. CASE u = t
        BY <4>1, <2>1, <2>2, <2>3, <2>4, <1>2 DEF ServedOnce
      <4>2. CASE u # t
        BY <4>2, <2>1, <2>4, <1>2 DEF ServedOnce
      <4> QED BY <4>1, <4>2
    <3> QED BY <3>1, <3>2 DEF ServedOnce
  <2>5. /\ routing' \in [RoutedAlerts -> RouteState] /\ routing'[a].at = "threw"
        /\ \A b \in RoutedAlerts \ {a} : routing'[b] = routing[b]
    BY <2>1, <1>1 DEF RouteState
  <2>7. Stage(a)'
    BY <2>5 DEF Stage
  <2>8. \A b \in RoutedAlerts \ {a} : Stage(b)'
    BY <2>1, <2>4, <2>5, <1>2, <1>15, StageStays
  <2>9. routingRefusals' \in 0 .. MaxRoutingRefusals
    BY <1>10, <1>1, RoutingAssumption DEF RecordAuditThrows
  <2> QED BY <2>1, <2>4, <2>5, <2>6, <2>7, <2>8, <2>9, <1>1
<1>11. ASSUME NEW row \in auditRows, WindowElapses(row)
       PROVE  Types /\ ServedOnce' /\ \A b \in RoutedAlerts : Stage(b)'
  <2> DEFINE old == [row EXCEPT !.recent = FALSE]
  <2>1. /\ UNCHANGED <<routing, task, heard, routingRefusals>>
        /\ auditRows' = (auditRows \ {row}) \cup {old}
    BY <1>11 DEF WindowElapses
  <2>2. row \in [of : heard, recent : BOOLEAN]
    BY <1>11, <1>1
  <2>3. old \in [of : heard, recent : BOOLEAN] /\ old.of = row.of
    BY <2>2
  <2> HIDE DEF old
  <2>4. auditRows' \subseteq [of : heard', recent : BOOLEAN]
    BY <2>1, <2>3, <1>1
  <2>5. \A b \in RoutedAlerts : Stage(b)'
    BY <2>1, <1>2, <1>15, StageStays
  <2>6. ServedOnce'
    BY <2>1, <2>3, <1>2, <1>11 DEF ServedOnce
  <2> QED BY <2>1, <2>4, <2>5, <2>6, <1>1
<1>12. CASE UNCHANGED routingVars
  <2>1. \A a \in RoutedAlerts : Stage(a)'
    BY <1>12, <1>2, <1>15, StageStays DEF routingVars
  <2> QED BY <1>12, <2>1, <1>1, <1>2 DEF routingVars, ServedOnce
<1>13. ASSUME NEW t \in RoutedAlerts \X Channels
       PROVE  \E a \in RoutedAlerts, c \in Channels : t = <<a, c>>
  OBVIOUS
<1>14. ASSUME NEW t \in RoutedAlerts \X Channels,
              \/ CheckSuppression(t) \/ RecordAudit(t) \/ RecordAuditThrows(t)
              \/ \E status \in {"sent", "failed"} : DispatchChannel(t, status)
       PROVE  Types /\ ServedOnce' /\ \A b \in RoutedAlerts : Stage(b)'
  <2>1. PICK a \in RoutedAlerts, c \in Channels : t = <<a, c>>
    BY <1>13
  <2> HIDE DEF Types
  <2> QED BY <1>14, <2>1, <1>7, <1>8, <1>9, <1>10
<1> HIDE DEF Types
<1> QED BY <1>3, <1>4, <1>5, <1>6, <1>11, <1>12, <1>14 DEF RoutingNext

\* An alert whose routing ended was heard, was suppressed for others that were, or
\* every channel it could be sent by failed.
THEOREM RoutedAlertsAreHeard == RoutingSpec => []HeardOrExhausted
<1>1. RoutingInv => HeardOrExhausted
  <2> SUFFICES ASSUME RoutingInv, NEW a \in RoutedAlerts, routing[a].at = "done"
               PROVE  /\ \A c \in Mute(a) : \E b \in RoutedAlerts \ {a} : <<b, c>> \in heard
                      /\ Settled(a)
    BY DEF HeardOrExhausted, Mute, Settled
  <2>1. Settled(a)
    BY DEF RoutingInv, Stage
  <2>2. \A c \in Channels : task[<<a, c>>].status = "suppressed" =>
           \E b \in RoutedAlerts \ {a} : <<b, c>> \in heard
    BY DEF RoutingInv, ServedOnce
  <2> QED BY <2>1, <2>2 DEF Mute
<1> QED BY <1>1, RoutingInitially, RoutingStep, PTL DEF RoutingSpec

\* The types of the state, for any values of the constants.
LEMMA RoutingTypeCorrect == RoutingSpec => []RoutingTypeOK
<1>1. RoutingInv => RoutingTypeOK
  BY DEF RoutingInv
<1> QED BY <1>1, RoutingInitially, RoutingStep, PTL DEF RoutingSpec

-----------------------------------------------------------------------------
(***************************************************************************)
(* The evaluation of alert rules and the duplicate check: any rules, any   *)
(* number of evaluations at a time, any windows, any number of restarts    *)
(* and evictions.                                                          *)
(***************************************************************************)

EvalState ==
  [at : {"idle", "looping", "persisting", "marking"}, now : Nat, holding : Snapshots \cup {{}},
   todo : SUBSET AlertRules, rule : AlertRules, priority : Nat, checked : Nat, alert : Nat,
   alone : BOOLEAN]

StoredAlert ==
  [rule : AlertRules, condition : Conditions, priority : Nat, time : Nat, checked : Nat,
   settled : BOOLEAN, remembered : BOOLEAN]

Recollection == [time : Nat, priority : Nat]

EvalTypes ==
  /\ clock \in Nat
  /\ lastTriggered \in [AlertRules -> Int]
  /\ alerts \in Seq(StoredAlert)
  /\ recent \in [Fingerprints -> {NotSeen} \cup Recollection]
  /\ evaluation \in [Evaluators -> EvalState]

\* The rules an evaluation still has to report, or is about to store, fire.  An
\* evaluation that is alone has the last word on the alerts and on what is
\* remembered of them.
EvaluationUnderWay(e) ==
  evaluation[e].at # "idle" =>
    /\ evaluation[e].now <= clock
    /\ evaluation[e].alone => \A f \in Evaluators \ {e} : evaluation[f].at = "idle"
    /\ \A r \in evaluation[e].todo : Holds(AlertRule[r], evaluation[e].holding) # {}
    /\ evaluation[e].at \in {"persisting", "marking"} =>
         /\ Holds(AlertRule[evaluation[e].rule], evaluation[e].holding) # {}
         /\ evaluation[e].rule \notin evaluation[e].todo
    /\ evaluation[e].at = "persisting" => evaluation[e].checked <= clock
    /\ evaluation[e].at = "marking" =>
         /\ evaluation[e].alert \in DOMAIN alerts
         /\ alerts[evaluation[e].alert].rule = evaluation[e].rule
         /\ alerts[evaluation[e].alert].time = evaluation[e].now

LastWord(e) ==
  (evaluation[e].at = "marking" /\ evaluation[e].alone) =>
    /\ evaluation[e].alert = Len(alerts)
    /\ \A d \in {"exact", "escalate"} :
         LET found == recent[Fingerprint(d, alerts[Len(alerts)].condition)] IN
         /\ found # NotSeen /\ found.time = alerts[Len(alerts)].time
         /\ found.priority = alerts[Len(alerts)].priority

\* A rule that an evaluation still has to report or store has cooled down
\* since alert i.
CooledDown(e, i) ==
  (\/ alerts[i].rule \in evaluation[e].todo
   \/ evaluation[e].at = "persisting" /\ evaluation[e].rule = alerts[i].rule)
    => evaluation[e].now - alerts[i].time >= AlertRule[alerts[i].rule].cooldownSeconds

\* Until its window has passed, an alert or a later one like it is remembered.
Remembered(d, a) ==
  \/ clock - a.time > DedupWindow[d]
  \/ LET found == recent[Fingerprint(d, a.condition)] IN
     /\ found # NotSeen /\ found.time >= a.time
     /\ d = "escalate" => found.priority >= a.priority

TakenOver(i) == \E k \in DOMAIN alerts : i < k /\ TakesOver(k, i)

\* An entry of alert i's type may have been taken over.
StillKept(d, i) == Remembered(d, alerts[i]) \/ (d = "escalate" /\ TakenOver(i))

\* What alert i leaves of an alert of condition c that was checked at a time
Allows(i, c, checked, priority) ==
  LET age == checked - alerts[i].time IN
  /\ alerts[i].condition = c => age > DedupWindow["exact"]
  /\ (alerts[i].condition.alertType = c.alertType /\ age <= DedupWindow["escalate"])
       => priority >= alerts[i].priority \/ TakenOver(i)

HoldsBack(i) ==
  alerts[i].settled =>
    /\ alerts[i].time <= clock
    /\ lastTriggered[alerts[i].rule] >= alerts[i].time
    /\ \A e \in Evaluators : evaluation[e].at # "idle" =>
          evaluation[e].now >= alerts[i].time /\ CooledDown(e, i)
    /\ alerts[i].remembered =>
         /\ \A d \in {"exact", "escalate"} : StillKept(d, i)
         /\ \A e \in Evaluators : evaluation[e].at = "persisting" =>
              Allows(i, Candidate(e, evaluation[e].rule), evaluation[e].checked,
                     evaluation[e].priority)

EvalInv ==
  /\ EvalTypes
  /\ \A e \in Evaluators : EvaluationUnderWay(e) /\ LastWord(e)
  /\ \A i \in DOMAIN alerts : HoldsBack(i)
  /\ SettledAlertsHold

\* A rule that fires reports one of its conditions.
LEMMA FirstTriggeredIsCondition ==
  ASSUME NEW r \in AlertRules, NEW holding, Holds(AlertRule[r], holding) # {}
  PROVE  FirstTriggered(AlertRule[r], holding) \in Conditions
<1> DEFINE H == Holds(AlertRule[r], holding)
<1>1. H \in SUBSET Nat /\ H \subseteq DOMAIN AlertRule[r].conditions
  BY AlertAssumption DEF Holds, AlertRules
<1>2. PICK x \in H : \A y \in H : ~ (<<y, x>> \in OpToRel(<, Nat))
  BY <1>1, NatLessThanWellFounded, WFMin
<1> HIDE DEF H
<1>3. \A y \in H : ~ (y < x)
  BY <1>1, <1>2 DEF OpToRel
<1>4. \A y \in H : x <= y
  BY <1>1, <1>3
<1>5. (CHOOSE i \in H : \A j \in H : i <= j) \in H
  BY <1>4
<1>6. FirstTriggered(AlertRule[r], holding) \in
        {AlertRule[r].conditions[i] : i \in DOMAIN AlertRule[r].conditions}
  BY <1>1, <1>5 DEF FirstTriggered, H
<1> QED BY <1>6 DEF Conditions

LEMMA ConditionRecord == \A c \in Conditions : c \in [metric : STRING, alertType : STRING]
<1>1. \A r \in AlertRules : \A i \in DOMAIN AlertRule[r].conditions :
         AlertRule[r].conditions[i] \in [metric : STRING, alertType : STRING]
  <2> DEFINE R == [metric : STRING, alertType : STRING]
  <2> TAKE r \in AlertRules
  <2>1. AlertRule[r].conditions \in Seq(R)
    BY AlertAssumption DEF AlertRules
  <2> HIDE DEF R
  <2>2. \A i \in DOMAIN AlertRule[r].conditions : AlertRule[r].conditions[i] \in R
    BY <2>1
  <2> QED BY <2>2 DEF R
<1> TAKE c \in Conditions
<1>2. PICK r \in AlertRules :
        c \in {AlertRule[r].conditions[i] : i \in DOMAIN AlertRule[r].conditions}
  BY DEF Conditions
<1> QED BY <1>1, <1>2

LEMMA FingerprintValues ==
  ASSUME NEW c \in Conditions
  PROVE  /\ Fingerprint("exact", c) = <<c.alertType, c.metric>>
         /\ Fingerprint("crossSource", c) = <<c.metric>>
         /\ Fingerprint("escalate", c) = <<c.alertType>>
         /\ \A d \in DedupRules : Fingerprint(d, c) \in Fingerprints
         /\ DedupRules = {"exact", "crossSource", "escalate"}
BY AlertAssumption DEF Fingerprint, Fingerprints, DedupRules

LEMMA WindowType == \A d \in DedupRules : DedupWindow[d] \in Nat
BY AlertAssumption DEF DedupRules

LEMMA RuleType ==
  \A r \in AlertRules : AlertRule[r].priority \in Nat /\ AlertRule[r].cooldownSeconds \in Nat
BY AlertAssumption DEF AlertRules

LEMMA IdleType == Idle \in EvalState /\ Idle.at = "idle" /\ Idle.todo = {}
<1>1. (CHOOSE r \in AlertRules : TRUE) \in AlertRules
  BY AlertAssumption DEF AlertRules
<1> QED BY <1>1 DEF Idle, EvalState

LEMMA RecollectionDiffers == \A r \in Recollection : r # NotSeen
BY DEF Recollection, NotSeen

\* The fingerprints an alert shares with the record of another one
LEMMA SharedFingerprints ==
  ASSUME NEW a \in Conditions, NEW c \in Conditions, NEW d \in DedupRules,
         Fingerprint("escalate", a) = Fingerprint(d, c)
  PROVE  \/ d = "escalate" /\ a.alertType = c.alertType
         \/ d = "crossSource" /\ a.alertType = c.metric
<1>1. CASE d = "exact"
  <2>1. <<a.alertType>> = <<c.alertType, c.metric>>  BY <1>1, FingerprintValues
  <2> QED BY <2>1
<1>2. CASE d = "crossSource"  
  BY <1>2, FingerprintValues, <<a.alertType>>[1] = <<c.metric>>[1]
<1>3. CASE d = "escalate"  
  BY <1>3, FingerprintValues, <<a.alertType>>[1] = <<c.alertType>>[1]
<1> QED BY <1>1, <1>2, <1>3, FingerprintValues

\* What becomes of an evaluation that goes on to its next rule, or ends
GoesOn(e) ==
  /\ evaluation' \in [Evaluators -> EvalState]
  /\ \A f \in Evaluators : f # e => evaluation'[f] = evaluation[f]
  /\ evaluation'[e].at \in {"idle", "looping"}
  /\ evaluation'[e].todo \subseteq evaluation[e].todo
  /\ evaluation'[e].at = "looping" =>
       /\ evaluation'[e].now = evaluation[e].now
       /\ evaluation'[e].holding = evaluation[e].holding
       /\ evaluation'[e].alone = evaluation[e].alone

LEMMA ProceedGoesOn ==
  ASSUME EvalTypes, NEW e \in Evaluators, Proceed(e)
  PROVE  GoesOn(e)
<1> DEFINE s == evaluation[e]
           t == [s EXCEPT !.at = "looping", !.rule = Idle.rule, !.priority = 0, !.checked = 0, !.alert = 0]
<1>0. s \in EvalState /\ Idle.rule \in AlertRules
  BY IdleType DEF EvalTypes, EvalState
<1>1. /\ t \in EvalState /\ t.at = "looping" /\ t.todo = s.todo
      /\ t.now = s.now /\ t.holding = s.holding /\ t.alone = s.alone
  BY <1>0 DEF EvalState
<1>2. evaluation' = [evaluation EXCEPT ![e] = IF s.todo = {} THEN Idle ELSE t]
  BY DEF Proceed
<1> HIDE DEF t
<1>3. evaluation'[e] = IF s.todo = {} THEN Idle ELSE t
  BY <1>2 DEF EvalTypes
<1>4. /\ evaluation' \in [Evaluators -> EvalState]
      /\ \A f \in Evaluators : f # e => evaluation'[f] = evaluation[f]
  BY <1>1, <1>2, IdleType DEF EvalTypes
<1> QED BY <1>1, <1>3, <1>4, IdleType DEF GoesOn

LEMMA SkipGoesOn ==
  ASSUME EvalTypes, NEW e \in Evaluators, NEW r \in AlertRules,
         evaluation[e].at = "looping", Skip(e, r)
  PROVE  GoesOn(e)
<1> DEFINE s == evaluation[e]
           rest == s.todo \ {r}
           t == [s EXCEPT !.todo = rest]
<1>0. s \in EvalState
  BY DEF EvalTypes
<1>1. /\ t \in EvalState /\ t.at = s.at /\ t.todo = rest
      /\ t.now = s.now /\ t.holding = s.holding /\ t.alone = s.alone
  BY <1>0 DEF EvalState
<1>2. evaluation' = [evaluation EXCEPT ![e] = IF rest = {} THEN Idle ELSE t]
  BY DEF Skip
<1> HIDE DEF t
<1>3. evaluation'[e] = IF rest = {} THEN Idle ELSE t
  BY <1>2 DEF EvalTypes
<1>4. /\ evaluation' \in [Evaluators -> EvalState]
      /\ \A f \in Evaluators : f # e => evaluation'[f] = evaluation[f]
  BY <1>1, <1>2, IdleType DEF EvalTypes
<1>5. s.at = "looping" => GoesOn(e)
  BY <1>1, <1>3, <1>4, IdleType DEF GoesOn
<1> QED BY <1>5

LEMMA AlertFields ==
  ASSUME EvalTypes, NEW i \in DOMAIN alerts
  PROVE  /\ alerts[i] \in StoredAlert /\ alerts[i].condition \in Conditions
         /\ alerts[i].rule \in AlertRules /\ alerts[i].time \in Nat
         /\ alerts[i].checked \in Nat /\ alerts[i].priority \in Nat
         /\ i \in 1 .. Len(alerts) /\ Len(alerts) \in Nat
<1>1. alerts[i] \in StoredAlert
  BY DEF EvalTypes
<1> QED BY <1>1 DEF StoredAlert, EvalTypes

\* What an eviction forgets is past every window.
LEMMA EvictionKeeps ==
  ASSUME EvalTypes, NEW i \in DOMAIN alerts, NEW d \in {"exact", "escalate"},
         alerts[i].time \in Nat, StillKept(d, i),
         recent' \in {recent, Evicted}, UNCHANGED <<clock, alerts>>
  PROVE  StillKept(d, i)'
<1> DEFINE f == Fingerprint(d, alerts[i].condition)
<1>0. TakenOver(i)' = TakenOver(i)
  BY DEF TakenOver, TakesOver
<1>1. CASE recent' = recent
  BY <1>0, <1>1 DEF StillKept, Remembered
<1>2. CASE recent' = Evicted /\ Remembered(d, alerts[i])
  <2>0. alerts[i] \in StoredAlert /\ alerts[i].condition \in Conditions
    BY AlertFields
  <2>1. f \in Fingerprints /\ d \in DedupRules
    BY <2>0, FingerprintValues
  <2>2. \/ recent'[f] = recent[f]
        \/ recent[f] # NotSeen /\ \A x \in DedupRules : clock - recent[f].time > DedupWindow[x]
    BY <1>2, <2>1 DEF Evicted
  <2>3. recent[f] # NotSeen => recent[f].time \in Nat
    BY <2>1 DEF EvalTypes, Recollection
  <2>4. clock \in Nat /\ DedupWindow[d] \in Nat
    BY <2>1, WindowType DEF EvalTypes
  <2>5. CASE recent'[f] = recent[f]
    BY <1>2, <2>5 DEF StillKept, Remembered
  <2>6. CASE recent[f] # NotSeen /\ clock - recent[f].time > DedupWindow[d]
    <3>1. clock - alerts[i].time > DedupWindow[d]
      BY <1>2, <2>6, <2>3, <2>4 DEF Remembered
    <3> QED BY <3>1 DEF StillKept, Remembered
  <2> QED BY <2>1, <2>2, <2>5, <2>6
<1> QED BY <1>0, <1>1, <1>2 DEF StillKept

LEMMA EvictedType ==
  ASSUME EvalTypes PROVE Evicted \in [Fingerprints -> {NotSeen} \cup Recollection]
BY DEF EvalTypes, Evicted

\* An evaluation that goes on to its next rule, or ends, claims nothing new.
LEMMA GoingOnKeeps ==
  ASSUME EvalInv, NEW e \in Evaluators, evaluation[e].at # "idle", GoesOn(e),
         UNCHANGED <<clock, lastTriggered, alerts>>, recent' \in {recent, Evicted}
  PROVE  EvalInv'
<1>1. EvalTypes'
  BY EvictedType DEF EvalInv, EvalTypes, GoesOn
<1>2. \A f \in Evaluators : EvaluationUnderWay(f)'
  <2> TAKE f \in Evaluators
  <2>1. CASE f = e
    BY <2>1 DEF EvalInv, EvaluationUnderWay, GoesOn
  <2>2. CASE f # e
    <3>1. evaluation'[f] = evaluation[f] /\ EvaluationUnderWay(f)
      BY <2>2 DEF EvalInv, GoesOn
    <3>2. ~(evaluation[f].at # "idle" /\ evaluation[f].alone)
      BY <2>2, <3>1 DEF EvaluationUnderWay
    <3> QED BY <3>1, <3>2 DEF EvaluationUnderWay
  <2> QED BY <2>1, <2>2
<1>3. \A f \in Evaluators : LastWord(f)'
  <2> TAKE f \in Evaluators
  <2>1. CASE f = e
    BY <2>1 DEF LastWord, GoesOn
  <2>2. CASE f # e
    <3>1. evaluation'[f] = evaluation[f] /\ EvaluationUnderWay(f)
      BY <2>2 DEF EvalInv, GoesOn
    <3>2. ~(evaluation[f].at # "idle" /\ evaluation[f].alone)
      BY <2>2, <3>1 DEF EvaluationUnderWay
    <3> QED BY <3>1, <3>2 DEF LastWord
  <2> QED BY <2>1, <2>2
<1>4. \A i \in DOMAIN alerts : HoldsBack(i)'
  <2> SUFFICES ASSUME NEW i \in DOMAIN alerts, alerts[i].settled PROVE HoldsBack(i)'
    BY DEF HoldsBack
  <2>0. alerts[i].time \in Nat /\ HoldsBack(i)
    BY AlertFields DEF EvalInv
  <2>1. \A f \in Evaluators : evaluation'[f].at # "idle" =>
           evaluation'[f].now >= alerts[i].time /\ CooledDown(f, i)'
    <3> TAKE f \in Evaluators
    <3>1. CASE f = e
      BY <3>1, <2>0 DEF HoldsBack, CooledDown, GoesOn
    <3>2. CASE f # e
      BY <3>2, <2>0 DEF HoldsBack, CooledDown, GoesOn
    <3> QED BY <3>1, <3>2
  <2>2. ASSUME alerts[i].remembered PROVE \A d \in {"exact", "escalate"} : StillKept(d, i)'
    BY <2>2, <2>0, EvictionKeeps DEF HoldsBack, EvalInv
  <2>3. ASSUME alerts[i].remembered, NEW f \in Evaluators, evaluation'[f].at = "persisting"
        PROVE  Allows(i, Candidate(f, evaluation[f].rule), evaluation[f].checked,
                      evaluation[f].priority)'
    <3>1. f # e /\ evaluation'[f] = evaluation[f]
      BY <2>3 DEF GoesOn
    <3> QED BY <3>1, <2>3, <2>0 DEF HoldsBack, Allows, Candidate, TakenOver, TakesOver
  <2> QED BY <2>0, <2>1, <2>2, <2>3 DEF HoldsBack
<1>5. SettledAlertsHold'
  BY DEF EvalInv, SettledAlertsHold, CooldownAfterSettled, DuplicateHeld, After, TakesOver
<1> QED BY <1>1, <1>2, <1>3, <1>4, <1>5 DEF EvalInv

LEMMA SuppressKeeps ==
  ASSUME EvalInv, NEW e \in Evaluators, NEW r \in AlertRules, Suppress(e, r)
  PROVE  EvalInv'
BY GoingOnKeeps, SkipGoesOn DEF Suppress, NextRule, EvalInv

LEMMA ThrowKeeps ==
  ASSUME EvalInv, NEW e \in Evaluators, EvaluationThrows(e)
  PROVE  EvalInv'
<1>1. GoesOn(e)
  BY IdleType DEF EvaluationThrows, GoesOn, EvalInv, EvalTypes
<1> QED BY <1>1, GoingOnKeeps DEF EvaluationThrows

LEMMA TickKeeps ==
  ASSUME EvalInv, Tick
  PROVE  EvalInv'
<1> USE DEF EvalInv, Tick
<1>0. clock \in Nat /\ clock' = clock + 1
  BY DEF EvalTypes
<1>1. EvalTypes'
  BY <1>0 DEF EvalTypes
<1>2. ASSUME NEW e \in Evaluators PROVE EvaluationUnderWay(e)' /\ LastWord(e)'
  <2>1. evaluation[e] \in EvalState /\ EvaluationUnderWay(e) /\ LastWord(e)
    BY DEF EvalTypes
  <2>2. evaluation[e].now \in Nat /\ evaluation[e].checked \in Nat
    BY <2>1 DEF EvalState
  <2>3. EvaluationUnderWay(e)'
    BY <1>0, <2>1, <2>2 DEF EvaluationUnderWay
  <2> QED BY <2>1, <2>3 DEF LastWord
<1>3. ASSUME NEW i \in DOMAIN alerts PROVE HoldsBack(i)'
  <2>1. alerts[i] \in StoredAlert /\ HoldsBack(i)
    BY DEF EvalTypes
  <2>2. alerts[i].time \in Nat
    BY <2>1 DEF StoredAlert
  <2>3. ASSUME NEW d \in {"exact", "escalate"}, StillKept(d, i)
        PROVE  StillKept(d, i)'
    <3>1. DedupWindow[d] \in Nat
      BY AlertAssumption
    <3> QED BY <1>0, <2>2, <2>3, <3>1 DEF StillKept, Remembered, TakenOver, TakesOver
  <2>4. \A e \in Evaluators : CooledDown(e, i)' = CooledDown(e, i)
    BY DEF CooledDown
  <2> QED BY <1>0, <2>1, <2>2, <2>3, <2>4 DEF HoldsBack, Allows, Candidate, TakenOver, TakesOver
<1>4. SettledAlertsHold'
  BY DEF SettledAlertsHold, CooldownAfterSettled, DuplicateHeld, After, TakesOver
<1> QED BY <1>1, <1>2, <1>3, <1>4

LEMMA RestartKeeps ==
  ASSUME EvalInv, EvaluatorRestarts
  PROVE  EvalInv'
<1> DEFINE Forgotten(i) == [alerts[i] EXCEPT !.remembered = FALSE]
<1>1. ASSUME NEW i \in DOMAIN alerts
      PROVE  /\ Forgotten(i) \in StoredAlert /\ ~Forgotten(i).remembered
             /\ Forgotten(i).rule = alerts[i].rule /\ Forgotten(i).time = alerts[i].time
             /\ Forgotten(i).settled = alerts[i].settled
  <2>1. alerts[i] \in StoredAlert
    BY DEF EvalInv, EvalTypes
  <2> QED BY <2>1 DEF StoredAlert
<1>2. alerts' = [i \in DOMAIN alerts |-> Forgotten(i)]
  BY DEF EvaluatorRestarts
<1> HIDE DEF Forgotten
<1>3. /\ alerts' \in Seq(StoredAlert) /\ DOMAIN alerts' = DOMAIN alerts
      /\ \A i \in DOMAIN alerts : alerts'[i] = Forgotten(i)
  BY <1>1, <1>2 DEF EvalInv, EvalTypes
<1>4. \A e \in Evaluators : evaluation'[e] = Idle
  BY DEF EvaluatorRestarts
<1>5. EvalTypes'
  BY <1>3, IdleType DEF EvalInv, EvalTypes, EvaluatorRestarts
<1>6. \A e \in Evaluators : EvaluationUnderWay(e)' /\ LastWord(e)'
  BY <1>4, IdleType DEF EvaluationUnderWay, LastWord
<1>7. ASSUME NEW i \in DOMAIN alerts PROVE HoldsBack(i)'
  <2>1. HoldsBack(i) /\ UNCHANGED <<clock, lastTriggered>>
    BY DEF EvalInv, EvaluatorRestarts
  <2>2. /\ alerts'[i].rule = alerts[i].rule /\ alerts'[i].time = alerts[i].time
        /\ alerts'[i].settled = alerts[i].settled /\ ~alerts'[i].remembered
    BY <1>1, <1>3
  <2> QED BY <2>1, <2>2, <1>4, IdleType DEF HoldsBack
<1>8. SettledAlertsHold'
  BY <1>1, <1>3 DEF EvalInv, SettledAlertsHold, CooldownAfterSettled, DuplicateHeld, After
<1> QED BY <1>3, <1>5, <1>6, <1>7, <1>8 DEF EvalInv

LEMMA ReadKeeps ==
  ASSUME EvalInv, NEW e \in Evaluators, NEW holding \in Snapshots, ReadActiveRules(e, holding)
  PROVE  EvalInv'
<1> DEFINE others == {f \in Evaluators : Evaluating(f)}
           firing == {r \in AlertRules : ~CoolingDown(r, clock) /\ RuleFires(AlertRule[r], holding)}
           fresh == [Idle EXCEPT !.at = "looping", !.now = clock, !.holding = holding,
                                 !.todo = firing, !.alone = (others = {})]
           Joined(f) == [evaluation[f] EXCEPT !.alone = FALSE]
<1>0. EvalTypes /\ evaluation[e].at = "idle" /\ UNCHANGED <<clock, lastTriggered, alerts, recent>>
  BY DEF EvalInv, ReadActiveRules
<1>1. /\ fresh \in EvalState /\ fresh.at = "looping" /\ fresh.now = clock
      /\ fresh.holding = holding /\ fresh.todo = firing /\ fresh.alone = (others = {})
  BY <1>0, IdleType DEF EvalState, EvalTypes
<1>2. ASSUME NEW f \in Evaluators
      PROVE  /\ Joined(f) \in EvalState /\ ~Joined(f).alone
             /\ Joined(f).at = evaluation[f].at /\ Joined(f).now = evaluation[f].now
             /\ Joined(f).holding = evaluation[f].holding /\ Joined(f).todo = evaluation[f].todo
             /\ Joined(f).rule = evaluation[f].rule /\ Joined(f).alert = evaluation[f].alert
             /\ Joined(f).checked = evaluation[f].checked
             /\ Joined(f).priority = evaluation[f].priority
  <2>1. evaluation[f] \in EvalState
    BY <1>0 DEF EvalTypes
  <2> QED BY <2>1 DEF EvalState
<1>3. evaluation' = [f \in Evaluators |-> IF f = e THEN fresh
                       ELSE IF f \in others THEN Joined(f) ELSE evaluation[f]]
  BY DEF ReadActiveRules
<1>4. ASSUME NEW r \in firing
      PROVE  /\ r \in AlertRules /\ Holds(AlertRule[r], holding) # {}
             /\ ~CoolingDown(r, clock)
  <2>1. CASE AlertRule[r].conditionOp = "AND"
    <3>1. AlertRule[r].conditions # <<>> /\ Holds(AlertRule[r], holding) = DOMAIN AlertRule[r].conditions
      BY <2>1 DEF RuleFires
    <3>2. AlertRule[r].conditions \in Seq([metric : STRING, alertType : STRING])
      BY AlertAssumption DEF AlertRules
    <3>3. DOMAIN AlertRule[r].conditions # {}
      <4>1. Len(AlertRule[r].conditions) \in Nat \ {0}
        BY <3>1, <3>2, EmptySeq
      <4> DEFINE R == [metric : STRING, alertType : STRING]
                 list == AlertRule[r].conditions
      <4>2. list \in Seq(R)
        BY <3>2
      <4> HIDE DEF R, list
      <4>3. DOMAIN list = 1 .. Len(list)
        BY <4>2
      <4>4. 1 \in DOMAIN list
        BY <4>1, <4>3 DEF list
      <4> QED BY <4>4 DEF list
    <3> QED BY <3>1, <3>3
  <2>2. CASE AlertRule[r].conditionOp # "AND"
    BY <2>2 DEF RuleFires
  <2> QED BY <2>1, <2>2
<1> HIDE DEF fresh, Joined
<1>5. /\ evaluation'[e] = fresh
      /\ \A f \in Evaluators : f \in others => f # e /\ evaluation'[f] = Joined(f)
      /\ \A f \in Evaluators : (f # e /\ f \notin others) => evaluation'[f] = evaluation[f]
  BY <1>0, <1>3 DEF Evaluating
<1>6. EvalTypes'
  BY <1>0, <1>1, <1>2, <1>3 DEF EvalTypes
<1>7. ASSUME NEW f \in Evaluators PROVE EvaluationUnderWay(f)' /\ LastWord(f)'
  <2>1. CASE f = e
    <3>1. \A g \in Evaluators \ {e} : others = {} => evaluation'[g].at = "idle"
      BY <1>5 DEF Evaluating
    <3>2. clock \in Nat
      BY <1>0 DEF EvalTypes
    <3>3. \A r \in evaluation'[e].todo : Holds(AlertRule[r], evaluation'[e].holding) # {}
      BY <1>1, <1>4, <1>5
    <3>4. /\ evaluation'[e].at = "looping" /\ evaluation'[e].now = clock
          /\ evaluation'[e].alone => others = {}
      BY <1>1, <1>5
    <3> HIDE DEF others, firing
    <3>5. EvaluationUnderWay(e)'
      BY <3>1, <3>2, <3>3, <3>4, <1>0 DEF EvaluationUnderWay
    <3> QED BY <2>1, <3>4, <3>5 DEF LastWord
  <2>2. CASE f \in others
    <3>1. EvaluationUnderWay(f)
      BY DEF EvalInv
    <3>2. evaluation[f].at # "idle"
      BY <2>2 DEF Evaluating
    <3> QED BY <2>2, <3>1, <3>2, <1>0, <1>2, <1>5 DEF EvaluationUnderWay, LastWord
  <2>3. CASE f # e /\ f \notin others
    BY <2>3, <1>5 DEF EvaluationUnderWay, LastWord, Evaluating
  <2> QED BY <2>1, <2>2, <2>3
<1>8. ASSUME NEW i \in DOMAIN alerts, alerts[i].settled PROVE HoldsBack(i)'
  <2>0. HoldsBack(i) /\ alerts[i].rule \in AlertRules /\ alerts[i].time \in Nat
    BY <1>0, AlertFields DEF EvalInv
  <2>1. clock \in Nat /\ lastTriggered[alerts[i].rule] \in Int
         /\ AlertRule[alerts[i].rule].cooldownSeconds \in Nat
    BY <1>0, <2>0, RuleType DEF EvalTypes
  <2>2. CooledDown(e, i)'
    <3>1. SUFFICES ASSUME alerts[i].rule \in firing
                   PROVE clock - alerts[i].time >= AlertRule[alerts[i].rule].cooldownSeconds
      BY <1>0, <1>1, <1>5 DEF CooledDown
    <3>2. ~CoolingDown(alerts[i].rule, clock)
      BY <1>4, <3>1
    <3> QED BY <2>0, <2>1, <3>2, <1>8 DEF CoolingDown, HoldsBack, Never
  <2>3. \A f \in Evaluators : evaluation'[f].at # "idle" =>
           evaluation'[f].now >= alerts[i].time /\ CooledDown(f, i)'
    <3> TAKE f \in Evaluators
    <3>1. CASE f = e
      BY <3>1, <2>0, <2>1, <2>2, <1>1, <1>5, <1>8 DEF HoldsBack
    <3>2. CASE f \in others
      BY <3>2, <2>0, <1>0, <1>2, <1>5, <1>8 DEF HoldsBack, CooledDown, Evaluating
    <3>3. CASE f # e /\ f \notin others
      BY <3>3, <1>5 DEF Evaluating
    <3> QED BY <3>1, <3>2, <3>3
  <2>4. \A d \in {"exact", "escalate"} : StillKept(d, i)' = StillKept(d, i)
    BY <1>0 DEF StillKept, Remembered, TakenOver, TakesOver
  <2>5. ASSUME alerts[i].remembered, NEW f \in Evaluators, evaluation'[f].at = "persisting"
        PROVE  Allows(i, Candidate(f, evaluation[f].rule), evaluation[f].checked,
                      evaluation[f].priority)'
    <3>1. f \in others
      BY <2>5, <1>1, <1>5 DEF Evaluating
    <3>2. /\ evaluation[f].at = "persisting" /\ evaluation'[f].rule = evaluation[f].rule
          /\ evaluation'[f].holding = evaluation[f].holding
          /\ evaluation'[f].checked = evaluation[f].checked
          /\ evaluation'[f].priority = evaluation[f].priority
      BY <3>1, <2>5, <1>2, <1>5
    <3>3. Allows(i, Candidate(f, evaluation[f].rule), evaluation[f].checked,
                 evaluation[f].priority)
      BY <3>2, <2>0, <2>5, <1>8 DEF HoldsBack
    <3> QED BY <3>2, <3>3, <1>0 DEF Allows, Candidate, TakenOver, TakesOver
  <2> QED BY <1>0, <1>8, <2>0, <2>3, <2>4, <2>5 DEF HoldsBack
<1>9. \A i \in DOMAIN alerts' : HoldsBack(i)'
  BY <1>0, <1>8 DEF HoldsBack
<1>10. SettledAlertsHold'
  BY <1>0 DEF EvalInv, SettledAlertsHold, CooldownAfterSettled, DuplicateHeld, After, TakesOver
<1> QED BY <1>6, <1>7, <1>9, <1>10 DEF EvalInv

-----------------------------------------------------------------------------
(* The three steps of an alert: checked, stored, its rule marked *)

\* What the check leaves of the alert it lets through, if alert i is remembered
LEMMA CheckAllows ==
  ASSUME EvalTypes, NEW i \in DOMAIN alerts, NEW c \in Conditions,
         \A d \in {"exact", "escalate"} : StillKept(d, i),
         Decision(c) \notin {"exact", "crossSource"}, NEW own \in Nat
  PROVE  Allows(i, c, clock,
                IF Decision(c) = "escalate"
                  THEN Escalated(Evicted[Fingerprint("escalate", c)].priority, own) ELSE own)
<1> DEFINE a == alerts[i]
           age == clock - a.time
<1>0. /\ a.time \in Nat /\ a.condition \in Conditions /\ clock \in Nat /\ a.priority \in Nat
      /\ DedupWindow["exact"] \in Nat /\ DedupWindow["escalate"] \in Nat
      /\ DedupRules = {"exact", "crossSource", "escalate"}
  BY AlertFields, AlertAssumption, FingerprintValues DEF EvalTypes
<1>1. ASSUME NEW d \in {"exact", "escalate"}, age <= DedupWindow[d],
             Fingerprint(d, a.condition) = Fingerprint(d, c),
             d = "exact" \/ ~TakenOver(i)
      PROVE  /\ Matches(d, c)
             /\ d = "escalate" => Evicted[Fingerprint(d, c)].priority >= a.priority
             /\ Evicted[Fingerprint(d, c)] \in Recollection
  <2> DEFINE f == Fingerprint(d, c)
  <2>1. f \in Fingerprints
    BY <1>0, FingerprintValues
  <2>2. /\ recent[f] # NotSeen /\ recent[f].time >= a.time
        /\ d = "escalate" => recent[f].priority >= a.priority
    BY <1>0, <1>1 DEF StillKept, Remembered
  <2>3. recent[f] \in Recollection /\ recent[f].time \in Nat
    BY <2>1, <2>2 DEF EvalTypes, Recollection
  <2>4. clock - recent[f].time <= DedupWindow[d]
    BY <1>0, <1>1, <2>2, <2>3
  <2>5. Evicted[f] = recent[f]
    <3>1. d \in DedupRules /\ ~(clock - recent[f].time > DedupWindow[d])
      BY <1>0, <2>3, <2>4
    <3> QED BY <2>1, <3>1 DEF Evicted
  <2> QED BY <2>2, <2>3, <2>4, <2>5 DEF Matches
<1>2. ~Matches("exact", c)
  BY DEF Decision
<1>3. Matches("escalate", c) => Decision(c) = "escalate"
  BY DEF Decision
<1>4. a.condition = c => age > DedupWindow["exact"]
  BY <1>0, <1>1, <1>2
<1>5. ASSUME a.condition.alertType = c.alertType, age <= DedupWindow["escalate"], ~TakenOver(i)
      PROVE  (IF Decision(c) = "escalate"
                THEN Escalated(Evicted[Fingerprint("escalate", c)].priority, own) ELSE own)
               >= a.priority
  <2>1. Fingerprint("escalate", a.condition) = Fingerprint("escalate", c)
    BY <1>0, <1>5, FingerprintValues
  <2>2. /\ Decision(c) = "escalate"
        /\ Evicted[Fingerprint("escalate", c)].priority >= a.priority
        /\ Evicted[Fingerprint("escalate", c)].priority \in Nat
    BY <1>1, <1>3, <1>5, <2>1 DEF Recollection
  <2> QED BY <1>0, <2>2 DEF Escalated
<1> QED BY <1>4, <1>5 DEF Allows

\* While an evaluation is under way no other has the last word.
LEMMA OthersKeep ==
  ASSUME EvalInv, NEW e \in Evaluators, evaluation[e].at # "idle", clock' = clock,
         NEW f \in Evaluators, f # e, evaluation'[f] = evaluation[f],
         \A i \in DOMAIN alerts : /\ i \in DOMAIN alerts'
                                  /\ alerts'[i].rule = alerts[i].rule
                                  /\ alerts'[i].time = alerts[i].time
  PROVE  EvaluationUnderWay(f)' /\ LastWord(f)'
<1>1. EvaluationUnderWay(f)
  BY DEF EvalInv
<1>2. ~(evaluation[f].at # "idle" /\ evaluation[f].alone)
  BY <1>1 DEF EvaluationUnderWay
<1> QED BY <1>1, <1>2 DEF EvaluationUnderWay, LastWord

LEMMA CheckKeeps ==
  ASSUME EvalInv, NEW e \in Evaluators, NEW r \in AlertRules, CheckDuplicate(e, r)
  PROVE  EvalInv'
<1> DEFINE c == Candidate(e, r)
           own == AlertRule[r].priority
           raised == IF Decision(c) = "escalate"
                       THEN Escalated(Evicted[Fingerprint("escalate", c)].priority, own) ELSE own
           s == evaluation[e]
           t == [s EXCEPT !.at = "persisting", !.todo = s.todo \ {r}, !.rule = r,
                          !.checked = clock, !.priority = raised]
<1>0. /\ EvalTypes /\ UNCHANGED <<clock, lastTriggered, alerts>> /\ recent' = Evicted
      /\ s \in EvalState /\ s.at = "looping" /\ r \in s.todo /\ clock \in Nat /\ own \in Nat
      /\ EvaluationUnderWay(e)
  BY RuleType DEF EvalInv, EvalTypes, CheckDuplicate, NextRule
<1>1. CASE Decision(c) \in {"exact", "crossSource"}
  <2>1. Skip(e, r)
    BY <1>1 DEF CheckDuplicate
  <2> QED BY <2>1, <1>0, SkipGoesOn, GoingOnKeeps
<1>2. CASE Decision(c) \notin {"exact", "crossSource"}
  <2>1. c \in Conditions /\ Holds(AlertRule[r], s.holding) # {}
    BY <1>0, FirstTriggeredIsCondition DEF EvaluationUnderWay, Candidate
  <2>2. raised \in Nat
    <3>1. Decision(c) = "escalate" => Evicted[Fingerprint("escalate", c)] \in Recollection
      <4>1. ASSUME Decision(c) = "escalate" PROVE Matches("escalate", c)
        BY <4>1 DEF Decision
      <4>2. Fingerprint("escalate", c) \in Fingerprints
        BY <2>1, FingerprintValues
      <4> QED BY <4>1, <4>2, <1>0, EvictedType DEF Matches
    <3>2. Decision(c) = "escalate" => Evicted[Fingerprint("escalate", c)].priority \in Nat
      BY <3>1 DEF Recollection
    <3> QED BY <3>2, <1>0 DEF Escalated
  <2> HIDE DEF raised
  <2>3. /\ t \in EvalState /\ t.at = "persisting" /\ t.todo = s.todo \ {r} /\ t.rule = r
        /\ t.checked = clock /\ t.priority = raised /\ t.now = s.now /\ t.holding = s.holding
        /\ t.alone = s.alone
    BY <1>0, <2>2 DEF EvalState
  <2>4. evaluation' = [evaluation EXCEPT ![e] = t]
    BY <1>2, <1>0 DEF CheckDuplicate, raised
  <2> HIDE DEF t
  <2>5. evaluation'[e] = t /\ \A f \in Evaluators : f # e => evaluation'[f] = evaluation[f]
    BY <1>0, <2>4 DEF EvalTypes
  <2>6. EvalTypes'
    BY <1>0, <2>3, <2>4, EvictedType DEF EvalTypes
  <2>7. \A f \in Evaluators : EvaluationUnderWay(f)' /\ LastWord(f)'
    <3>1. ASSUME NEW f \in Evaluators, f # e PROVE EvaluationUnderWay(f)' /\ LastWord(f)'
      BY <3>1, <1>0, <2>5, OthersKeep
    <3>2. \A f \in Evaluators \ {e} : s.alone => evaluation'[f].at = "idle"
      BY <1>0, <2>5 DEF EvaluationUnderWay
    <3>3. EvaluationUnderWay(e)' /\ LastWord(e)'
      BY <3>2, <1>0, <2>1, <2>3, <2>5 DEF EvaluationUnderWay, LastWord
    <3> QED BY <3>1, <3>3
  <2>8. ASSUME NEW i \in DOMAIN alerts, alerts[i].settled PROVE HoldsBack(i)'
    <3>0. HoldsBack(i)
      BY DEF EvalInv
    <3>1. \A f \in Evaluators : evaluation'[f].at # "idle" =>
             evaluation'[f].now >= alerts[i].time /\ CooledDown(f, i)'
      <4> TAKE f \in Evaluators
      <4>1. CASE f = e
        BY <4>1, <3>0, <1>0, <2>3, <2>5, <2>8 DEF HoldsBack, CooledDown
      <4>2. CASE f # e
        BY <4>2, <3>0, <1>0, <2>5, <2>8 DEF HoldsBack, CooledDown
      <4> QED BY <4>1, <4>2
    <3>2. ASSUME alerts[i].remembered
          PROVE  \A d \in {"exact", "escalate"} : StillKept(d, i)'
      BY <3>0, <3>2, <2>8, <1>0, AlertFields, EvictionKeeps DEF HoldsBack
    <3>3. ASSUME alerts[i].remembered, NEW f \in Evaluators, evaluation'[f].at = "persisting"
          PROVE  Allows(i, Candidate(f, evaluation[f].rule), evaluation[f].checked,
                        evaluation[f].priority)'
      <4>1. CASE f = e
        <5>1. Allows(i, c, clock, raised)
          BY <3>0, <3>3, <2>8, <1>0, <1>2, <2>1, CheckAllows DEF HoldsBack, raised
        <5> QED BY <5>1, <4>1, <1>0, <2>3, <2>5 DEF Allows, Candidate, TakenOver, TakesOver
      <4>2. CASE f # e
        <5>1. Allows(i, Candidate(f, evaluation[f].rule), evaluation[f].checked,
                     evaluation[f].priority)
          BY <4>2, <3>0, <3>3, <2>5, <2>8 DEF HoldsBack
        <5> QED BY <5>1, <4>2, <1>0, <2>5 DEF Allows, Candidate, TakenOver, TakesOver
      <4> QED BY <4>1, <4>2
    <3> QED BY <1>0, <2>8, <3>0, <3>1, <3>2, <3>3 DEF HoldsBack
  <2>9. \A i \in DOMAIN alerts' : HoldsBack(i)'
    BY <1>0, <2>8 DEF HoldsBack
  <2>10. SettledAlertsHold'
    BY <1>0 DEF EvalInv, SettledAlertsHold, CooldownAfterSettled, DuplicateHeld, After, TakesOver
  <2> QED BY <2>6, <2>7, <2>9, <2>10 DEF EvalInv
<1> QED BY <1>1, <1>2

\* The record of an alert that was let through keeps what is remembered.
LEMMA RecordKeeps ==
  ASSUME EvalTypes, NEW i \in DOMAIN alerts,
         NEW c \in Conditions, NEW time \in Nat, NEW priority \in Nat, NEW checked \in Nat,
         checked <= clock, time >= alerts[i].time, Allows(i, c, checked, priority),
         recent' = Recorded(c, time, priority), clock' = clock,
         \A k \in DOMAIN alerts : k \in DOMAIN alerts' /\ alerts'[k] = alerts[k],
         NEW last \in DOMAIN alerts', i < last,
         alerts'[last].condition = c, alerts'[last].priority = priority,
         NEW d \in {"exact", "escalate"}, StillKept(d, i)
  PROVE  StillKept(d, i)'
<1> DEFINE a == alerts[i]
           f == Fingerprint(d, a.condition)
           new == [time |-> time, priority |-> priority]
<1>0. /\ a.time \in Nat /\ a.condition \in Conditions /\ clock \in Nat /\ a.priority \in Nat
      /\ d \in DedupRules /\ DedupWindow[d] \in Nat /\ f \in Fingerprints
  BY AlertFields, WindowType, FingerprintValues DEF EvalTypes
<1>1. new # NotSeen /\ new.time = time /\ new.priority = priority
  BY RecollectionDiffers DEF Recollection
<1>2. recent'[f] = IF \E x \in DedupRules : f = Fingerprint(x, c) THEN new ELSE recent[f]
  BY <1>0 DEF Recorded
<1> HIDE DEF new
<1>t. TakenOver(i) => TakenOver(i)'
  BY DEF TakenOver, TakesOver
<1>3. CASE (~ \E x \in DedupRules : f = Fingerprint(x, c)) /\ Remembered(d, alerts[i])
  BY <1>2, <1>3 DEF StillKept, Remembered
<1>4. CASE clock - a.time > DedupWindow[d]
  BY <1>4 DEF StillKept, Remembered
<1>5. ASSUME NEW x \in DedupRules, f = Fingerprint(x, c), clock - a.time <= DedupWindow[d]
      PROVE  StillKept(d, i)'
  <2>1. d = "escalate" => priority >= a.priority \/ TakenOver(i)'
    <3>1. SUFFICES ASSUME d = "escalate" PROVE priority >= a.priority \/ TakenOver(i)'
      OBVIOUS
    <3>0. a.condition \in Conditions /\ Fingerprint("escalate", a.condition) = Fingerprint(x, c)
      BY <1>0, <1>5, <3>1
    <3>2. \/ x = "escalate" /\ a.condition.alertType = c.alertType
          \/ x = "crossSource" /\ a.condition.alertType = c.metric
      BY <3>0, SharedFingerprints
    <3>3. CASE a.condition.alertType = c.alertType
      BY <1>0, <1>5, <1>t, <3>1, <3>3 DEF Allows
    <3>4. CASE a.condition.alertType = c.metric /\ a.condition.alertType # c.alertType
      \* The new alert takes the entry over, unless it is as severe.
      BY <1>0, <3>4 DEF TakenOver, TakesOver
    <3> QED BY <3>2, <3>3, <3>4
  <2> QED BY <1>1, <1>2, <1>5, <2>1 DEF StillKept, Remembered
<1> QED BY <1>0, <1>t, <1>3, <1>4, <1>5 DEF StillKept

LEMMA PersistKeeps ==
  ASSUME EvalInv, NEW e \in Evaluators, PersistEvent(e)
  PROVE  EvalInv'
<1> DEFINE s == evaluation[e]
           c == Candidate(e, s.rule)
           n == Len(alerts)
           newest == [rule |-> s.rule, condition |-> c, priority |-> s.priority,
                      time |-> s.now, checked |-> s.checked, settled |-> FALSE, remembered |-> TRUE]
<1>0. /\ EvalTypes /\ UNCHANGED <<clock, lastTriggered>> /\ clock \in Nat
      /\ s \in EvalState /\ s.at = "persisting" /\ EvaluationUnderWay(e) /\ n \in Nat
  BY DEF EvalInv, EvalTypes, PersistEvent
<1>1. /\ s.rule \in AlertRules /\ s.priority \in Nat /\ s.now \in Nat /\ s.checked \in Nat
      /\ s.checked <= clock /\ s.now <= clock
      /\ Holds(AlertRule[s.rule], s.holding) # {} /\ s.rule \notin s.todo
  BY <1>0 DEF EvalState, EvaluationUnderWay
<1>2. c \in Conditions
  BY <1>1, FirstTriggeredIsCondition DEF Candidate
<1> HIDE DEF c
<1>3. /\ newest \in StoredAlert /\ newest.rule = s.rule /\ newest.condition = c
      /\ newest.priority = s.priority /\ newest.time = s.now /\ newest.checked = s.checked
      /\ ~newest.settled
  BY <1>1, <1>2 DEF StoredAlert
<1>4. alerts' = Append(alerts, newest) /\ recent' = Recorded(c, s.now, s.priority)
  BY DEF PersistEvent, c
<1> HIDE DEF newest
<1>5. /\ alerts' \in Seq(StoredAlert) /\ Len(alerts') = n + 1 /\ alerts'[n + 1] = newest
      /\ DOMAIN alerts' = 1 .. n + 1 /\ DOMAIN alerts = 1 .. n
      /\ \A i \in DOMAIN alerts : i \in DOMAIN alerts' /\ i # n + 1 /\ alerts'[i] = alerts[i]
  BY <1>0, <1>3, <1>4 DEF EvalTypes
<1>a. PICK last \in Nat : last = n + 1
  BY <1>0
<1> DEFINE t == [s EXCEPT !.at = "marking", !.alert = last]
<1>6. /\ t \in EvalState /\ t.at = "marking" /\ t.alert = last /\ t.now = s.now /\ t.rule = s.rule
      /\ t.todo = s.todo /\ t.holding = s.holding /\ t.alone = s.alone
  BY <1>0, <1>a DEF EvalState
<1>7. evaluation' = [evaluation EXCEPT ![e] = t]
  <2>1. Len(alerts') = last
    BY <1>5, <1>a
  <2>2. evaluation' = [evaluation EXCEPT ![e].at = "marking", ![e].alert = last]
    BY <2>1 DEF PersistEvent
  <2> QED BY <2>2
<1> HIDE DEF t
<1>8. evaluation'[e] = t /\ \A f \in Evaluators : f # e => evaluation'[f] = evaluation[f]
  BY <1>0, <1>7 DEF EvalTypes
<1>9. recent' \in [Fingerprints -> {NotSeen} \cup Recollection]
  BY <1>0, <1>1, <1>4 DEF Recorded, EvalTypes, Recollection
<1>10. EvalTypes'
  BY <1>0, <1>5, <1>6, <1>7, <1>9 DEF EvalTypes
<1>11. \A f \in Evaluators : EvaluationUnderWay(f)' /\ LastWord(f)'
  <2>1. ASSUME NEW f \in Evaluators, f # e PROVE EvaluationUnderWay(f)' /\ LastWord(f)'
    BY <2>1, <1>0, <1>5, <1>8, OthersKeep
  <2>2. \A f \in Evaluators \ {e} : s.alone => evaluation'[f].at = "idle"
    BY <1>0, <1>8 DEF EvaluationUnderWay
  <2>3. EvaluationUnderWay(e)'
    <3>1. clock' = clock /\ evaluation'[e] = t
      BY <1>0, <1>8
    <3>2. /\ t.now <= clock
          /\ t.alone => \A f \in Evaluators \ {e} : evaluation'[f].at = "idle"
          /\ Holds(AlertRule[t.rule], t.holding) # {} /\ t.rule \notin t.todo
      BY <2>2, <1>1, <1>6
    <3>3. \A r \in t.todo : Holds(AlertRule[r], t.holding) # {}
      BY <1>0, <1>6 DEF EvaluationUnderWay
    <3>4. /\ t.alert \in DOMAIN alerts' /\ alerts'[t.alert].rule = t.rule
          /\ alerts'[t.alert].time = t.now
      <4>1. last \in DOMAIN alerts' /\ alerts'[last] = newest
        BY <1>0, <1>5, <1>a
      <4> QED BY <4>1, <1>3, <1>6
    <3> QED BY <3>1, <3>2, <3>3, <3>4, <1>6 DEF EvaluationUnderWay
  <2>4. ASSUME NEW d \in {"exact", "escalate"}
        PROVE  LET found == recent'[Fingerprint(d, c)] IN
               found # NotSeen /\ found.time = s.now /\ found.priority = s.priority
    <3> DEFINE new == [time |-> s.now, priority |-> s.priority]
    <3>1. Fingerprint(d, c) \in Fingerprints /\ d \in DedupRules
      BY <1>2, FingerprintValues
    <3>2. recent'[Fingerprint(d, c)] = new
      BY <1>4, <3>1 DEF Recorded
    <3>3. new # NotSeen /\ new.time = s.now /\ new.priority = s.priority
      BY <1>1, RecollectionDiffers DEF Recollection
    <3> QED BY <3>2, <3>3
  <2>5. LastWord(e)'
    BY <2>4, <1>3, <1>5, <1>6, <1>8, <1>a DEF LastWord
  <2> QED BY <2>1, <2>3, <2>5
<1>12. ASSUME NEW i \in DOMAIN alerts, alerts[i].settled PROVE HoldsBack(i)'
  <2>0. HoldsBack(i) /\ alerts'[i] = alerts[i]
    BY <1>5 DEF EvalInv
  <2>1. \A f \in Evaluators : evaluation'[f].at # "idle" =>
           evaluation'[f].now >= alerts[i].time /\ CooledDown(f, i)'
    <3> TAKE f \in Evaluators
    <3>1. CASE f = e
      BY <3>1, <2>0, <1>0, <1>6, <1>8, <1>12 DEF HoldsBack, CooledDown
    <3>2. CASE f # e
      BY <3>2, <2>0, <1>0, <1>8, <1>12 DEF HoldsBack, CooledDown
    <3> QED BY <3>1, <3>2
  <2>2. ASSUME alerts[i].remembered
        PROVE  \A d \in {"exact", "escalate"} : StillKept(d, i)'
    <3>0. last \in DOMAIN alerts' /\ i < last /\ alerts'[last] = newest
      BY <1>0, <1>5, <1>a
    <3>1. Allows(i, c, s.checked, s.priority) /\ s.now >= alerts[i].time
      BY <2>0, <2>2, <1>0, <1>12 DEF HoldsBack, c
    <3>2. \A d \in {"exact", "escalate"} : StillKept(d, i)
      BY <2>0, <2>2, <1>12 DEF HoldsBack
    <3>3. alerts'[last].condition = c /\ alerts'[last].priority = s.priority
      BY <3>0, <1>3
    <3> QED BY <3>0, <3>1, <3>2, <3>3, <1>0, <1>1, <1>2, <1>4, <1>5, RecordKeeps
  <2>3. ASSUME alerts[i].remembered, NEW f \in Evaluators, evaluation'[f].at = "persisting"
        PROVE  Allows(i, Candidate(f, evaluation[f].rule), evaluation[f].checked,
                      evaluation[f].priority)'
    <3>1. f # e
      BY <2>3, <1>6, <1>8
    <3>2. Allows(i, Candidate(f, evaluation[f].rule), evaluation[f].checked,
                 evaluation[f].priority)
      BY <3>1, <2>0, <2>3, <1>8, <1>12 DEF HoldsBack
    <3>3. TakenOver(i) => TakenOver(i)'
      BY <1>5 DEF TakenOver, TakesOver
    <3> QED BY <3>1, <3>2, <3>3, <2>0, <1>8 DEF Allows, Candidate
  <2> QED BY <1>0, <1>12, <2>0, <2>1, <2>2, <2>3 DEF HoldsBack
<1>13. \A i \in DOMAIN alerts' : HoldsBack(i)'
  <2> TAKE i \in DOMAIN alerts'
  <2>1. CASE i = n + 1
    BY <2>1, <1>3, <1>5 DEF HoldsBack
  <2>2. CASE i # n + 1
    <3>1. i \in DOMAIN alerts /\ alerts'[i] = alerts[i]
      BY <2>2, <1>0, <1>5
    <3> QED BY <3>1, <1>12 DEF HoldsBack
  <2> QED BY <2>1, <2>2
\* The new alert comes after all others.
<1>14. ASSUME NEW i \in DOMAIN alerts, alerts[i].settled
       PROVE  /\ alerts[i].rule = s.rule =>
                   s.now - alerts[i].time >= AlertRule[alerts[i].rule].cooldownSeconds
              /\ alerts[i].remembered => Allows(i, c, s.checked, s.priority)
  BY <1>0, <1>14 DEF EvalInv, HoldsBack, CooledDown, c
<1>15. CooldownAfterSettled'
  <2> SUFFICES ASSUME NEW i \in DOMAIN alerts', NEW j \in DOMAIN alerts', i < j,
                      alerts'[i].settled, alerts'[i].rule = alerts'[j].rule
               PROVE  alerts'[j].time - alerts'[i].time
                        >= AlertRule[alerts'[i].rule].cooldownSeconds
    BY DEF CooldownAfterSettled, After
  <2>1. i \in DOMAIN alerts /\ alerts'[i] = alerts[i]
    BY <1>0, <1>5
  <2>2. CASE j = n + 1
    BY <2>1, <2>2, <1>3, <1>5, <1>14
  <2>3. CASE j # n + 1
    <3>1. j \in DOMAIN alerts /\ alerts'[j] = alerts[j]
      BY <2>3, <1>0, <1>5
    <3> QED BY <2>1, <3>1 DEF EvalInv, SettledAlertsHold, CooldownAfterSettled, After
  <2> QED BY <2>2, <2>3
<1>16. DuplicateHeld'
  <2> SUFFICES ASSUME NEW i \in DOMAIN alerts', NEW j \in DOMAIN alerts', i < j,
                      alerts'[i].settled, alerts'[i].remembered
               PROVE  LET age == alerts'[j].checked - alerts'[i].time IN
                      /\ alerts'[i].condition = alerts'[j].condition => age > DedupWindow["exact"]
                      /\ (alerts'[i].condition.alertType = alerts'[j].condition.alertType
                            /\ age <= DedupWindow["escalate"])
                           => \/ alerts'[j].priority >= alerts'[i].priority
                              \/ \E k \in DOMAIN alerts' : i < k /\ k < j /\ TakesOver(k, i)'
    BY DEF DuplicateHeld, After
  <2>1. i \in DOMAIN alerts /\ alerts'[i] = alerts[i]
    BY <1>0, <1>5
  <2>2. CASE j = n + 1
    <3>1. Allows(i, c, s.checked, s.priority) /\ alerts'[j] = newest
      BY <2>1, <2>2, <1>5, <1>14
    <3>2. TakenOver(i) => \E k \in DOMAIN alerts' : i < k /\ k < j /\ TakesOver(k, i)'
      BY <2>1, <2>2, <1>0, <1>5 DEF TakenOver, TakesOver
    <3> QED BY <2>1, <3>1, <3>2, <1>3 DEF Allows
  <2>3. CASE j # n + 1
    <3>1. j \in DOMAIN alerts /\ alerts'[j] = alerts[j]
      BY <2>3, <1>0, <1>5
    <3>2. \A k \in DOMAIN alerts : k \in DOMAIN alerts' /\ TakesOver(k, i) = TakesOver(k, i)'
      BY <2>1, <1>5 DEF TakesOver
    <3> QED BY <2>1, <3>1, <3>2 DEF EvalInv, SettledAlertsHold, DuplicateHeld, After
  <2> QED BY <2>2, <2>3
<1> QED BY <1>10, <1>11, <1>13, <1>15, <1>16 DEF EvalInv, SettledAlertsHold

\* An alert that is settled is the last, and no other evaluation is under way.
LEMMA MarkKeeps ==
  ASSUME EvalInv, NEW e \in Evaluators, MarkRuleTriggered(e)
  PROVE  EvalInv'
<1> DEFINE s == evaluation[e]
<1>a. PICK a : a = s.alert
  OBVIOUS
<1>0. /\ EvalTypes /\ UNCHANGED <<clock, recent>> /\ s \in EvalState /\ s.at = "marking"
      /\ EvaluationUnderWay(e) /\ LastWord(e) /\ GoesOn(e)
      /\ a \in DOMAIN alerts /\ alerts[a].rule = s.rule /\ alerts[a].time = s.now
      /\ s.rule \in AlertRules /\ s.now \in Nat /\ s.alone \in BOOLEAN /\ s.now <= clock
  BY <1>a, ProceedGoesOn DEF EvalInv, EvalTypes, EvalState, EvaluationUnderWay, MarkRuleTriggered
<1> DEFINE marked == [alerts[a] EXCEPT !.settled = s.alone]
<1>1. /\ marked \in StoredAlert /\ marked.settled = s.alone /\ marked.rule = alerts[a].rule
      /\ marked.time = alerts[a].time /\ marked.condition = alerts[a].condition
      /\ marked.checked = alerts[a].checked /\ marked.priority = alerts[a].priority
      /\ marked.remembered = alerts[a].remembered
  <2>1. alerts[a] \in StoredAlert
    BY <1>0, AlertFields
  <2> QED BY <2>1, <1>0 DEF StoredAlert
<1>2. alerts' = [alerts EXCEPT ![a] = marked]
  BY <1>a DEF MarkRuleTriggered
<1> HIDE DEF marked
<1>3. /\ alerts' \in Seq(StoredAlert) /\ Len(alerts') = Len(alerts)
      /\ DOMAIN alerts' = DOMAIN alerts
      /\ alerts'[a] = marked /\ \A i \in DOMAIN alerts : i # a => alerts'[i] = alerts[i]
  BY <1>0, <1>1, <1>2 DEF EvalTypes
<1>4. \A i \in DOMAIN alerts :
        /\ alerts'[i].rule = alerts[i].rule /\ alerts'[i].time = alerts[i].time
        /\ alerts'[i].condition = alerts[i].condition /\ alerts'[i].checked = alerts[i].checked
        /\ alerts'[i].priority = alerts[i].priority /\ alerts'[i].remembered = alerts[i].remembered
        /\ i # a => alerts'[i].settled = alerts[i].settled
  BY <1>1, <1>3
<1>5. /\ lastTriggered' \in [AlertRules -> Int] /\ lastTriggered'[s.rule] = s.now
      /\ \A r \in AlertRules : r # s.rule => lastTriggered'[r] = lastTriggered[r]
  BY <1>0 DEF EvalTypes, MarkRuleTriggered
<1>6. EvalTypes'
  BY <1>0, <1>3, <1>5 DEF EvalTypes, GoesOn
<1>7. \A f \in Evaluators : EvaluationUnderWay(f)' /\ LastWord(f)'
  <2>1. ASSUME NEW f \in Evaluators, f # e PROVE EvaluationUnderWay(f)' /\ LastWord(f)'
    BY <2>1, <1>0, <1>3, <1>4, OthersKeep DEF GoesOn
  <2>2. \A f \in Evaluators \ {e} : s.alone => evaluation'[f].at = "idle"
    BY <1>0 DEF EvaluationUnderWay, GoesOn
  <2>3. EvaluationUnderWay(e)' /\ LastWord(e)'
    BY <2>2, <1>0 DEF EvaluationUnderWay, LastWord, GoesOn
  <2> QED BY <2>1, <2>3
<1>8. ASSUME NEW i \in DOMAIN alerts, i # a, alerts[i].settled PROVE HoldsBack(i)'
  <2>0. /\ HoldsBack(i) /\ alerts'[i] = alerts[i] /\ alerts[i].rule \in AlertRules
        /\ alerts[i].time \in Nat
    BY <1>0, <1>3, <1>8, AlertFields DEF EvalInv
  <2>1. \A f \in Evaluators : evaluation'[f].at # "idle" =>
           evaluation'[f].now >= alerts[i].time /\ CooledDown(f, i)'
    <3> TAKE f \in Evaluators
    <3>1. CASE f = e
      BY <3>1, <2>0, <1>0, <1>8 DEF HoldsBack, CooledDown, GoesOn
    <3>2. CASE f # e
      BY <3>2, <2>0, <1>0, <1>8 DEF HoldsBack, CooledDown, GoesOn
    <3> QED BY <3>1, <3>2
  <2>2. lastTriggered'[alerts[i].rule] >= alerts[i].time
    BY <1>0, <1>5, <1>8, <2>0 DEF HoldsBack
  <2>a. TakenOver(i)' = TakenOver(i)
    BY <1>3, <1>4 DEF TakenOver, TakesOver
  <2>3. \A d \in {"exact", "escalate"} : StillKept(d, i)' = StillKept(d, i)
    BY <1>0, <2>0, <2>a DEF StillKept, Remembered
  <2>4. ASSUME alerts[i].remembered, NEW f \in Evaluators, evaluation'[f].at = "persisting"
        PROVE  Allows(i, Candidate(f, evaluation[f].rule), evaluation[f].checked,
                      evaluation[f].priority)'
    <3>1. f # e /\ evaluation'[f] = evaluation[f]
      BY <2>4, <1>0 DEF GoesOn
    <3>2. Allows(i, Candidate(f, evaluation[f].rule), evaluation[f].checked,
                 evaluation[f].priority)
      BY <3>1, <2>0, <2>4, <1>8 DEF HoldsBack
    <3> QED BY <3>1, <3>2, <2>0, <2>a DEF Allows, Candidate
  <2> QED BY <1>0, <1>8, <2>0, <2>1, <2>2, <2>3, <2>4 DEF HoldsBack
<1>9. ASSUME s.alone PROVE HoldsBack(a)'
  <2>0. \A f \in Evaluators : f # e => evaluation'[f].at = "idle"
    BY <1>0, <1>9 DEF EvaluationUnderWay, GoesOn
  <2>1. ASSUME NEW f \in Evaluators, evaluation'[f].at # "idle"
        PROVE  evaluation'[f].now >= s.now /\ CooledDown(f, a)' /\ evaluation'[f].at # "persisting"
    <3>1. f = e
      BY <2>0, <2>1
    <3>2. evaluation'[e].now = s.now /\ s.rule \notin evaluation'[e].todo
      BY <2>1, <3>1, <1>0 DEF GoesOn, EvaluationUnderWay
    <3> QED BY <3>1, <3>2, <1>0, <1>4 DEF CooledDown, GoesOn
  <2>2. ASSUME NEW d \in {"exact", "escalate"} PROVE StillKept(d, a)'
    <3>1. LET found == recent[Fingerprint(d, alerts[a].condition)] IN
          found # NotSeen /\ found.time = s.now /\ found.priority = alerts[a].priority
      BY <1>0, <1>9, <1>a DEF LastWord
    <3>2. alerts[a].priority \in Nat
      BY <1>0, AlertFields
    <3> QED BY <3>1, <3>2, <1>0, <1>4 DEF StillKept, Remembered
  <2>3. lastTriggered'[alerts'[a].rule] >= alerts'[a].time /\ alerts'[a].time <= clock
    BY <1>0, <1>4, <1>5
  <2> QED BY <2>1, <2>2, <2>3, <1>0, <1>4 DEF HoldsBack
<1>10. \A i \in DOMAIN alerts' : HoldsBack(i)'
  <2> TAKE i \in DOMAIN alerts'
  <2>1. CASE i = a
    BY <2>1, <1>1, <1>3, <1>9 DEF HoldsBack
  <2>2. CASE i # a
    BY <2>2, <1>3, <1>4, <1>8 DEF HoldsBack
  <2> QED BY <2>1, <2>2
\* No alert follows the one that is settled.
<1>11. \A i, j \in DOMAIN alerts : After(i, j)' => After(i, j)
  <2> SUFFICES ASSUME NEW i \in DOMAIN alerts, NEW j \in DOMAIN alerts, i < j, alerts'[i].settled
               PROVE  alerts[i].settled
    BY DEF After
  <2>1. CASE i = a
    <3>1. s.alone
      BY <2>1, <1>1, <1>3
    <3>2. i = Len(alerts) /\ j \in 1 .. Len(alerts) /\ Len(alerts) \in Nat
      BY <2>1, <3>1, <1>0, <1>a, AlertFields DEF LastWord
    <3> QED BY <3>2
  <2>2. CASE i # a
    BY <2>2, <1>4
  <2> QED BY <2>1, <2>2
<1>12. SettledAlertsHold'
  <2>1. \A i, k \in DOMAIN alerts : TakesOver(k, i)' = TakesOver(k, i)
    BY <1>4 DEF TakesOver
  <2> QED BY <2>1, <1>3, <1>4, <1>11 DEF EvalInv, SettledAlertsHold, CooldownAfterSettled, DuplicateHeld
<1> QED BY <1>6, <1>7, <1>10, <1>12 DEF EvalInv

LEMMA EvaluationStutter ==
  ASSUME EvalInv, UNCHANGED alertVars
  PROVE  EvalInv'
<1> USE DEF alertVars
<1>1. EvalTypes' /\ SettledAlertsHold'
  BY DEF EvalInv, EvalTypes, SettledAlertsHold, CooldownAfterSettled, DuplicateHeld, After, TakesOver
<1>2. \A e \in Evaluators : EvaluationUnderWay(e)' /\ LastWord(e)'
  BY DEF EvalInv, EvaluationUnderWay, LastWord
<1>3. ASSUME NEW i \in DOMAIN alerts PROVE HoldsBack(i)'
  <2>1. \A d \in {"exact", "escalate"} : StillKept(d, i)' = StillKept(d, i)
    BY DEF StillKept, Remembered, TakenOver, TakesOver
  <2>2. \A e \in Evaluators : CooledDown(e, i)' = CooledDown(e, i)
    BY DEF CooledDown
  <2> QED BY <2>1, <2>2 DEF EvalInv, HoldsBack, Allows, Candidate, TakenOver, TakesOver
<1> QED BY <1>1, <1>2, <1>3 DEF EvalInv

LEMMA EvaluationInit == AlertInit => EvalInv
<1> SUFFICES ASSUME AlertInit PROVE EvalInv
  OBVIOUS
<1>1. EvalTypes /\ alerts = <<>> /\ \A e \in Evaluators : evaluation[e] = Idle
  BY IdleType DEF AlertInit, EvalTypes, Never
<1> QED BY <1>1, IdleType DEF EvalInv, EvaluationUnderWay, LastWord, HoldsBack, SettledAlertsHold,
                              CooldownAfterSettled, DuplicateHeld

\* However evaluations overlap and fail, an alert whose evaluation had its asset
\* to itself holds back those its cooldown and its windows forbid (evaluateAsset,
\* markRuleTriggered, DuplicateAlertCheckService.check and record).
THEOREM SettledAlertsHoldBack == AlertSpec => []SettledAlertsHold
<1>1. ASSUME EvalInv, [AlertNext]_alertVars PROVE EvalInv'
  <2>1. CASE AlertNext
    BY <2>1, <1>1, ReadKeeps, SuppressKeeps, CheckKeeps, PersistKeeps, MarkKeeps, ThrowKeeps,
       RestartKeeps, TickKeeps DEF AlertNext
  <2>2. CASE UNCHANGED alertVars
    BY <2>2, <1>1, EvaluationStutter
  <2> QED BY <1>1, <2>1, <2>2
<1>2. EvalInv => SettledAlertsHold
  BY DEF EvalInv
<1> QED BY <1>1, <1>2, EvaluationInit, PTL DEF AlertSpec

-----------------------------------------------------------------------------
(* Types of the evaluation *)

Remembrance == [time : 0 .. MaxClock, priority : Priorities]

\* What an evaluation holds is enough to store an alert.
Sound(s, now, written) ==
  /\ s.now <= now
  /\ \A r \in s.todo : Holds(AlertRule[r], s.holding) # {}
  /\ s.at = "persisting" => /\ Holds(AlertRule[s.rule], s.holding) # {}
                            /\ s.priority \in Priorities /\ s.checked <= now
  /\ s.at = "marking" => s.alert \in 1 .. written

Stored ==
  /\ lastTriggered \in [AlertRules -> Never .. MaxClock]
  /\ alerts \in Seq(Alert) /\ Len(alerts) <= MaxAlerts
  /\ recent \in [Fingerprints -> {NotSeen} \cup Remembrance]

EvalTypeInv ==
  /\ clock \in 0 .. MaxClock /\ alertFaults \in 0 .. MaxAlertFaults
  /\ Stored
  /\ evaluation \in [Evaluators -> EvalState]
  /\ \A e \in Evaluators : Sound(evaluation[e], clock, Len(alerts))

LEMMA PriorityType == Priorities \subseteq Nat
BY RuleType DEF Priorities

LEMMA AlertIsStored == Alert \subseteq StoredAlert
BY PriorityType, AlertAssumption DEF Alert, StoredAlert

LEMMA EvalTypeInvTypes ==
  ASSUME EvalTypeInv
  PROVE  EvalTypes
<1>1. alerts \in Seq(StoredAlert)
  BY AlertIsStored, SeqMonotonic DEF EvalTypeInv, Stored
<1>2. clock \in Nat /\ evaluation \in [Evaluators -> EvalState]
  BY AlertAssumption DEF EvalTypeInv
<1>3. lastTriggered \in [AlertRules -> Int]
  BY AlertAssumption DEF EvalTypeInv, Stored, Never
<1>4. Remembrance \subseteq Recollection
  BY PriorityType, AlertAssumption DEF Remembrance, Recollection
<1>5. recent \in [Fingerprints -> {NotSeen} \cup Recollection]
  BY <1>4 DEF EvalTypeInv, Stored
<1> QED BY <1>1, <1>2, <1>3, <1>5 DEF EvalTypes

\* A rule that fires has a condition that holds.
LEMMA FiringHolds ==
  ASSUME NEW r \in AlertRules, NEW holding, RuleFires(AlertRule[r], holding)
  PROVE  Holds(AlertRule[r], holding) # {}
<1>1. CASE AlertRule[r].conditionOp = "AND"
  <2> DEFINE list == AlertRule[r].conditions
             R == [metric : STRING, alertType : STRING]
  <2>1. list # <<>> /\ Holds(AlertRule[r], holding) = DOMAIN list
    BY <1>1 DEF RuleFires
  <2>2. list \in Seq(R)
    BY AlertAssumption DEF AlertRules
  <2> HIDE DEF list, R
  <2>3. Len(list) \in Nat \ {0} /\ DOMAIN list = 1 .. Len(list)
    BY <2>1, <2>2, EmptySeq, LenProperties
  <2>4. 1 \in DOMAIN list
    BY <2>3
  <2> QED BY <2>1, <2>4
<1>2. CASE AlertRule[r].conditionOp # "AND"
  BY <1>2 DEF RuleFires
<1> QED BY <1>1, <1>2

LEMMA IdleIsSound ==
  ASSUME NEW now \in Nat, NEW written
  PROVE  Sound(Idle, now, written)
<1>1. Idle.now = 0 /\ Idle.todo = {} /\ Idle.at = "idle"
  BY DEF Idle
<1> QED BY <1>1 DEF Sound

LEMMA StaysSound ==
  ASSUME NEW s \in EvalState, NEW now \in Nat, NEW written \in Nat, NEW later \in Nat, NEW more \in Nat,
         Sound(s, now, written), now <= later, written <= more
  PROVE  Sound(s, later, more)
<1>1. s.now \in Nat /\ s.checked \in Nat
  BY DEF EvalState
<1> QED BY <1>1 DEF Sound

LEMMA StateFields ==
  ASSUME EvalTypeInv
  PROVE  /\ clock \in Nat /\ MaxClock \in Nat /\ clock <= MaxClock /\ Len(alerts) \in Nat
         /\ DOMAIN alerts = 1 .. Len(alerts)
         /\ \A e \in Evaluators : evaluation[e] \in EvalState /\ Sound(evaluation[e], clock, Len(alerts))
<1>1. Len(alerts) \in Nat /\ DOMAIN alerts = 1 .. Len(alerts)
  BY LenProperties DEF EvalTypeInv, Stored
<1> QED BY <1>1, AlertAssumption DEF EvalTypeInv

\* One evaluation changes.
LEMMA OneMoves ==
  ASSUME EvalTypeInv, NEW e \in Evaluators, NEW t \in EvalState, evaluation' = [evaluation EXCEPT ![e] = t],
         Stored', UNCHANGED clock, alertFaults' \in 0 .. MaxAlertFaults, Len(alerts) <= Len(alerts)',
         Sound(t, clock, Len(alerts)')
  PROVE  EvalTypeInv'
<1>1. PICK n \in Nat, m \in Nat : n = Len(alerts) /\ m = Len(alerts') /\ n <= m
  BY LenProperties, StateFields DEF Stored
<1>2. \A f \in Evaluators : Sound(evaluation'[f], clock, m)
  <2> TAKE f \in Evaluators
  <2>1. CASE f = e
    BY <2>1, <1>1 DEF EvalTypeInv
  <2>2. CASE f # e
    <3>1. evaluation'[f] = evaluation[f]
      BY <2>2 DEF EvalTypeInv
    <3> QED BY <3>1, <1>1, StateFields, StaysSound
  <2> QED BY <2>1, <2>2
<1>3. evaluation' \in [Evaluators -> EvalState]
  BY DEF EvalTypeInv
<1> QED BY <1>1, <1>2, <1>3 DEF EvalTypeInv

\* The same, where no alert is stored.
LEMMA OneGoesOn ==
  ASSUME EvalTypeInv, NEW e \in Evaluators, NEW t \in EvalState, evaluation' = [evaluation EXCEPT ![e] = t],
         Stored', UNCHANGED clock, alertFaults' \in 0 .. MaxAlertFaults, Len(alerts)' = Len(alerts),
         Sound(t, clock, Len(alerts))
  PROVE  EvalTypeInv'
<1>1. PICK n \in Nat : n = Len(alerts) /\ n <= n
  BY StateFields
<1>2. Len(alerts) <= Len(alerts)'
  BY <1>1
<1>3. Sound(t, clock, Len(alerts)')
  BY SMT
<1> QED BY <1>2, <1>3, OneMoves

LEMMA SameStored ==
  ASSUME Stored, UNCHANGED <<lastTriggered, alerts>>, recent' \in {recent, Evicted}
  PROVE  Stored' /\ Len(alerts)' = Len(alerts)
<1>1. recent' \in [Fingerprints -> {NotSeen} \cup Remembrance]
  BY DEF Stored, Evicted
<1> QED BY <1>1 DEF Stored

\* An evaluation drops a rule and goes on, or ends.
LEMMA SkipTypes ==
  ASSUME EvalTypeInv, NEW e \in Evaluators, NEW r, Skip(e, r), evaluation[e].at = "looping",
         UNCHANGED <<clock, lastTriggered, alerts, alertFaults>>, recent' \in {recent, Evicted}
  PROVE  EvalTypeInv'
<1> DEFINE s == evaluation[e]
           rest == s.todo \ {r}
           t == [s EXCEPT !.todo = rest]
<1>1. s \in EvalState /\ clock \in Nat /\ Len(alerts) \in Nat /\ Sound(s, clock, Len(alerts)) /\ s.at = "looping"
  BY StateFields
<1>2. /\ t \in EvalState /\ t.at = s.at /\ t.todo = rest /\ t.now = s.now /\ t.holding = s.holding
  BY <1>1 DEF EvalState
<1> HIDE DEF t
<1>3. Sound(t, clock, Len(alerts))
  BY <1>1, <1>2 DEF Sound
<1>4. PICK u : u = IF rest = {} THEN Idle ELSE t
  OBVIOUS
<1>5. evaluation' = [evaluation EXCEPT ![e] = u]
  BY <1>4 DEF Skip, t
<1>6. u \in EvalState /\ Sound(u, clock, Len(alerts))
  BY <1>1, <1>2, <1>3, <1>4, IdleType, IdleIsSound
<1>7. Stored' /\ Len(alerts)' = Len(alerts) /\ alertFaults' \in 0 .. MaxAlertFaults
  BY SameStored DEF EvalTypeInv
<1> QED BY <1>1, <1>5, <1>6, <1>7, OneGoesOn

LEMMA ReadTypes ==
  ASSUME EvalTypeInv, NEW e \in Evaluators, NEW holding \in Snapshots, ReadActiveRules(e, holding)
  PROVE  EvalTypeInv'
<1> DEFINE others == {f \in Evaluators : Evaluating(f)}
           firing == {r \in AlertRules : ~CoolingDown(r, clock) /\ RuleFires(AlertRule[r], holding)}
           fresh == [Idle EXCEPT !.at = "looping", !.now = clock, !.holding = holding,
                                 !.todo = firing, !.alone = (others = {})]
           Joined(f) == [evaluation[f] EXCEPT !.alone = FALSE]
<1>0. UNCHANGED <<clock, lastTriggered, alerts, recent, alertFaults>>
  BY DEF ReadActiveRules
<1>1. /\ fresh \in EvalState /\ fresh.at = "looping" /\ fresh.now = clock
      /\ fresh.holding = holding /\ fresh.todo = firing
  BY IdleType, StateFields DEF EvalState
<1>2. ASSUME NEW f \in Evaluators
      PROVE  /\ Joined(f) \in EvalState
             /\ Joined(f).at = evaluation[f].at /\ Joined(f).now = evaluation[f].now
             /\ Joined(f).holding = evaluation[f].holding /\ Joined(f).todo = evaluation[f].todo
             /\ Joined(f).rule = evaluation[f].rule /\ Joined(f).alert = evaluation[f].alert
             /\ Joined(f).checked = evaluation[f].checked
             /\ Joined(f).priority = evaluation[f].priority
  <2>1. evaluation[f] \in EvalState
    BY StateFields
  <2> QED BY <2>1 DEF EvalState
<1>3. evaluation' = [f \in Evaluators |-> IF f = e THEN fresh
                       ELSE IF f \in others THEN Joined(f) ELSE evaluation[f]]
  BY DEF ReadActiveRules
<1>4. \A r \in firing : Holds(AlertRule[r], holding) # {}
  BY FiringHolds
<1> HIDE DEF fresh, firing
<1>5. Sound(fresh, clock, Len(alerts))
  BY <1>1, <1>4, StateFields DEF Sound
<1>6. \A f \in Evaluators : Sound(Joined(f), clock, Len(alerts))
  BY <1>2, StateFields DEF Sound
<1> HIDE DEF Joined, others
<1>7. \A f \in Evaluators : evaluation'[f] \in EvalState /\ Sound(evaluation'[f], clock, Len(alerts))
  BY <1>1, <1>2, <1>3, <1>5, <1>6, StateFields
<1>8. evaluation' \in [Evaluators -> EvalState]
  BY <1>3, <1>7
<1> QED BY <1>0, <1>7, <1>8 DEF EvalTypeInv, Stored

LEMMA CheckTypes ==
  ASSUME EvalTypeInv, NEW e \in Evaluators, NEW r \in AlertRules, CheckDuplicate(e, r)
  PROVE  EvalTypeInv'
<1> DEFINE s == evaluation[e]
           own == AlertRule[r].priority
           held == Evicted[Fingerprint("escalate", Candidate(e, r))].priority
           decision == Decision(Candidate(e, r))
           p == IF decision = "escalate" THEN Escalated(held, own) ELSE own
           t == [s EXCEPT !.at = "persisting", !.todo = s.todo \ {r}, !.rule = r, !.checked = clock,
                          !.priority = p]
<1>0. /\ UNCHANGED <<clock, lastTriggered, alerts, alertFaults>> /\ recent' = Evicted
      /\ s \in EvalState /\ s.at = "looping" /\ r \in s.todo /\ clock \in Nat /\ Len(alerts) \in Nat
      /\ Sound(s, clock, Len(alerts))
  BY StateFields DEF CheckDuplicate, NextRule
<1>1. own \in Priorities /\ Priorities \subseteq Nat
  BY PriorityType DEF Priorities
<1>2. CASE decision \in {"exact", "crossSource"}
  <2>1. Skip(e, r)
    BY <1>2 DEF CheckDuplicate
  <2> QED BY <2>1, <1>0, SkipTypes
<1>3. CASE decision \notin {"exact", "crossSource"}
  <2>1. Holds(AlertRule[r], s.holding) # {}
    BY <1>0 DEF Sound
  <2>2. Candidate(e, r) \in Conditions
    BY <2>1, FirstTriggeredIsCondition DEF Candidate
  <2>3. p \in Priorities
    <3>1. CASE decision = "escalate"
      <4> DEFINE f == Fingerprint("escalate", Candidate(e, r))
      <4>1. Evicted[f] # NotSeen
        <5>1. Matches("escalate", Candidate(e, r))
          BY <3>1 DEF Decision
        <5> QED BY <5>1 DEF Matches
      <4>2. f \in Fingerprints
        BY <2>2, FingerprintValues
      <4>3. Evicted \in [Fingerprints -> {NotSeen} \cup Remembrance]
        BY DEF EvalTypeInv, Stored, Evicted
      <4>4. held \in Priorities
        BY <4>1, <4>2, <4>3 DEF Remembrance
      <4> QED BY <4>4, <1>1 DEF Escalated
    <3>2. CASE decision # "escalate"
      BY <3>2, <1>1
    <3> QED BY <3>1, <3>2
  <2>4. evaluation' = [evaluation EXCEPT ![e] = t]
    BY <1>3 DEF CheckDuplicate
  <2> HIDE DEF p
  <2>5. /\ t \in EvalState /\ t.at = "persisting" /\ t.todo = s.todo \ {r} /\ t.rule = r
        /\ t.checked = clock /\ t.priority = p /\ t.now = s.now /\ t.holding = s.holding
    BY <1>0, <1>1, <2>3 DEF EvalState
  <2> HIDE DEF t
  <2>6. Sound(t, clock, Len(alerts))
    BY <1>0, <2>1, <2>3, <2>5 DEF Sound
  <2>7. Stored' /\ Len(alerts)' = Len(alerts) /\ alertFaults' \in 0 .. MaxAlertFaults
    BY <1>0, SameStored DEF EvalTypeInv
  <2> QED BY <1>0, <2>4, <2>5, <2>6, <2>7, OneGoesOn
<1> QED BY <1>2, <1>3

LEMMA PersistTypes ==
  ASSUME EvalTypeInv, NEW e \in Evaluators, PersistEvent(e)
  PROVE  EvalTypeInv'
<1> DEFINE s == evaluation[e]
           c == Candidate(e, s.rule)
           newest == [rule |-> s.rule, condition |-> c, priority |-> s.priority,
                      time |-> s.now, checked |-> s.checked, settled |-> FALSE, remembered |-> TRUE]
<1>0. /\ UNCHANGED <<clock, lastTriggered, alertFaults>> /\ clock \in Nat /\ clock <= MaxClock
      /\ MaxClock \in Nat /\ s \in EvalState /\ s.at = "persisting" /\ Sound(s, clock, Len(alerts))
      /\ Len(alerts) \in Nat /\ Len(alerts) < MaxAlerts /\ alerts \in Seq(Alert) /\ MaxAlerts \in Nat
  BY StateFields, AlertAssumption DEF PersistEvent, EvalTypeInv, Stored
<1>a. PICK n \in Nat : n = Len(alerts)
  BY <1>0
<1>1. /\ s.rule \in AlertRules /\ s.priority \in Priorities /\ s.now \in 0 .. MaxClock
      /\ s.checked \in 0 .. MaxClock /\ Holds(AlertRule[s.rule], s.holding) # {}
      /\ \A r \in s.todo : Holds(AlertRule[r], s.holding) # {}
  BY <1>0 DEF EvalState, Sound
<1>2. c \in Conditions
  BY <1>1, FirstTriggeredIsCondition DEF Candidate
<1> HIDE DEF c
<1>3. newest \in Alert
  BY <1>1, <1>2 DEF Alert
<1>4. alerts' = Append(alerts, newest) /\ recent' = Recorded(c, s.now, s.priority)
  BY DEF PersistEvent, c
<1> HIDE DEF newest
<1>5. alerts' \in Seq(Alert) /\ Len(alerts') = n + 1
  BY <1>0, <1>a, <1>3, <1>4, AppendProperties
<1>b. PICK last \in Nat : last = n + 1
  BY <1>a
<1> DEFINE t == [s EXCEPT !.at = "marking", !.alert = last]
<1>6. /\ t \in EvalState /\ t.at = "marking" /\ t.alert = last /\ t.now = s.now /\ t.todo = s.todo
      /\ t.holding = s.holding
  BY <1>0, <1>b DEF EvalState
<1>7. evaluation' = [evaluation EXCEPT ![e] = t]
  <2>1. Len(alerts') = last
    BY <1>5, <1>b
  <2>2. evaluation' = [evaluation EXCEPT ![e].at = "marking", ![e].alert = last]
    BY <2>1 DEF PersistEvent
  <2> QED BY <2>2
<1> HIDE DEF t
<1>8. recent' \in [Fingerprints -> {NotSeen} \cup Remembrance]
  <2>1. [time |-> s.now, priority |-> s.priority] \in Remembrance
    BY <1>1 DEF Remembrance
  <2> QED BY <2>1, <1>4 DEF Recorded, EvalTypeInv, Stored
<1>9. Stored'
  <2>1. Len(alerts') <= MaxAlerts
    BY <1>0, <1>a, <1>5
  <2> QED BY <2>1, <1>0, <1>5, <1>8 DEF EvalTypeInv, Stored
<1>10. Sound(t, clock, last)
  BY <1>0, <1>1, <1>6, <1>b DEF Sound
<1>11. Len(alerts)' = last /\ Len(alerts) <= Len(alerts)'
  BY <1>5, <1>a, <1>b
<1>12. alertFaults' \in 0 .. MaxAlertFaults
  BY <1>0 DEF EvalTypeInv
<1> QED BY <1>0, <1>6, <1>7, <1>9, <1>10, <1>11, <1>12, OneMoves

LEMMA MarkTypes ==
  ASSUME EvalTypeInv, NEW e \in Evaluators, MarkRuleTriggered(e)
  PROVE  EvalTypeInv'
<1> DEFINE s == evaluation[e]
<1>a. PICK a : a = s.alert
  OBVIOUS
<1>0. /\ UNCHANGED <<clock, recent, alertFaults>> /\ clock \in Nat /\ clock <= MaxClock
      /\ MaxClock \in Nat /\ s \in EvalState /\ s.at = "marking" /\ Sound(s, clock, Len(alerts))
      /\ Len(alerts) \in Nat /\ alerts \in Seq(Alert) /\ DOMAIN alerts = 1 .. Len(alerts)
      /\ lastTriggered \in [AlertRules -> Never .. MaxClock]
  BY StateFields DEF MarkRuleTriggered, EvalTypeInv, Stored
<1>1. /\ s.rule \in AlertRules /\ s.now \in 0 .. MaxClock /\ s.alone \in BOOLEAN
      /\ a \in 1 .. Len(alerts) /\ \A r \in s.todo : Holds(AlertRule[r], s.holding) # {}
      /\ Idle.rule \in AlertRules
  BY <1>0, <1>a, IdleType DEF EvalState, Sound
<1> DEFINE marked == [alerts[a] EXCEPT !.settled = s.alone]
           t == [s EXCEPT !.at = "looping", !.rule = Idle.rule, !.priority = 0, !.checked = 0, !.alert = 0]
<1>2. marked \in Alert
  <2>1. alerts[a] \in Alert
    BY <1>0, <1>1, ElementOfSeq
  <2> QED BY <2>1, <1>1 DEF Alert
<1>3. alerts' = [alerts EXCEPT ![a] = marked]
  BY <1>a DEF MarkRuleTriggered
<1> HIDE DEF marked
<1>4. alerts' \in Seq(Alert) /\ Len(alerts') = Len(alerts)
  BY <1>0, <1>1, <1>2, <1>3, ExceptSeq
<1>5. lastTriggered' \in [AlertRules -> Never .. MaxClock]
  <2>1. s.now \in Never .. MaxClock
    BY <1>0, <1>1 DEF Never
  <2> QED BY <2>1, <1>0 DEF MarkRuleTriggered
<1>6. Stored'
  BY <1>0, <1>4, <1>5 DEF EvalTypeInv, Stored
<1>7. /\ t \in EvalState /\ t.at = "looping" /\ t.todo = s.todo /\ t.now = s.now /\ t.holding = s.holding
  BY <1>0, <1>1 DEF EvalState
<1>8. PICK u : u = IF s.todo = {} THEN Idle ELSE t
  OBVIOUS
<1>9. evaluation' = [evaluation EXCEPT ![e] = u]
  BY <1>8 DEF MarkRuleTriggered, Proceed
<1> HIDE DEF t
<1>10. Sound(t, clock, Len(alerts))
  BY <1>0, <1>1, <1>7 DEF Sound
<1>11. u \in EvalState /\ Sound(u, clock, Len(alerts))
  BY <1>0, <1>7, <1>8, <1>10, IdleType, IdleIsSound
<1>12. alertFaults' \in 0 .. MaxAlertFaults
  BY <1>0 DEF EvalTypeInv
<1> QED BY <1>0, <1>4, <1>6, <1>9, <1>11, <1>12, OneGoesOn

LEMMA FaultTypes ==
  ASSUME EvalTypeInv, AlertFault
  PROVE  alertFaults' \in 0 .. MaxAlertFaults
BY AlertAssumption DEF EvalTypeInv, AlertFault

LEMMA ThrowTypes ==
  ASSUME EvalTypeInv, NEW e \in Evaluators, EvaluationThrows(e)
  PROVE  EvalTypeInv'
<1>1. UNCHANGED <<clock, lastTriggered, alerts, recent>> /\ evaluation' = [evaluation EXCEPT ![e] = Idle]
      /\ alertFaults' \in 0 .. MaxAlertFaults
  BY FaultTypes DEF EvaluationThrows
<1>2. Stored' /\ Len(alerts)' = Len(alerts)
  BY <1>1, SameStored DEF EvalTypeInv
<1>3. Idle \in EvalState /\ Sound(Idle, clock, Len(alerts)) /\ Len(alerts) \in Nat
  BY IdleType, IdleIsSound, StateFields
<1> HIDE DEF Idle
<1> QED BY <1>1, <1>2, <1>3, OneGoesOn

LEMMA RestartTypes ==
  ASSUME EvalTypeInv, EvaluatorRestarts
  PROVE  EvalTypeInv'
<1>1. /\ UNCHANGED <<clock, lastTriggered>> /\ alertFaults' \in 0 .. MaxAlertFaults
      /\ recent' = [f \in Fingerprints |-> NotSeen] /\ evaluation' = [e \in Evaluators |-> Idle]
      /\ alerts' = [i \in DOMAIN alerts |-> [alerts[i] EXCEPT !.remembered = FALSE]]
  BY FaultTypes DEF EvaluatorRestarts
<1>2. alerts' \in Seq(Alert) /\ Len(alerts') = Len(alerts)
  <2>1. PICK n \in Nat : n = Len(alerts) /\ DOMAIN alerts = 1 .. n
    BY StateFields
  <2>2. \A i \in 1 .. n : [alerts[i] EXCEPT !.remembered = FALSE] \in Alert
    <3> TAKE i \in 1 .. n
    <3>1. alerts[i] \in Alert
      BY <2>1, ElementOfSeq DEF EvalTypeInv, Stored
    <3> QED BY <3>1 DEF Alert
  <2>3. alerts' \in [1 .. n -> Alert]
    BY <1>1, <2>1, <2>2
  <2> HIDE DEF Alert
  <2>4. alerts' \in Seq(Alert)
    BY <2>3, SeqDef
  <2>5. Len(alerts') = n
    BY <2>3, <2>4, LenProperties
  <2> QED BY <2>1, <2>4, <2>5
<1>3. Stored'
  BY <1>1, <1>2 DEF EvalTypeInv, Stored
<1>4. Idle \in EvalState /\ Sound(Idle, clock, Len(alerts))
  BY IdleType, IdleIsSound, StateFields
<1> HIDE DEF Idle
<1>5. evaluation' \in [Evaluators -> EvalState] /\ \A e \in Evaluators : evaluation'[e] = Idle
  BY <1>1, <1>4
<1> QED BY <1>1, <1>2, <1>3, <1>4, <1>5 DEF EvalTypeInv

LEMMA TickTypes ==
  ASSUME EvalTypeInv, Tick
  PROVE  EvalTypeInv'
<1>1. clock' = clock + 1 /\ clock < MaxClock /\ UNCHANGED <<lastTriggered, alerts, recent, evaluation, alertFaults>>
  BY DEF Tick
<1>2. clock' \in 0 .. MaxClock /\ clock' \in Nat /\ clock <= clock'
  BY <1>1, StateFields
<1>3. PICK n \in Nat : n = Len(alerts)
  BY StateFields
<1>4. \A e \in Evaluators : Sound(evaluation[e], clock', n)
  BY <1>2, <1>3, StateFields, StaysSound
<1> QED BY <1>1, <1>2, <1>3, <1>4 DEF EvalTypeInv, Stored

LEMMA EvalTypeInvInit == AlertInit => EvalTypeInv
<1> SUFFICES ASSUME AlertInit PROVE EvalTypeInv
  OBVIOUS
<1>1. clock = 0 /\ alertFaults = 0 /\ clock \in 0 .. MaxClock /\ alertFaults \in 0 .. MaxAlertFaults
  BY AlertAssumption DEF AlertInit
<1>2. alerts = <<>> /\ alerts \in Seq(Alert) /\ Len(alerts) = 0 /\ Len(alerts) <= MaxAlerts
  BY AlertAssumption, EmptySeq DEF AlertInit
<1>3. Never \in Never .. MaxClock
  BY AlertAssumption DEF Never
<1>4. Stored
  BY <1>2, <1>3 DEF AlertInit, Stored
<1>5. Idle \in EvalState /\ Sound(Idle, clock, Len(alerts))
  BY <1>1, IdleType, IdleIsSound
<1> HIDE DEF Idle
<1>6. evaluation \in [Evaluators -> EvalState] /\ \A e \in Evaluators : evaluation[e] = Idle
  BY <1>5 DEF AlertInit
<1> QED BY <1>1, <1>4, <1>5, <1>6 DEF EvalTypeInv

LEMMA EvalTypeInvStep ==
  ASSUME EvalTypeInv, [AlertNext]_alertVars
  PROVE  EvalTypeInv'
<1>1. ASSUME NEW e \in Evaluators, NEW r \in AlertRules, Suppress(e, r) PROVE EvalTypeInv'
  BY <1>1, SkipTypes DEF Suppress, NextRule
<1>2. CASE UNCHANGED alertVars
  BY <1>2 DEF alertVars, EvalTypeInv, Stored
<1> QED BY <1>1, <1>2, ReadTypes, CheckTypes, PersistTypes, MarkTypes, ThrowTypes, RestartTypes, TickTypes
        DEF AlertNext

LEMMA EvalTypeInvOK == EvalTypeInv => AlertTypeOK
<1> SUFFICES ASSUME EvalTypeInv PROVE AlertTypeOK
  OBVIOUS
<1>1. \A f \in Fingerprints : recent[f] = NotSeen \/ recent[f] \in [time : 0 .. MaxClock, priority : Priorities]
  BY DEF EvalTypeInv, Stored, Remembrance
<1>2. \A e \in Evaluators : /\ evaluation[e].at \in {"idle", "looping", "persisting", "marking"}
                            /\ evaluation[e].todo \subseteq AlertRules
                            /\ evaluation[e].now <= clock
  <2> TAKE e \in Evaluators
  <2>1. evaluation[e] \in EvalState /\ Sound(evaluation[e], clock, Len(alerts))
    BY StateFields
  <2> QED BY <2>1 DEF EvalState, Sound
<1> QED BY <1>1, <1>2 DEF EvalTypeInv, Stored, AlertTypeOK

\* The types of the state, for any values of the constants.
LEMMA AlertTypeCorrect == AlertSpec => []AlertTypeOK
<1>1. EvalTypeInv => AlertTypeOK
  BY EvalTypeInvOK
<1> QED BY <1>1, EvalTypeInvInit, EvalTypeInvStep, PTL DEF AlertSpec
=============================================================================
