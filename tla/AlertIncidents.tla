--------------------------- MODULE AlertIncidents ---------------------------
(***************************************************************************)
(* services/alertDeduplication.service.ts: alerts of one asset and type are*)
(* merged into the incident that is open, or create one.                   *)
(*                                                                         *)
(* deduplicate looks, awaits, and then either updates the severity and the *)
(* status of what it found or inserts, each in a statement of its own;     *)
(* reconciliations and drift checks call it concurrently.  Operators       *)
(* report incidents of any source type, or of none, and change the status  *)
(* of any incident (services/incident.service.ts).  Of an incident the     *)
(* model keeps what the queries read and, beside it, a history: touched,   *)
(* crossed, worst and looked.                                              *)
(***************************************************************************)
EXTENDS Naturals, Sequences

CONSTANTS
  Raisers,           \* alerts being deduplicated at a time
  Severities,        \* numbers: the higher is the more severe
  MaxIncidents, MaxIntakeFaults  \* bounds

ASSUME IntakeAssumption ==
  Severities \subseteq Nat /\ MaxIncidents \in Nat /\ MaxIntakeFaults \in Nat

VARIABLES
  bridgeIncidents,  \* bridge_incidents of this asset, in order of creation
  raiser,           \* where each deduplicate is, and what it found when it looked
  intakeFaults

intakeVars == <<bridgeIncidents, raiser, intakeFaults>>

\* "alert": the type of the alerts.  "null": no type.
SourceTypes == {"alert", "null", "other"}

\* inWindow: created less than windowMs ago.  worst: the most severe alert that
\* was merged into it or created it.  touched: an operator has set its status.
\* crossed: two calls have found it less severe than their alert before either
\* wrote.  looked: how many incidents there were when the call that created it
\* looked for one, 0 if nobody looked.
BridgeIncident == [source : SourceTypes, status : {"open", "investigating", "resolved"},
                   severity : Severities, inWindow : BOOLEAN, worst : Severities,
                   touched : BOOLEAN, crossed : BOOLEAN, looked : 0 .. MaxIncidents]

RaiserPlaces == {"none", "escalating", "marking", "creating"}

IntakeTypeOK ==
  /\ bridgeIncidents \in Seq(BridgeIncident) /\ Len(bridgeIncidents) <= MaxIncidents
  /\ \A r \in Raisers :
        /\ raiser[r].at \in RaiserPlaces
        /\ raiser[r].at \in {"escalating", "marking"} => raiser[r].found \in DOMAIN bridgeIncidents
        /\ raiser[r].at # "none" => raiser[r].priority \in Severities
        /\ raiser[r].looked \in 0 .. Len(bridgeIncidents)
  /\ intakeFaults \in 0 .. MaxIntakeFaults

NoRaiser == [at |-> "none", priority |-> 0, found |-> 0, looked |-> 0]

IntakeInit ==
  /\ bridgeIncidents = <<>>
  /\ raiser = [r \in Raisers |-> NoRaiser]
  /\ intakeFaults = 0

RaiserEnds(r) == raiser' = [raiser EXCEPT ![r] = NoRaiser]

Raising == {r \in Raisers : raiser[r].at # "none"}

-----------------------------------------------------------------------------
(* deduplicate *)

\* Seeded fault: incidents without a source type are left out.
MatchingTyped ==
  {i \in DOMAIN bridgeIncidents :
     /\ bridgeIncidents[i].source = "alert"
     /\ bridgeIncidents[i].status = "open" /\ bridgeIncidents[i].inWindow}

\* findMatchingIncident: of the alerts' type or of none, open, created within the window
Matching ==
  {i \in DOMAIN bridgeIncidents :
     /\ bridgeIncidents[i].source \in {"alert", "null"}
     /\ bridgeIncidents[i].status = "open" /\ bridgeIncidents[i].inWindow}

\* Seeded fault: the ranks are compared the wrong way round.
OutrankedBy(incoming, current) == incoming < current

\* escalateSeverity
Outranks(incoming, current) == incoming > current

LatestOf(S) == CHOOSE i \in S : \A j \in S : j <= i

\* The calls that are about to raise the severity of incident i
EscalatingOn(i) == {r \in Raisers : raiser[r].at = "escalating" /\ raiser[r].found = i}

FindNone(r, priority) ==
  /\ Matching = {}
  /\ raiser' = [raiser EXCEPT ![r] = [at |-> "creating", priority |-> priority, found |-> 0,
                                      looked |-> Len(bridgeIncidents)]]
  /\ UNCHANGED bridgeIncidents

\* The alert is no worse than the incident: there is nothing to write.
FindAsSevere(r, priority) ==
  /\ Matching # {}
  /\ ~Outranks(priority, bridgeIncidents[LatestOf(Matching)].severity)
  /\ bridgeIncidents' = [bridgeIncidents EXCEPT
       ![LatestOf(Matching)].worst = IF priority > @ THEN priority ELSE @]
  /\ UNCHANGED raiser

FindLessSevere(r, priority) ==
  /\ Matching # {}
  /\ Outranks(priority, bridgeIncidents[LatestOf(Matching)].severity)
  /\ bridgeIncidents' = [bridgeIncidents EXCEPT
       ![LatestOf(Matching)].worst = IF priority > @ THEN priority ELSE @,
       ![LatestOf(Matching)].crossed = @ \/ EscalatingOn(LatestOf(Matching)) # {}]
  /\ raiser' = [raiser EXCEPT ![r] = [at |-> "escalating", priority |-> priority,
                                      found |-> LatestOf(Matching), looked |-> 0]]

FindMatchingIncident(r, priority) ==
  /\ raiser[r].at = "none"
  /\ FindNone(r, priority) \/ FindAsSevere(r, priority) \/ FindLessSevere(r, priority)
  /\ UNCHANGED intakeFaults

\* createIncident, for a deduplicate or an operator
Insert(source, severity, looked) ==
  /\ Len(bridgeIncidents) < MaxIncidents
  /\ bridgeIncidents' = Append(bridgeIncidents,
       [source |-> source, status |-> "open", severity |-> severity, inWindow |-> TRUE,
        worst |-> severity, touched |-> FALSE, crossed |-> FALSE, looked |-> looked])

CreateIncident(r) ==
  /\ raiser[r].at = "creating"
  /\ Insert("alert", raiser[r].priority, raiser[r].looked)
  /\ RaiserEnds(r)
  /\ UNCHANGED intakeFaults

UpdateIncidentSeverity(r) ==
  /\ raiser[r].at = "escalating"
  /\ bridgeIncidents' = [bridgeIncidents EXCEPT ![raiser[r].found].severity = raiser[r].priority]
  /\ raiser' = [raiser EXCEPT ![r].at = "marking"]
  /\ UNCHANGED intakeFaults

\* Whatever the status is by now
MarkInvestigating(r) ==
  /\ raiser[r].at = "marking"
  /\ bridgeIncidents' = [bridgeIncidents EXCEPT ![raiser[r].found].status = "investigating"]
  /\ RaiserEnds(r)
  /\ UNCHANGED intakeFaults

\* A statement is refused; the caller logs and gives the alert up.
DeduplicateThrows(r) ==
  /\ intakeFaults < MaxIntakeFaults /\ intakeFaults' = intakeFaults + 1
  /\ r \in Raising
  /\ bridgeIncidents' = IF raiser[r].at = "escalating"
       THEN [bridgeIncidents EXCEPT ![raiser[r].found].worst = bridgeIncidents[raiser[r].found].severity]
       ELSE bridgeIncidents
  /\ RaiserEnds(r)

-----------------------------------------------------------------------------
(* Operators and time *)

\* POST /incidents: the body names another source type, or none.  One that names the
\* alerts' own is found as one with none is.
ReportIncident(source, severity) ==
  /\ Insert(source, severity, 0)
  /\ UNCHANGED <<raiser, intakeFaults>>

UpdateIncidentStatus(i, status) ==
  /\ bridgeIncidents' = [bridgeIncidents EXCEPT
       ![i].status = status, ![i].touched = TRUE]
  /\ UNCHANGED <<raiser, intakeFaults>>

LeavesWindow(i) ==
  /\ bridgeIncidents[i].inWindow
  /\ \A j \in 1 .. i - 1 : ~bridgeIncidents[j].inWindow
  /\ bridgeIncidents' = [bridgeIncidents EXCEPT ![i].inWindow = FALSE]
  /\ UNCHANGED <<raiser, intakeFaults>>

IntakeNext ==
  \/ \E r \in Raisers :
        \/ \E priority \in Severities : FindMatchingIncident(r, priority)
        \/ CreateIncident(r) \/ UpdateIncidentSeverity(r) \/ MarkInvestigating(r)
        \/ DeduplicateThrows(r)
  \/ \E source \in {"null", "other"}, severity \in Severities : ReportIncident(source, severity)
  \/ \E i \in DOMAIN bridgeIncidents :
        \/ \E status \in {"open", "investigating", "resolved"} : UpdateIncidentStatus(i, status)
        \/ LeavesWindow(i)

IntakeSpec == IntakeInit /\ [][IntakeNext]_intakeVars

-----------------------------------------------------------------------------
(* Properties *)

\* Every incident after i was created by a call that looked before i was there, or by
\* an operator, who does not look.
OnlyEarlierLooks(i) == \A j \in DOMAIN bridgeIncidents : j > i => bridgeIncidents[j].looked < i

\* While an incident of the window is open and no operator has touched it, no call
\* that could have found it creates another.  Whatever overlaps, a second one comes
\* from a call that looked before the first was inserted, or from an operator (the find
\* and the insert of deduplicate are apart, and no index keeps the second one out).
DuplicatesOverlapped ==
  \A i \in DOMAIN bridgeIncidents :
    (/\ bridgeIncidents[i].source # "other" /\ bridgeIncidents[i].status = "open"
     /\ bridgeIncidents[i].inWindow)
      => bridgeIncidents[i].touched \/ OnlyEarlierLooks(i)

\* Between calls every incident is as severe as the worst alert it has taken, unless
\* two calls found it before either raised it: then the later write may lower it
\* (updateIncidentSeverity tests no severity).
SeverityFollowsAlerts ==
  Raising = {} =>
    \A i \in DOMAIN bridgeIncidents :
      bridgeIncidents[i].crossed \/ bridgeIncidents[i].severity = bridgeIncidents[i].worst

\* reconciliationAlerting.service.ts:46-49 says repeated mismatches collapse into a
\* single incident within the window, "escalating severity on repeat rather than
\* creating duplicate incidents".  A repeat of greater severity sets the status to
\* investigating, and the next look is for open incidents.
RepeatsCollapse ==
  \A i \in DOMAIN bridgeIncidents :
    (/\ bridgeIncidents[i].source = "alert" /\ bridgeIncidents[i].status # "resolved"
     /\ bridgeIncidents[i].inWindow)
      => bridgeIncidents[i].touched \/ OnlyEarlierLooks(i)
==============================================================================
