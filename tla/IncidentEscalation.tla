-------------------------- MODULE IncidentEscalation --------------------------
(***************************************************************************)
(* services/escalation.service.ts for one incident: the engine's loops and *)
(* the requests of routes/incidents.ts.                                    *)
(*                                                                         *)
(* A check reads the incident, decides, and calls escalateIncident, which  *)
(* reads it again without deciding again and then writes.  Stopping and    *)
(* starting the engine within its interval leaves a second loop.  A rule's *)
(* timeout is reduced to whether it has elapsed since updated_at.  What    *)
(* follows the write, a history entry and notifications, is left out.      *)
(***************************************************************************)
EXTENDS Naturals, FiniteSets, JsonbColumns

CONSTANTS
  Loops,             \* loops of the engine running at a time
  Manuals,           \* manual escalations running at a time
  MaxLevel,          \* a rule leads from each lower level to the next
  AckLevels,         \* the levels whose rule requires an acknowledgement
  MaxEngineRequests, MaxIncidentRequests  \* bounds: requests in a behaviour

ASSUME EscalationAssumption ==
  /\ MaxLevel \in Nat \ {0} /\ AckLevels \subseteq 1 .. MaxLevel
  /\ Loops \cap Manuals = {}
  /\ MaxEngineRequests \in Nat /\ MaxIncidentRequests \in Nat

VARIABLES
  incident,        \* status, current_escalation_level, acknowledged_at, and whether
                   \* the timeout of its level has elapsed since updated_at
  isRunning,
  escalator,       \* where each loop and manual escalation is, and the level it saw
  overlap,         \* the escalation under way was overlapped, or is a manual one
  engineRequests, incidentRequests

escalationVars == <<incident, isRunning, escalator, overlap, engineRequests, incidentRequests>>

Escalators == Loops \cup Manuals

EscalationTypeOK ==
  /\ incident \in [status : {"open", "acknowledged", "resolved"}, level : 1 .. MaxLevel,
                   acknowledged : BOOLEAN, timedOut : BOOLEAN]
  /\ isRunning \in BOOLEAN /\ overlap \in BOOLEAN
  /\ escalator \in [Escalators -> [at : {"none", "waiting", "reading", "writing"},
                                   saw : 0 .. MaxLevel]]
  /\ engineRequests \in 0 .. MaxEngineRequests
  /\ incidentRequests \in 0 .. MaxIncidentRequests

EscalationInit ==
  /\ incident = [status |-> "open", level |-> 1, acknowledged |-> FALSE, timedOut |-> FALSE]
  /\ isRunning = FALSE
  /\ escalator = [e \in Escalators |-> [at |-> "none", saw |-> 0]]
  /\ overlap = FALSE
  /\ engineRequests = 0 /\ incidentRequests = 0

Busy == {e \in Escalators : escalator[e].at \in {"reading", "writing"}}

\* e ends: a loop sets its timer again, whether or not the engine still runs.
EndOf(e) == [at |-> IF e \in Loops THEN "waiting" ELSE "none", saw |-> 0]

-----------------------------------------------------------------------------
(* The engine *)

EngineRequest == engineRequests < MaxEngineRequests /\ engineRequests' = engineRequests + 1

StartEngine(e) ==
  /\ EngineRequest
  /\ ~isRunning /\ isRunning' = TRUE
  /\ e \in Loops /\ escalator[e].at = "none"
  /\ escalator' = [escalator EXCEPT ![e].at = "waiting"]
  /\ UNCHANGED <<incident, overlap, incidentRequests>>

StopEngine ==
  /\ EngineRequest
  /\ isRunning /\ isRunning' = FALSE
  /\ UNCHANGED <<incident, escalator, overlap, incidentRequests>>

\* The timer of a loop fires after a stop, and nothing has started it again.
LoopEnds(e) ==
  /\ escalator[e].at = "waiting" /\ ~isRunning
  /\ escalator' = [escalator EXCEPT ![e].at = "none"]
  /\ UNCHANGED <<incident, isRunning, overlap, engineRequests, incidentRequests>>

\* getEscalationRule: JSON.parse of a parsed column throws, and there is no rule.
HasRule(level) == JsonbAsText /\ level < MaxLevel

\* monitorIncident: the rule of the level, its timeout, its acknowledgement
IsDue ==
  /\ incident.status # "resolved" /\ HasRule(incident.level) /\ incident.timedOut
  /\ incident.level \in AckLevels => ~incident.acknowledged

Enter(e) ==
  /\ escalator' = [escalator EXCEPT ![e].at = "reading"]
  /\ overlap' = (Busy # {} \/ e \in Manuals)

\* Seeded fault: the acknowledgement is not looked at.
MonitorTimeout(e) ==
  /\ escalator[e].at = "waiting" /\ isRunning
  /\ incident.status # "resolved" /\ HasRule(incident.level) /\ incident.timedOut
  /\ Enter(e)
  /\ UNCHANGED <<incident, isRunning, engineRequests, incidentRequests>>

MonitorIncident(e) ==
  /\ escalator[e].at = "waiting" /\ isRunning
  /\ IsDue
  /\ Enter(e)
  /\ UNCHANGED <<incident, isRunning, engineRequests, incidentRequests>>

-----------------------------------------------------------------------------
(* escalateIncident *)

IncidentRequest ==
  incidentRequests < MaxIncidentRequests /\ incidentRequests' = incidentRequests + 1

EscalateManually(e) ==
  /\ IncidentRequest
  /\ e \in Manuals /\ escalator[e].at = "none"
  /\ Enter(e)
  /\ UNCHANGED <<incident, isRunning, engineRequests>>

\* The incident is read again, with the rule of the level it has by now.
ReadForEscalation(e) ==
  /\ escalator[e].at = "reading"
  /\ escalator' = [escalator EXCEPT ![e] =
        IF HasRule(incident.level) THEN [at |-> "writing", saw |-> incident.level] ELSE EndOf(e)]
  /\ UNCHANGED <<incident, isRunning, overlap, engineRequests, incidentRequests>>

\* to_level of that rule, whatever the incident is by now
WriteEscalation(e) ==
  /\ escalator[e].at = "writing"
  /\ incident' = [incident EXCEPT !.level = escalator[e].saw + 1, !.timedOut = FALSE]
  /\ escalator' = [escalator EXCEPT ![e] = EndOf(e)]
  /\ UNCHANGED <<isRunning, overlap, engineRequests, incidentRequests>>

-----------------------------------------------------------------------------
(* Requests and time *)

\* Neither looks at the status there is; both start the timeout again.
Acknowledge ==
  /\ IncidentRequest
  /\ incident' = [incident EXCEPT !.status = "acknowledged", !.acknowledged = TRUE,
                                  !.timedOut = FALSE]
  /\ overlap' = (overlap \/ Busy # {})
  /\ UNCHANGED <<isRunning, escalator, engineRequests>>

Resolve ==
  /\ IncidentRequest
  /\ incident' = [incident EXCEPT !.status = "resolved", !.timedOut = FALSE]
  /\ overlap' = (overlap \/ Busy # {})
  /\ UNCHANGED <<isRunning, escalator, engineRequests>>

LevelTimesOut ==
  /\ ~incident.timedOut
  /\ incident' = [incident EXCEPT !.timedOut = TRUE]
  /\ UNCHANGED <<isRunning, escalator, overlap, engineRequests, incidentRequests>>

-----------------------------------------------------------------------------

EscalatorStep(e) == ReadForEscalation(e) \/ WriteEscalation(e)

EscalationNext ==
  \/ \E e \in Loops : StartEngine(e) \/ LoopEnds(e) \/ MonitorIncident(e)
  \/ \E e \in Manuals : EscalateManually(e)
  \/ \E e \in Escalators : EscalatorStep(e)
  \/ StopEngine \/ Acknowledge \/ Resolve \/ LevelTimesOut

\* Timers fire, statements end, and time passes.
EscalationFairness ==
  /\ \A e \in Loops : WF_escalationVars(MonitorIncident(e) \/ LoopEnds(e))
  /\ \A e \in Escalators : WF_escalationVars(EscalatorStep(e))
  /\ WF_escalationVars(LevelTimesOut)

EscalationSpec == EscalationInit /\ [][EscalationNext]_escalationVars

FairEscalationSpec == EscalationSpec /\ EscalationFairness

-----------------------------------------------------------------------------
(* Properties *)

\* An escalation that nothing overlaps raises the level by one, and only when
\* the level's timeout has elapsed and nobody who could stop it has: the write
\* comes two reads after the decision (monitorIncident, escalateIncident).
RaisedOnlyWhenDue ==
  [][(incident'.level # incident.level /\ ~overlap)
       => IsDue /\ incident'.level = incident.level + 1]_escalationVars

\* While the engine stays on, an incident that nobody acknowledges or resolves
\* reaches the last level: "Automatically escalates unresolved incidents based on
\* severity, duration, and routing rules" (escalation.service.ts:3).  The driver hands
\* a rule's jsonb columns over parsed (JsonbAsText = FALSE), JSON.parse throws, and the
\* catch block answers that there is no rule.
ClimbsUntilHeard ==
  <>[]isRunning =>
    ((incident.status = "open") ~> (incident.level = MaxLevel \/ incident.status # "open"))
==============================================================================
