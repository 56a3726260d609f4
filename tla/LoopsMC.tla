------------------------------- MODULE LoopsMC -------------------------------
(***************************************************************************)
(* The components that run by timers and loops of their own.  They share   *)
(* no state, so a behaviour of this run is one of a single component, and  *)
(* the run explores as many states as the components have together.        *)
(***************************************************************************)
EXTENDS ProviderBreaker, StreamSupervisor, IngestionQueue, IncidentEscalation, DigestDelivery

VARIABLE component

loopsVars == <<component, breakerVars, streamVars, ingestionVars, escalationVars, digestVars>>

LoopsInit ==
  /\ component \in {"breaker", "stream", "ingestion", "escalation", "digest"}
  /\ BreakerInit /\ StreamInit /\ IngestionInit /\ EscalationInit /\ DigestInit

BreakerRuns ==
  /\ component = "breaker" /\ BreakerNext
  /\ UNCHANGED <<component, streamVars, ingestionVars, escalationVars, digestVars>>

StreamRuns ==
  /\ component = "stream" /\ StreamNext
  /\ UNCHANGED <<component, breakerVars, ingestionVars, escalationVars, digestVars>>

IngestionRuns ==
  /\ component = "ingestion" /\ IngestionNext
  /\ UNCHANGED <<component, breakerVars, streamVars, escalationVars, digestVars>>

EscalationRuns ==
  /\ component = "escalation" /\ EscalationNext
  /\ UNCHANGED <<component, breakerVars, streamVars, ingestionVars, digestVars>>

DigestRuns ==
  /\ component = "digest" /\ DigestNext
  /\ UNCHANGED <<component, breakerVars, streamVars, ingestionVars, escalationVars>>

LoopsNext == BreakerRuns \/ StreamRuns \/ IngestionRuns \/ EscalationRuns \/ DigestRuns

\* The fairness of the component that runs
LoopsFairness ==
  \/ [](component = "breaker") /\ BreakerFairness
  \/ [](component = "stream") /\ StreamFairness
  \/ [](component = "ingestion") /\ IngestionFairness
  \/ [](component = "escalation") /\ EscalationFairness
  \/ [](component = "digest") /\ DigestFairness

LoopsSpec == LoopsInit /\ [][LoopsNext]_loopsVars /\ LoopsFairness

\* Every component keeps the types of its state.
LoopsTypeOK ==
  BreakerTypeOK /\ StreamTypeOK /\ IngestionTypeOK /\ EscalationTypeOK /\ DigestTypeOK
==============================================================================
