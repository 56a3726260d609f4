------------------------------ MODULE RecordsMC ------------------------------
(***************************************************************************)
(* The components whose requests read records and write them back later.   *)
(* They share no state, so a behaviour of this run is one of a single      *)
(* component, and the run explores as many states as the components have   *)
(* together.                                                               *)
(***************************************************************************)
EXTENDS ProviderBreaker, AdminRotation, AlertEvaluation, AlertRouting, AlertIncidents,
        IncidentIngestion, SourceDecommission, Backfill, TLC

VARIABLE component

recordsVars == <<component, breakerVars, adminVars, alertVars, routingVars, intakeVars,
                 ingestVars, decommissionVars, backfillVars>>

RecordsInit ==
  /\ component \in {"breaker", "admin", "alerts", "routing", "intake", "ingest",
                    "decommission", "backfill"}
  /\ BreakerInit /\ AdminInit /\ AlertInit /\ RoutingInit
  /\ IntakeInit /\ IngestInit /\ DecommissionInit /\ BackfillInit

Runs(name) ==
  /\ component = name /\ UNCHANGED component
  /\ name # "breaker" => UNCHANGED breakerVars
  /\ name # "admin" => UNCHANGED adminVars
  /\ name # "alerts" => UNCHANGED alertVars
  /\ name # "routing" => UNCHANGED routingVars
  /\ name # "intake" => UNCHANGED intakeVars
  /\ name # "ingest" => UNCHANGED ingestVars
  /\ name # "decommission" => UNCHANGED decommissionVars
  /\ name # "backfill" => UNCHANGED backfillVars

RecordsNext ==
  \/ Runs("breaker") /\ BreakerNext
  \/ Runs("admin") /\ AdminNext
  \/ Runs("alerts") /\ AlertNext
  \/ Runs("routing") /\ RoutingNext
  \/ Runs("intake") /\ IntakeNext
  \/ Runs("ingest") /\ IngestNext
  \/ Runs("decommission") /\ DecommissionNext
  \/ Runs("backfill") /\ BackfillNext

RecordsSpec == RecordsInit /\ [][RecordsNext]_recordsVars

\* Evaluations are interchangeable.
RecordsSymmetry == Permutations(Evaluators)

\* Every component keeps the types of its state.
RecordsTypeOK ==
  /\ BreakerTypeOK /\ AdminTypeOK /\ AlertTypeOK /\ RoutingTypeOK
  /\ IntakeTypeOK /\ IngestTypeOK /\ DecommissionTypeOK /\ BackfillTypeOK

-----------------------------------------------------------------------------
(* The values of the constants *)

Cond(metric, alertType) == [metric |-> metric, alertType |-> alertType]

\* One rule that needs two conditions and cools down, and a less severe one that
\* reports either of two, the first about a metric with the name of a type
MCAlertRule ==
  [both   |-> [conditions |-> <<Cond("m1", "t1"), Cond("m2", "t1")>>, conditionOp |-> "AND",
               priority |-> 2, cooldownSeconds |-> 1],
   either |-> [conditions |-> <<Cond("t1", "t2"), Cond("m2", "t1")>>, conditionOp |-> "OR",
               priority |-> 1, cooldownSeconds |-> 0]]

MCSnapshots == {{Cond("m1", "t1"), Cond("m2", "t1")}, {Cond("t1", "t2")}}

MCDedupWindow == [exact |-> 0, crossSource |-> 0, escalate |-> 1]

MCRoutingRules ==
  {[channels |-> {"webhook", "email"}, fallbackChannels |-> {"in_app"}, suppresses |-> TRUE],
   [channels |-> {}, fallbackChannels |-> {"email"}, suppresses |-> TRUE]}

MCReports ==
  [dated    |-> [dated |-> TRUE, external |-> FALSE],
   external |-> [dated |-> FALSE, external |-> TRUE],
   bare     |-> [dated |-> FALSE, external |-> FALSE]]
==============================================================================
