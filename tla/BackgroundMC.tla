----------------------------- MODULE BackgroundMC -----------------------------
(***************************************************************************)
(* The components that work in the background: streams, broadcasts and     *)
(* queue jobs.  They share no state, so a behaviour of this run is one of  *)
(* a single component, and the run explores as many states as the          *)
(* components have together.                                               *)
(***************************************************************************)
EXTENDS EventFederation, AlertBroadcast, ReserveCommitment, Reconciliation, ExportJob, TLC

VARIABLE component

backgroundVars == <<component, federationVars, broadcastVars, commitmentVars,
                    reconciliationVars, exportVars>>

BackgroundInit ==
  /\ component \in {"federation", "broadcast", "commitment", "reconciliation", "export"}
  /\ FederationInit /\ BroadcastInit /\ CommitmentInit /\ ReconciliationInit
  /\ ExportInit
  \* The rows of an export that does not run are not told apart.
  /\ component # "export" => arrival = [r \in Rows |-> 0] /\ format = "csv"

Runs(name) ==
  /\ component = name /\ UNCHANGED component
  /\ name # "federation" => UNCHANGED federationVars
  /\ name # "broadcast" => UNCHANGED broadcastVars
  /\ name # "commitment" => UNCHANGED commitmentVars
  /\ name # "reconciliation" => UNCHANGED reconciliationVars
  /\ name # "export" => UNCHANGED exportVars

BackgroundNext ==
  \/ Runs("federation") /\ FederationNext
  \/ Runs("broadcast") /\ BroadcastNextState
  \/ Runs("commitment") /\ CommitmentNext
  \/ Runs("reconciliation") /\ ReconciliationNext
  \/ Runs("export") /\ ExportNext

BackgroundSpec == BackgroundInit /\ [][BackgroundNext]_backgroundVars

\* Jobs of one kind are interchangeable.
BackgroundSymmetry == Permutations(Jobs)

\* Every component keeps the types of its state.
BackgroundTypeOK ==
  /\ FederationTypeOK /\ BroadcastTypeOK /\ CommitmentTypeOK
  /\ ReconciliationTypeOK /\ ExportTypeOK
==============================================================================
