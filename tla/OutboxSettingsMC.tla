--------------------------- MODULE OutboxSettingsMC ---------------------------
(***************************************************************************)
(* The outbox on two servers.  One compares the column and has the faults  *)
(* of the configuration and one retry request; the other refuses the       *)
(* ambiguous column, which is the default of PostgreSQL, and has crashes   *)
(* and two requests that may cross.  A behaviour of this run is one on     *)
(* either server.                                                          *)
(***************************************************************************)
EXTENDS OutboxMC

CONSTANT a1  \* the one request of the first server

VARIABLE setting

Refusing == INSTANCE Outbox WITH
  VariableConflict <- "error", FaultKinds <- {"crash"}, MaxAdminRetries <- 2

settingVars == <<setting, vars>>

SettingInit ==
  /\ setting \in {"use_column", "error"}
  /\ Init

SettingNext ==
  /\ \/ setting = "use_column" /\ Next /\ \A a \in Admins \ {a1} : adminRead'[a] = NoEvent
     \/ setting = "error" /\ Refusing!Next
  /\ UNCHANGED setting

\* A worker goes on, on the server there is.
WorkerGoesOn(w) ==
  /\ \/ setting = "use_column" /\ ProcessDispatchJob(w)
     \/ setting = "error" /\ Refusing!ProcessDispatchJob(w)
  /\ UNCHANGED setting

\* That of Outbox: the setting of the server matters to the workers alone.
SettingFairness ==
  /\ \A p \in Pollers : WF_vars(PollRead(p)) /\ WF_vars(PollEnqueue(p))
  /\ \A e \in Events : WF_vars(BackoffElapses(e)) /\ WF_vars(RequeueStalled(e))
  /\ \A e \in Events : WF_vars(\E w \in Workers : TakeJob(w, e))
  /\ \A w \in Workers : WF_vars(WorkerGoesOn(w))

SettingSpec == SettingInit /\ [][SettingNext]_settingVars /\ SettingFairness

===============================================================================
