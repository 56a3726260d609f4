SPECIFICATION RecordsSpec
CONSTANTS
  Callers = {c1, c2}
  Thresholds = {2}
  MaxOverrides = 1
  MaxStoreFaults = 1
  Addresses = {a1, a2}
  Founders = {a1}
  Proposals = {p1}
  Approvers = {v1, v2}
  Requests = {r1, r2}
  None = none
  MinimumAdminCount = 1
  RequiredApprovals = 2
  JsonbAsText = TRUE
  MaxDeaths = 1
  Evaluators = {e1, e2}
  AlertRule <- MCAlertRule
  Snapshots <- MCSnapshots
  DedupWindow <- MCDedupWindow
  MaxClock = 1
  MaxAlerts = 2
  MaxAlertFaults = 1
  RoutedAlerts = {n1, n2}
  Channels = {"in_app", "webhook", "email"}
  RoutingRules <- MCRoutingRules
  Preferences = {{"webhook", "email"}, {}}
  MaxRoutingRefusals = 1
  Raisers = {x1, x2}
  Severities = {1, 2}
  MaxIncidents = 2
  MaxIntakeFaults = 1
  Reports <- MCReports
  Calls = {i1, i2}
  MaxIngestAttempts = 3
  MaxDeliveries = 3
  MaxNetworkFaults = 3
  Operators = {o1, o2}
  MaxDecommissions = 6
  RangeEnd = 5
  ChunkSizes = {2, 3}
  ConcurrencyLevels = {1, 2}
  Workers = {w1, w2}
  MaxRetries = 1
  MaxBackfillRuns = 2
  MaxSinkFaults = 1
SYMMETRY RecordsSymmetry
INVARIANTS RecordsTypeOK CutOffWhenDue ExecutionHasQuorum MinimumKept AppliedOnce SettledAlertsHold HeardOrExhausted DuplicatesOverlapped SeverityFollowsAlerts StoredOnce FallbackOnlyUnderWay CompletionEarned ResolvedIsComplete
CHECK_DEADLOCK FALSE
