SPECIFICATION BackgroundSpec
CONSTANTS
  WindowSize = 2
  ReplayCapacity = 2
  MaxReconnectAttempts = 1
  Polls = {p1, p2}
  MaxChainEvents = 3
  MaxStreamErrors = 2
  Instances = {s1, s2}
  Clients = {k1}
  Fetches = {f1, f2}
  Alerts = {a1, a2}
  FetchLimit = 2
  MaxTime = 2
  NoHome = none
  Jobs = {j1, j2}
  MaxAttempts = 2
  LeafCounts = {3}
  MaxLeaves = 7
  SampleSize = 1
  MaxMishaps = 1
  Hourly = {h1, h2}
  MaxRunAttempts = 2
  MaxExpiries = 1
  MaxRunFaults = 2
  MaxJobDeaths = 1
  NoLock = none
  Rows = {r1, r2}
  MaxRowTime = 2
  PageSize = 1
  Exporters = {w1}
  MaxExportAttempts = 2
  Formats = {"csv", "pdf"}
  MaxExportFaults = 2
  NoExporter = none
SYMMETRY BackgroundSymmetry
INVARIANTS BackgroundTypeOK FeedsKept BroadcastsBounded CommitmentsAccounted RunsUnderLock RecordTellsTruth
CHECK_DEADLOCK FALSE
