SPECIFICATION LoopsSpec
CONSTANTS
  Callers = {c1, c2}
  Thresholds = {1}
  MaxOverrides = 1
  MaxStoreFaults = 0
  MaxReconnectAttempts = 2
  MaxEvents = 3
  MaxTroubles = 4
  IngestionJobs = {1, 2}
  Polls = {p1, p2}
  Handlers = {h1, h2}
  Requeuers = {q1, q2}
  ConcurrencyLimit = 1
  MaxAttempts = 2
  MaxRefusals = 3
  MaxRequeues = 2
  Loops = {l1, l2}
  Manuals = {m1}
  MaxLevel = 3
  AckLevels = {1}
  MaxEngineRequests = 3
  MaxIncidentRequests = 2
  DigestJobs = {j1, j2}
  Digests = {d1}
  ItemCount = 2
  MaxDigestAttempts = 3
  MaxDigestFaults = 1
  JsonbAsText = TRUE
INVARIANTS LoopsTypeOK NothingVanishes MailedOnce
PROPERTIES BreakerHeals NextEventFollows LostIsReadOrNoticed EveryJobSettles RaisedOnlyWhenDue EveryDigestSettles
CHECK_DEADLOCK FALSE
