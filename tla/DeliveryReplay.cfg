SPECIFICATION Spec
CONSTANTS
  d1 = d1
  d2 = d2
  r1 = r1
  r2 = r2
  Deliveries = {d1}
  MaxJobs = 2
  Attempts = 7
  ReplayAttempts = 1
  DeadLetterAt = 7
  Tracked = TRUE
  MaxStalledCount = 1
  Replayers = {r1}
  NoEntry = NoEntry
  MaxFaults = 0
INVARIANTS
  ReplayKeepsDelivery
CHECK_DEADLOCK FALSE
