SPECIFICATION EndSpec
CONSTANTS
  a = a
  b = b
  c = c
  t1 = t1
  t2 = t2
  t3 = t3
  t4 = t4
  Aggregates = {a, b, c}
  Txs = {t1, t2, t3, t4}
  Batch <- FourBatches
  NoTx = NoTx
  MaxAborts = 2
  d1 = d1
  d2 = d2
  r1 = r1
  r2 = r2
  Deliveries = {d1}
  MaxJobs = 3
  Attempts = 2
  ReplayAttempts = 1
  DeadLetterAt = 2
  Tracked = TRUE
  MaxStalledCount = 1
  Replayers = {r1, r2}
  NoEntry = NoEntry
  MaxFaults = 2
INVARIANTS
  RequestsBounded
  DeadLetterIsFinal
  NothingLost
PROPERTIES
  EveryTransactionEnds
  PublishesAtOnce
  SuccessIsFinal
  EveryDeliverySettles
CHECK_DEADLOCK FALSE
