SPECIFICATION SettingSpec
CONSTANTS
  e1 = e1
  e2 = e2
  k1 = k1
  k2 = k2
  w1 = w1
  w2 = w2
  Events <- TwoEvents
  AggregateOf <- OneAggregate
  Keys = {k1}
  KeyOf <- KeyAndNoKey
  NoKey = NoKey
  NoEvent = NoEvent
  NoWorker = NoWorker
  Workers = {w1, w2}
  Pollers = {p1}
  a1 = a1
  Admins = {a1, a2}
  MaxRetries = 2
  BatchSize = 2
  Keep <- KeepOne
  MaxStalledCount = 1
  VariableConflict = "use_column"
  FaultKinds = {"crash", "lockLost", "database", "broker"}
  MaxFaults = 1
  MaxAdminRetries = 1
INVARIANTS
  DeliveredWasHandled
  DeadLettersEarned
PROPERTIES
  
  KeepsPromise
  EveryEventAttempted
CHECK_DEADLOCK FALSE
