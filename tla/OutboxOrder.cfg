SPECIFICATION Spec
CONSTANTS
  e1 = e1
  e2 = e2
  k1 = k1
  k2 = k2
  w1 = w1
  w2 = w2
  Events <- TwoEvents
  AggregateOf <- OneAggregate
  Keys = {k1, k2}
  KeyOf <- TwoKeys
  NoKey = NoKey
  NoEvent = NoEvent
  NoWorker = NoWorker
  Workers = {w1}
  Pollers = {p1}
  Admins = {}
  MaxRetries = 2
  BatchSize = 2
  Keep <- KeepOne
  MaxStalledCount = 1
  VariableConflict = "use_column"
  FaultKinds = {"crash", "database"}
  MaxFaults = 0
  MaxAdminRetries = 0
PROPERTIES
  StrictOrderWithinAggregate
CHECK_DEADLOCK FALSE
