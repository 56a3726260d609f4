SPECIFICATION FairEscalationSpec
CONSTANTS
  Loops = {l1}
  Manuals = {m1}
  MaxLevel = 3
  AckLevels = {1}
  MaxEngineRequests = 1
  MaxIncidentRequests = 1
  JsonbAsText = FALSE
PROPERTIES ClimbsUntilHeard
CHECK_DEADLOCK FALSE
