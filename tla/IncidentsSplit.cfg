SPECIFICATION IntakeSpec
CONSTANTS
  Raisers = {x1}
  Severities = {1, 2}
  MaxIncidents = 2
  MaxIntakeFaults = 0
INVARIANTS RepeatsCollapse
CHECK_DEADLOCK FALSE
