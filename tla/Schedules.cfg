\* Every shape of event over a window that slides past it.
CONSTANTS
  Limit = 50
  MaxTime = 1000
  MaxReports = 25
  MaxCovered = 25
  FirstCovered = FALSE
  Inputs <- AllInputs
  LastInstant = 8
  Ahead = 4
SPECIFICATION Reading
INVARIANTS WindowIsExact PriorityRules ReportsAddUp
CHECK_DEADLOCK FALSE
