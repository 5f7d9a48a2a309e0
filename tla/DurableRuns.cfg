SPECIFICATION Spec
CONSTANTS
  p1 = p1
  p2 = p2
  None = None
  Procs = {p1, p2}
  Ids = {p1, p2}
  WorkerId <- OwnIds
  TTL = 1
  Lag = 1
  MaxRetries = 1
  MaxSteps = 2
  EventKeys = {1}
  MaxEvents = 2
  MaxCrashes = 1
SYMMETRY Interchangeable
INVARIANTS TypeOK OwnerIsCurrent RetryBudget
PROPERTY ImplementsRunLog
CHECK_DEADLOCK FALSE
