SPECIFICATION Spec
CONSTANTS
  parent = parent
  child = child
  other = other
  NoId = NoId
  Runs = {parent, child}
  ParentOf <- MCParentOf
  Isolation <- MCWriters
  Conflicts <- MCConflicts
  MaxSessions = 3
  MaxAttempts = 2
  MaxRetries = 1
  MaxStops = 1
  MaxCancels = 0
  MaxSends = 1
  MaxHeartbeats = 1
  MayDispose = FALSE
  CallersWait = TRUE
INVARIANTS
  TypeOK
  WriteExclusion
  QuiescentIsTerminal
  NothingLeaks
PROPERTIES
  StopMeansStopped
CHECK_DEADLOCK FALSE
