SPECIFICATION Spec
CONSTANTS
  parent = parent
  child = child
  other = other
  NoId = NoId
  Runs = {parent, other}
  ParentOf <- MCParentOf
  Isolation <- MCWriters
  Conflicts <- MCConflicts
  MaxSessions = 3
  MaxAttempts = 2
  MaxRetries = 1
  MaxStops = 1
  MaxCancels = 0
  MaxSends = 0
  MaxHeartbeats = 0
  MayDispose = FALSE
  CallersWait = FALSE
INVARIANTS
  SharedWritesSerialized
CHECK_DEADLOCK FALSE
