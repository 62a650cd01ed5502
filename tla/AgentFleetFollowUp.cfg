SPECIFICATION Spec
CONSTANTS
  parent = parent
  child = child
  other = other
  NoId = NoId
  Runs = {parent}
  ParentOf <- MCParentOf
  Isolation <- MCReaders
  Conflicts = {}
  MaxSessions = 2
  MaxAttempts = 1
  MaxRetries = 0
  MaxStops = 1
  MaxCancels = 0
  MaxSends = 1
  MaxHeartbeats = 0
  MayDispose = FALSE
  CallersWait = TRUE
PROPERTIES
  FollowUpRespectsStop
CHECK_DEADLOCK FALSE
