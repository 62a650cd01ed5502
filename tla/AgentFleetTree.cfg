SPECIFICATION Spec
CONSTANTS
  parent = parent
  child = child
  other = other
  NoId = NoId
  Runs = {parent, child}
  ParentOf <- MCParentOf
  Isolation <- MCReaders
  Conflicts = {}
  MaxSessions = 2
  MaxAttempts = 1
  MaxRetries = 0
  MaxStops = 0
  MaxCancels = 1
  MaxSends = 0
  MaxHeartbeats = 0
  MayDispose = TRUE
  CallersWait = TRUE
INVARIANTS
  CapacityRespected
  NothingLeaks
  DisposedIsQuiet
PROPERTIES
  NoWorkUnderCancelledOwner
  StopsReturn
  CancelReturns
  WaitersResolve
  QueueDrains
CHECK_DEADLOCK FALSE
