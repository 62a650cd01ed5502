SPECIFICATION Spec
CONSTANTS
  first = first
  second = second
  again = again
  review = review
  search = search
  Calls = {first, second, again}
  Keys = {review, search}
  Key <- MCKey
  MaxConcurrency = 2
  MaxCalls = 1
  MaxRequests = 3
  MaxExecutions = 2
CHECK_DEADLOCK FALSE
INVARIANTS
  TypeOK
  SlotsAccounted
  NoLostWakeup
  StoppedChildrenEnd
PROPERTIES
  NotReplayed
  QueueDrains
