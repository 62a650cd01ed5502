SPECIFICATION Spec
CONSTANTS
  MaxEvents = 4
  MaxSequence = 5
  MaxCrashes = 0
  UuidOrder <- MCUuidOrder
  Kinds = {"progress", "terminal", "unreducible"}
INVARIANT
  TerminalStateIsOnDisk
CHECK_DEADLOCK FALSE
