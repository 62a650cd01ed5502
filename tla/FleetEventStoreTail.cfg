SPECIFICATION Spec
CONSTANTS
  MaxEvents = 4
  MaxSequence = 5
  MaxCrashes = 2
  UuidOrder <- MCUuidOrder
  Kinds = {"progress", "terminal"}
INVARIANT
  TruncatedTailIsHarmless
CHECK_DEADLOCK FALSE
