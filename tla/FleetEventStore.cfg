SPECIFICATION Spec
CONSTANTS
  MaxEvents = 4
  MaxSequence = 5
  MaxCrashes = 2
  UuidOrder <- MCUuidOrder
  Kinds = {"progress", "terminal", "oversized", "unreducible"}
INVARIANTS
  TypeOK
  ExactlyOnceInOrder
  FlushedSurvives
  AckedRecoverable
  SequenceNeverReused
PROPERTIES
  SnapshotNeverRegresses
  AppendSettles
  ProgressPersists
CHECK_DEADLOCK FALSE
