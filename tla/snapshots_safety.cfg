\* Two jobs on the same overlays, the second one with SKIPTO.
SPECIFICATION Spec
CONSTANTS
  LastDrive = 2
  LastModule = 2
  TestSnapshots = TRUE
  Sigterms = TRUE
  Jobs = 2
  MaxSnapshots = 3
  MaxWrites = 2
CHECK_DEADLOCK FALSE
INVARIANTS ModelConsistent SnapshotsIntact
PROPERTIES RestoredAsSaved
