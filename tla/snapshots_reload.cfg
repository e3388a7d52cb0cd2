\* A job goes back to a milestone and saves another snapshot; the next one loads
\* the state file.
SPECIFICATION Spec
CONSTANTS
  LastDrive = 1
  LastModule = 3
  TestSnapshots = TRUE
  Sigterms = FALSE
  Jobs = 2
  MaxSnapshots = 4
  MaxWrites = 1
CHECK_DEADLOCK FALSE
INVARIANTS StateReloads
