SPECIFICATION Spec
CONSTANTS
  MaxQueries = 1
  MaxClient = 0
  MaxSignals = 0
  MaxCrashes = 1
CHECK_DEADLOCK FALSE
INVARIANTS SuccessIsReal
