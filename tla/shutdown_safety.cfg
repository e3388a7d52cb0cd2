SPECIFICATION FairSpec
CONSTANTS
  MaxQueries = 1
  MaxClient = 1
  MaxSignals = 2
  MaxCrashes = 1
CHECK_DEADLOCK FALSE
INVARIANTS SuccessWithoutException ImagesAreAtRest NoOrphans
PROPERTIES EndOfChildEndsAll SecondSignalEnds
