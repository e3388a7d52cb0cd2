SPECIFICATION FairSpec
CONSTANTS
  TestNames = {"m1"}
  ClientCommands <- BackendAndResume
  MaxQueries = 1
  MaxClient = 2
  FdNumber <- OpeningOrder
PROPERTIES TestAnsweredOrHeld
CHECK_DEADLOCK FALSE
