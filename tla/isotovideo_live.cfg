SPECIFICATION FairSpec
CONSTANTS
  TestNames = {"m1"}
  ClientCommands <- PauseAndResume
  MaxQueries = 2
  MaxClient = 2
  FdNumber <- OpeningOrder
INVARIANTS OneDebt
PROPERTIES QueriesServed TestAnsweredOrHeld
CHECK_DEADLOCK FALSE
