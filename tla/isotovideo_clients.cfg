SPECIFICATION Spec
CONSTANTS
  TestNames = {"m1"}
  ClientCommands <- AllClients
  MaxQueries = 2
  MaxClient = 2
  FdNumber <- OpeningOrder
INVARIANTS AnswerHasToken ReplyIsForRequester PausedIffHeld
  ClientsSeePause StatusFileNotStale
PROPERTIES HeldTestStands
CHECK_DEADLOCK FALSE
