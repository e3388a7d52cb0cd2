SPECIFICATION FairSpec
CONSTANTS
  Timeouts = {1, 3}
  StillTimes = {2}
  Screens = {"a", "b"}
  MaxRounds = 1
  MaxCommands = 2
INVARIANTS NoCommandLost
PROPERTIES BackendServed StillIsStill CommandsAnswered
CHECK_DEADLOCK FALSE
