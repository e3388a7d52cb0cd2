SPECIFICATION Spec
CONSTANTS
  LastModule = 4
  Consoles = {root, user}
  FlagSets <- CommonFlags
  Settings <- JobSettings
  MaxSteps = 2
SYMMETRY Symmetry
CHECK_DEADLOCK FALSE
INVARIANTS NoLeftovers CompletedRanAll
PROPERTIES FatalStops LoginsAreKept
