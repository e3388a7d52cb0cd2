SPECIFICATION Spec
CONSTANTS
  LastModule = 4
  Consoles = {root, user}
  FlagSets <- MilestoneFlags
  Settings <- WithSnapshots
  MaxSteps = 2
SYMMETRY Symmetry
CHECK_DEADLOCK FALSE
PROPERTIES KeptConsolesAreLive
