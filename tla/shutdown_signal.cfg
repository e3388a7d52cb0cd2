\* A signal between the check of the loop status and select is noticed only when
\* a message or another signal comes.
SPECIFICATION FairSpec
CONSTANTS
  MaxQueries = 1
  MaxClient = 0
  MaxSignals = 1
  MaxCrashes = 0
CHECK_DEADLOCK FALSE
PROPERTIES SignalEndsLoop
