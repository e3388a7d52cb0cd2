SPECIFICATION Spec
CONSTANTS
  Handles = {4, 5}
  wait_time_limit = 1
  hits_limit = 2
  MaxTime = 6
  MaxHits = 8
INVARIANTS TypeOK OnlyRealRates SpinningIsFound
CHECK_DEADLOCK FALSE
