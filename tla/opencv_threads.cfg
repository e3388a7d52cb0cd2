SPECIFICATION Spec
CONSTANTS
  Main = Main
  Workers = {w1, w2, w3, w4}
  Requests <- MCRequests
  NumThreads = 5
  NumberOfCPUs = 5
  SpuriousWakeups = FALSE
CHECK_DEADLOCK FALSE
INVARIANTS SignalsBlocked
PROPERTIES DefaultReturns
