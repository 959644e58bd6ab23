SPECIFICATION FairSpec
CONSTANTS
  Clients = {c1, c2}
  N = 2
  MaxRequests = 1
  AcceptMayFail = TRUE
INVARIANTS TypeOK OneWorkerPerClient NoStaleInterrupt StopLeavesNoHandler
PROPERTIES StopEndsServer ClientIsHeeded
CHECK_DEADLOCK FALSE
