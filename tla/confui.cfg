CONSTANTS
  NumQueues = 2
  max_elements = 1
  MaxSession = 2
  IoFails = TRUE
  MaxTouch = 2
  incoming_capacity = 4
  MaxCall = 1
SPECIFICATION FairSpec
INVARIANTS
  TypeOK
  ModeFollowsSession
  SemCoversItems
  CheckOnlyAfterDrop
  FirstMessageIsAck
  WaitStopGetsStop
  ConfirmedByHost
CHECK_DEADLOCK FALSE
PROPERTIES
  PromptCallReturns
  WaitStopEnds
  AbortEndsSession
