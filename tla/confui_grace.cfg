CONSTANTS
  NumQueues = 2
  max_elements = 1
  MaxSession = 2
  IoFails = FALSE
  MaxTouch = 2
  incoming_capacity = 4
  MaxCall = 1
SPECIFICATION Spec
INVARIANT TouchAfterGracePeriod
CHECK_DEADLOCK FALSE
