SPECIFICATION FairSpec
CONSTANTS
  N = 3
  Critical <- MCCritical
  Faults <- AllFaults
  MaxCrashes = 2
INVARIANT TypeOK
INVARIANT StoppedMeansStopped
INVARIANT ReverseStopOrder
INVARIANT StopIsOnItsWay
INVARIANT CriticalExitNotLost
PROPERTY ImplementsSupervisor
PROPERTY StopReturns
PROPERTY CrashedIsRestarted
CHECK_DEADLOCK FALSE
