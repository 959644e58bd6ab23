SPECIFICATION FairSpec
CONSTANTS
  N = 2
  Critical <- MCCritical
  Faults <- RunCvdFault
  MaxCrashes = 0
PROPERTY MonitorDiesWithParent
CHECK_DEADLOCK FALSE
