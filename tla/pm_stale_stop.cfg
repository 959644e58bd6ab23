SPECIFICATION Spec
CONSTANTS
  N = 2
  Critical <- MCCritical
  Faults <- NoFaults
  MaxCrashes = 2
INVARIANT StopsOnlyUnreaped
