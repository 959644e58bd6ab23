SPECIFICATION FairSpec
CONSTANTS
  Boot = Boot
  s1 = s1
  Others <- OneOther
  subscriber_fds <- BootFirst
  Cap = 2
  MaxEvents = 2
  run_as_daemon = TRUE
  restart_subprocesses = TRUE
  Rebooted = TRUE
  Faults <- AllFaults
INVARIANT TypeOK
INVARIANT SuccessMeansBooted
INVARIANT EveryEventToEverySubscriber
INVARIANT FirstFinalEventReported
PROPERTY BootIsReported
PROPERTY WaitersReturn
CHECK_DEADLOCK FALSE
