SPECIFICATION FairSpec
CONSTANTS
  Boot = Boot
  s1 = s1
  Others <- OneOther
  subscriber_fds <- BootFirst
  Cap = 4
  MaxEvents = 1
  run_as_daemon = TRUE
  restart_subprocesses = FALSE
  Rebooted = TRUE
  Faults <- ClientFault
PROPERTY FinalStateIsSent
CHECK_DEADLOCK FALSE
