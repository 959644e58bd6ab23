SPECIFICATION FairSpec
CONSTANTS
  Boot = Boot
  s1 = s1
  Others <- OneOther
  subscriber_fds <- BootFirst
  Cap = 2
  MaxEvents = 4
  run_as_daemon = TRUE
  restart_subprocesses = FALSE
  Rebooted = TRUE
  Faults <- NoFaults
PROPERTY LogIsWritten
CHECK_DEADLOCK FALSE
