SPECIFICATION FairSpec
CONSTANTS
  c1 = c1
  c2 = c2
  p1 = p1
  None = None
  Client <- TwoClients
  Proc <- OneProc
  Faults <- AllFaults
  MaxRestarts = 3
INVARIANT TypeOK
INVARIANT StopOkMeansDown
INVARIANT RestartOkMeansRebooted
INVARIANT NothingLeftUnread
PROPERTY RestartsFromNothing
PROPERTY ClientsAreAnswered
CHECK_DEADLOCK FALSE
