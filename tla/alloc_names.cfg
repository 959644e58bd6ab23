SPECIFICATION Spec
CONSTANTS
  User = {u1, u2}
  NoUser = NoUser
  kMaxIfaceNameId = 2
  CommandsFail = FALSE
  MaxRequest = 2
  MaxResource = 1
  MaxSession = 1
  MaxStart = 0
PROPERTY StopReleasesNames
CHECK_DEADLOCK FALSE
