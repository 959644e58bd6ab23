SPECIFICATION FairSpec
CONSTANTS
  User = {u1, u2}
  NoUser = NoUser
  kMaxIfaceNameId = 2
  CommandsFail = TRUE
  MaxRequest = 2
  MaxResource = 1
  MaxSession = 1
  MaxStart = 1
INVARIANTS TypeOK NoOrphanTap OneOwnerPerName
PROPERTY ServesNextClient
CHECK_DEADLOCK FALSE
