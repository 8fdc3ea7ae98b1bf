SPECIFICATION Spec
CONSTANTS
  u1 = u1  u2 = u2
  NoFile = NoFile  Empty = Empty  Torn = Torn  None = None
  Doc <- MCDoc
  Posted <- MCPosted
  Default <- MCDefault
  Updater <- MCUpdater
  Text <- MCText
  Wild <- MCWild
  Path <- MCPath
  User <- MCUser
INVARIANTS
  TypeOK
  LoneUpdatePersists
  CheckMeansRules
CHECK_DEADLOCK FALSE
