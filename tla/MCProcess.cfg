SPECIFICATION Spec
CONSTANTS
  w1 = w1  w2 = w2  k1 = k1  k2 = k2
  NoFile = NoFile  Empty = Empty  None = None
  Proc <- MCProc
  Write <- MCWrite
  Key <- MCKey
  Drain = 2
  Sleep = 1
CHECK_DEADLOCK FALSE
INVARIANTS
  TypeOK
  AckedWritesKept
  TokensOutliveRestarts
PROPERTIES
  ShutdownEnds
