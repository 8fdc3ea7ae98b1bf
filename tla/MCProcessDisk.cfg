SPECIFICATION Spec
CONSTANTS
  w1 = w1  w2 = w2  k1 = k1  k2 = k2
  NoFile = NoFile  Empty = Empty  None = None
  Proc <- MCProc
  Write <- MCWrite
  Key <- MCKey
  Drain = 5
  Sleep = 2
CHECK_DEADLOCK FALSE
INVARIANTS
  AckedOnDisk
