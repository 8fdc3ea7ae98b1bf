SPECIFICATION Spec
CONSTANTS
  k1 = k1  k2 = k2
  Client <- MCClient
  Limit = 2
  Dur = 2
  MaxTime = 7
INVARIANTS
  TypeOK
  BurstBound
  NoEarlyRefusal
PROPERTIES
  ExpiredWindowsGo
