SPECIFICATION ConfigSpec
CONSTANTS
  k1 = k1  k2 = k2  v1 = v1  v2 = v2
  Absent = Absent  Nil = Nil  NoFile = NoFile  Torn = Torn  None = None
  Key <- MCKey
  Value <- MCValue
CHECK_DEADLOCK FALSE
INVARIANTS
  ConfigTypeOK
  SavedParamsStand
PROPERTIES
  CallsReturn
