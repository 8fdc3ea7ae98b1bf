SPECIFICATION Spec
CONSTANTS
  u1 = u1  u2 = u2  u3 = u3  r1 = r1
  None = None  NoFile = NoFile  Torn = Torn  Zero = Zero
  Name <- MCName
  Upload <- MCUpload
  Size <- MCSize
  Reader <- MCReader
CHECK_DEADLOCK FALSE
INVARIANTS
  TypeOK
  ObjectsMatch
  DownloadsWhole
PROPERTIES
  LockComesFree
