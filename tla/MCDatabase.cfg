SPECIFICATION Spec
CONSTANTS
  w1 = w1  w2 = w2  a = a  b = b  k1 = k1  x = x  y = y
  Obj = Obj  Torn = Torn  NoReq = NoReq  Free = Free
  Writer <- MCWriter
  Key <- MCKey
  Leaf <- MCLeaf
  PushKey <- MCPushKey
  Requests <- MCRequests
INVARIANTS
  TypeOK
  SavedCallsStand
  MemoryMatchesFile
PROPERTIES
  ImplementsStore
  CallsReturn
