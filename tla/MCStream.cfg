SPECIFICATION Spec
CONSTANTS
  w1 = w1  w2 = w2  c1 = c1  a = a  b = b  x = x
  Obj = Obj  NoReq = NoReq
  Cap = 1
  Writer <- MCWriter
  Client <- MCClient
  Prefix <- MCPrefix
  Key <- MCKey
  Leaf <- MCLeaf
  PushKey <- MCPushKey
  Requests <- MCRequests
INVARIANTS
  TypeOK
  StreamConverges
  NoSendOnClosed
PROPERTIES
  PublisherNeverBlocks
