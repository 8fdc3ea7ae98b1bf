SPECIFICATION Spec
CONSTANTS
  a = a  A = A  u1 = u1  u2 = u2  j1 = j1  j2 = j2  r1 = r1  r2 = r2
  None = None
  Email <- MCEmail
  Lower <- MCLower
  UID <- MCUID
  JTI <- MCJTI
  Request <- MCRequest
  TTL = 1
  MaxTime = 2
INVARIANTS
  TypeOK
  AccountsMatchFile
  OneAccountPerAddress
  TokenHoldersKnown
  RevokedTokenRefused
PROPERTIES
  ExpiredRevocationsGo
