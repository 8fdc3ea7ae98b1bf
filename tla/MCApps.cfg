SPECIFICATION Spec
CONSTANTS
  default = default  a = a  k1 = k1  k2 = k2  k3 = k3  h1 = h1  h2 = h2
  None = None
  Default = default
  Id <- MCId
  APIKey <- MCAPIKey
  Handler <- MCHandler
INVARIANTS
  TypeOK
  ServedAreRegistered
  AckedDataKept
  DataIsolated
