SPECIFICATION PushSpec
CONSTANTS
  Base = 2
  TimeDigits = 2
  RandDigits = 2
  MaxMillis = 3
  MaxMade = 5
INVARIANTS
  PushTypeOK
  KeysInOrder
  KeysDistinct
