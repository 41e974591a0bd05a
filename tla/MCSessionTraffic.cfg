SPECIFICATION FairSpec
CONSTANTS
  Rate = 2
  Second = 3
  PduLen = 2
  SendBuffer = 1
  MaxClock = 2
  MaxPdus = 4
INVARIANTS
  RateBound
  SentInOrder
PROPERTIES
  RefusesOnlyOverRate
  SentIsWritten
CHECK_DEADLOCK FALSE
