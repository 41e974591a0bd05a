SPECIFICATION Spec
CONSTANTS
  ByteMod = 5
  MaxCstr = 2
  NotUtf8 <- MCNotUtf8
  Strings <- MCStrings
  Times <- MCTimes
  Texts <- MCTexts
INVARIANTS
  BinaryArrivesAsSent
CHECK_DEADLOCK FALSE
