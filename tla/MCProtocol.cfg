SPECIFICATION ProtocolSpec
CONSTANTS
  MaxDepth = 4
  ByteMod = 5
  MaxCstr = 2
  NotUtf8 <- MCNotUtf8
  Strings <- MCStrings
  Times <- MCTimes
  Texts <- MCTexts
INVARIANTS
  StateObjectLive
  AnnouncedWasBound
  TruncationIsPrefix
  DeliversWhatItWasGiven
  TextArrivesAsSent
PROPERTIES
  EndedStaysEnded
CHECK_DEADLOCK FALSE
