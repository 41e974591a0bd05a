SPECIFICATION FairSpec
CONSTANTS
  HeaderLen = 2
  Pdus <- MCPdus
  MaxPdus = 3
INVARIANTS
  WritesInOrder
  NeededNeverWraps
PROPERTIES
  UnbindCloses
CHECK_DEADLOCK FALSE
