SPECIFICATION Spec
CONSTANTS
  HeaderLen = 2
  Pdus <- MCPdus
  MaxPdus = 2
INVARIANTS
  ReadIsDispatched
CHECK_DEADLOCK FALSE
