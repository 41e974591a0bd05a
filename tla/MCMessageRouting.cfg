SPECIFICATION FairSpec
CONSTANTS
  Msgs = {m1, m2}
  NumSessions = 2
  Restarts = 1
CHECK_DEADLOCK FALSE
INVARIANTS
  SenderOrder
  RoutedIsWritten
  BindRespFirst
PROPERTIES
  AtMostOnce
  CallsReturn
