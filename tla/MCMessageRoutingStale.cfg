CONSTANTS
  Msgs = {m1, m2}
  NumSessions = 2
  Restarts = 1
CHECK_DEADLOCK FALSE
SPECIFICATION Spec
PROPERTY RoutesToBound
