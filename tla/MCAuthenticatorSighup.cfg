SPECIFICATION FairSpec
CONSTANTS
  u1 = u1
  u2 = u2
  p1 = p1
  p2 = p2
  Users = {u1, u2}
  Passwords = {p1, p2}
  Files <- MCFiles
  MaxEdits = 1
  MaxHups = 1
CHECK_DEADLOCK FALSE
PROPERTIES
  SighupReturns
