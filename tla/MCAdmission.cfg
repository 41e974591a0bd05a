SPECIFICATION AdmissionSpec
CONSTANTS
  u1 = u1
  u2 = u2
  p1 = p1
  p2 = p2
  Users = {u1, u2}
  Passwords = {p1, p2}
  Files <- MCFiles
  MaxEdits = 2
  MaxHups = 2
  W = 3
  Configs <- MCConfigs
INVARIANTS
  LoadedIsAFile
  RevokedIsRefused
  FileDecides
  FailsClosed
CHECK_DEADLOCK FALSE
