SPECIFICATION WorkersFairSpec
CONSTANTS
  c1 = c1
  c2 = c2
  c3 = c3
  NoOne = NoOne
  Consumer = {c1, c2, c3}
  WorkerCount = 2
CHECK_DEADLOCK FALSE
INVARIANTS
  WorkersTypeOK
  LockProtects
  DownMeansDown
PROPERTIES
  Takeover
  ImplementsOwnership
