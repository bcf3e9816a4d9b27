SPECIFICATION AdminSpec
CONSTANTS
  c1 = c1
  c2 = c2
  m1 = m1
  m2 = m2
  r1 = r1
  r2 = r2
  s1 = s1
  s2 = s2
  NoOne = NoOne
  Consumer <- MCConsumer
  MessageId <- MCMessageId
  Caller <- MCCaller
  Stamp <- MCStamp
  MaxRequests = 2
SYMMETRY MCSymmetry
CHECK_DEADLOCK FALSE
INVARIANTS
  AdminNothingLost
  AdminDeliveredToOne
  OnlyTheDeleterIsTold
  LockInCall
PROPERTY
  OnlyTheNamedMessage
