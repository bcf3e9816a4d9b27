SPECIFICATION SysSpec
CONSTANTS
  c1 = c1
  c2 = c2
  c3 = c3
  m1 = m1
  m2 = m2
  Consumer = {c1, c2}
  MessageId = {m1}
  InitiallyUp = {c1, c2}
  Races = {}
  RetryDelay = {}
  MaxProduced = 1
  MaxCrashes = 0
  Namespace = {"ns1"}
  QueueName = {"q1"}
  QueueOf <- OneQueueOf
  Home <- HomeInNs1
  RetryThreshold <- Thresholds
  TTL = {}
  ConsumeTimeout = {}
  Periodic = {}
  Throwers = {}
  Hangers = {}
  MaxRuns = 1
  MaxAttempts = 0
  BatchSize = 2
CHECK_DEADLOCK FALSE
INVARIANT
  NothingLost
