SPECIFICATION SysSpec
CONSTANTS
  c1 = c1
  c2 = c2
  c3 = c3
  m1 = m1
  m2 = m2
  Consumer = {c1, c2}
  MessageId = {m1, m2}
  InitiallyUp = {c1}
  Races = {"halfOpen", "overlap", "setUpError"}
  RetryDelay = {m2}
  MaxProduced = 1
  MaxCrashes = 1
  Namespace = {"ns1"}
  QueueName = {"q1"}
  QueueOf <- OneQueueOf
  Home <- HomeInNs1
  RetryThreshold <- Thresholds
  TTL = {m1}
  ConsumeTimeout = {}
  Periodic = {}
  Throwers = {}
  Hangers = {}
  MaxRuns = 1
  MaxAttempts = 0
  BatchSize = 2
CONSTRAINT OneTrouble
CHECK_DEADLOCK FALSE
INVARIANTS
  MessagesKept
  LossConfined
  NoDuplicates
  HeldByOne
  Recoverable
  ThresholdRespected
