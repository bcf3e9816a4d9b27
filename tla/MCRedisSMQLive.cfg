SPECIFICATION SysFairSpec
CONSTANTS
  c1 = c1
  c2 = c2
  c3 = c3
  m1 = m1
  m2 = m2
  Consumer = {c1, c2}
  MessageId = {m1, m2}
  InitiallyUp = {c1, c2}
  Races = {}
  RetryDelay = {m2}
  MaxProduced = 2
  MaxCrashes = 1
  Namespace = {"ns1"}
  QueueName = {"q1"}
  QueueOf <- OneQueueOf
  Home <- HomeInNs1
  RetryThreshold <- Thresholds
  TTL = {}
  ConsumeTimeout = {m1}
  Periodic = {}
  Throwers = {}
  Hangers = {m1}
  MaxRuns = 1
  MaxAttempts = 0
  BatchSize = 2
CONSTRAINT NobodyMistaken
CHECK_DEADLOCK FALSE
PROPERTY
  EventuallyFinished
