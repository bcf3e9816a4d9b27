SPECIFICATION Spec
CONSTANTS
  c1 = c1
  c2 = c2
  m1 = m1
  m2 = m2
  m3 = m3
  Consumer = {c1, c2}
  MessageId = {m1, m2, m3}
  Namespace = {"ns1"}
  QueueName = {"q1"}
  QueueOf <- MCQueueOf
  InitiallyUp = {}
  Home <- MCHome
  RetryThreshold <- MCRetryThreshold
  RetryDelay = {m1}
  TTL = {m1}
  ConsumeTimeout = {m2}
  Periodic = {m3}
  Throwers = {m3}
  Hangers = {m2}
  MaxRuns = 1
  MaxCrashes = 1
  MaxAttempts = 1
CHECK_DEADLOCK FALSE
INVARIANTS
  TypeOK
  OneAtATime
  NeverIdle
  SettlesOwn
  HeldIsStored
  AcknowledgedSucceeded
  RetryPolicy
