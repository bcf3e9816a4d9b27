SPECIFICATION PrioritySpec
CONSTANTS
  c1 = c1
  c2 = c2
  m1 = m1
  m2 = m2
  w1 = w1
  w2 = w2
  Consumer <- MCConsumer
  MessageId <- MCMessageId
  Priority <- MCPriority
  RetryThreshold <- MCThreshold
  RetryDelay = {m1}
  TTL = {}
  ConsumeTimeout = {}
  Periodic = {}
  Worker = {w1}
  WithPriority <- MCWithPriority
  MaxAttempts = 3
INVARIANT PriorityNothingLost
