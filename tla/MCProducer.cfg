SPECIFICATION ProducerFairSpec
CONSTANTS
  MaxCalls = 4
  MaxConnections = 3
  Schedulable <- MCSchedulable
CHECK_DEADLOCK FALSE
INVARIANTS
  AnsweredTruly
  StoredInCallOrder
PROPERTY
  EveryCallAnswered
