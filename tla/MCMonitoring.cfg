SPECIFICATION MonitorFairSpec
CONSTANTS
  c1 = c1
  p1 = p1
  m1 = m1
  Consumer <- MCConsumer
  Producer <- MCProducer
  Server = {s1, s2}
  Message <- MCMessage
  NoServer = NoServer
  Fleets <- MCFleets
CHECK_DEADLOCK FALSE
INVARIANTS
  SizesCountOnce
  OneCollector
PROPERTIES
  StatsKeepComing
  GhostsLeave
