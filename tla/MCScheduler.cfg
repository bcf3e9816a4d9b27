SPECIFICATION SchedFairSpec
CONSTANTS
  m1 = m1
  m2 = m2
  m3 = m3
  w1 = w1
  w2 = w2
  r1 = r1
  r2 = r2
  NoOne = NoOne
  MessageId = {m1, m2, m3}
  ScheduledDelay <- MCDelay
  ScheduledRepeat <- MCRepeat
  ScheduledPeriod <- MCPeriod
  ScheduledCron <- MCCron
  Worker = {w1}
  Caller = {r1, r2}
  Cycle = 2
  MaxProduced = 2
  MaxSent = 4
INVARIANTS
  DeliveriesBounded
  OneTooMany
  IdsHaveTexts
  GoneForGood
PROPERTIES
  NeverEarly
  AllDelivered
