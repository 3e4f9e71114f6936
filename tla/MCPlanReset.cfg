SPECIFICATION Spec
CONSTANTS
  Session = {1, 2}
  Sql = {q1, q2}
  NoSql = NoSql
  Plan = {p1}
  Clock = {1}
  ClockOf <- OneClock
  BlockSize = 2
  MaxBlocks = 2
  MaxFlangeCount = 5
  PlanSlots = 1
  AgingThreshold = 0
  DeadAge = 0
  RefLimit = 3
INVARIANT CachedOnce
