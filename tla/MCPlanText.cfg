SPECIFICATION Spec
CONSTANTS
  Session = {1, 2}
  Sql = {q1, q2}
  NoSql = NoSql
  Plan = {p1}
  Clock = {1}
  ClockOf <- OneClock
  BlockSize = 1
  MaxBlocks = 1
  MaxFlangeCount = 1
  PlanSlots = 1
  AgingThreshold = 0
  DeadAge = 1
  RefLimit = 3
INVARIANT TextIsFreedOnce
