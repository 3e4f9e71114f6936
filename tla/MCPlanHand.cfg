SPECIFICATION Spec
CONSTANTS
  Session = {1}
  Sql = {q1, q2, q3}
  NoSql = NoSql
  Plan = {p1}
  Clock = {1}
  ClockOf <- OneClock
  BlockSize = 2
  MaxBlocks = 1
  MaxFlangeCount = 2
  PlanSlots = 1
  AgingThreshold = 1
  DeadAge = 1
  RefLimit = 2
INVARIANT AgingMakesRoom
