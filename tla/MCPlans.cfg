SPECIFICATION Spec
CONSTANTS
  Session = {s1, s2}
  Sql = {q1, q2}
  NoSql = NoSql
  Plan = {p1, p2}
  Clock = {1}
  ClockOf <- OneClock
  BlockSize = 1
  MaxBlocks = 2
  MaxFlangeCount = 3
  PlanSlots = 2
  AgingThreshold = 0
  DeadAge = 1
  RefLimit = 3
INVARIANTS PlanInv RefCountExact HandlesAreValid OneFlangePerSql
SYMMETRY Interchangeable
