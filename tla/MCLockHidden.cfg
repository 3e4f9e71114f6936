CONSTANTS
  TransCount = 3
  Relations = {r}
  Records = {}
  NoItem = NoItem
  RelationModes = {"IX", "S", "X"}
  RecordModes = {}
  MaxCalls <- TwiceFirst
  Impatient = {}
  Timed = {}
  Savepointers = {}
  RowWaiters = {}
  Droppers = {}
SPECIFICATION Spec
INVARIANT DeadlockIsVisible
CHECK_DEADLOCK FALSE
