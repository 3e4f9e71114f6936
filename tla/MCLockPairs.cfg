CONSTANTS
  TransCount = 2
  Relations = {r}
  Records = {a}
  NoItem = NoItem
  RelationModes = {"IX", "S", "X"}
  RecordModes = {"X"}
  MaxCalls <- TwiceEach
  Impatient = {1}
  Timed = {0}
  Savepointers = {0}
  RowWaiters = {0}
  Droppers = {1}
SPECIFICATION Spec
INVARIANTS LockInv GrantedCompatible
PROPERTY ImplementsLockTable
