CONSTANTS
  TransCount = 3
  Relations = {r}
  Records = {}
  NoItem = NoItem
  RelationModes = {"IX", "S", "X"}
  RecordModes = {}
  MaxCalls <- TwiceFirst
  Impatient = {}
  Timed = {2}
  Savepointers = {}
  RowWaiters = {}
  Droppers = {1}
SPECIFICATION Spec
INVARIANTS QueueHasHolder SignalMatchesQueue SlotReleased
PROPERTIES DropIsFinal AgedItemIsEmpty
CHECK_DEADLOCK FALSE
