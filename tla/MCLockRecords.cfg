CONSTANTS
  TransCount = 3
  Relations = {}
  Records = {a, b}
  NoItem = NoItem
  RelationModes = {}
  RecordModes = {"X"}
  MaxCalls <- TwiceEach
  Impatient = {}
  Timed = {}
  Savepointers = {}
  RowWaiters = {}
  Droppers = {}
SPECIFICATION FairSpec
INVARIANT DeadlockIsVisible
PROPERTIES VictimIsStuck EveryWaitEnds
