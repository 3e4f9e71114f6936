SPECIFICATION Spec
CONSTANTS
  Trans = {t1, t2}
  PageWriters = {}
  Flusher = f
  NoOne = none
  PendCount = 1
  PendRoom = 1
  Room = 5
  WaitBlocks = 3
  FlusherActive = TRUE
  Shapes = {"rear", "chained"}
  MaxBatch = 1
  MaxLsn = 3
  MaxCrash = 0
PROPERTY EveryFlushIsDurable
CHECK_DEADLOCK FALSE
