SPECIFICATION FairSpec
CONSTANTS
  Trans = {t1, t2}
  PageWriters = {}
  Flusher = f
  NoOne = none
  PendCount = 1
  PendRoom = 1
  Room = 3
  WaitBlocks = 1
  FlusherActive = FALSE
  Shapes = {"rear", "chained"}
  MaxBatch = 1
  MaxLsn = 3
  MaxCrash = 0

PROPERTY EveryFlushEnds
CHECK_DEADLOCK FALSE
