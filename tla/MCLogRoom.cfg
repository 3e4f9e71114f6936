SPECIFICATION FairSpec
CONSTANTS
  Trans = {t1}
  PageWriters = {w}
  Flusher = f
  NoOne = none
  PendCount = 1
  PendRoom = 1
  Room = 3
  WaitBlocks = 1
  FlusherActive = TRUE
  Shapes = {"rear", "chained"}
  MaxBatch = 1
  MaxLsn = 2
  MaxCrash = 0

PROPERTY EveryFlushReturns
CHECK_DEADLOCK FALSE
