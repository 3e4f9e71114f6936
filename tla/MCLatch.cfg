SPECIFICATION FairSpec
CONSTANTS
  t1 = t1
  t2 = t2
  t3 = t3
  Thread <- MCThread
  SharedEnv <- MCSharedEnv
  MaxCalls <- MCMaxCalls
  NoOne = none
  Kinds = {"wait", "timed", "try", "once"}
  ExclWakeup = 1
  SharedWakeup = 2
INVARIANTS SemaphoreExact WaitersAreWoken
PROPERTIES ImplementsRWLock EveryWaitEnds
CHECK_DEADLOCK FALSE
