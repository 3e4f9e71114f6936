CONSTANTS
  SessionCount = 4
  GroupOf <- LastInSecond
  Workers <- TwoServersEach
  Rows = {a, b}
  NoOne = NoOne
  MaxRequests <- TwiceLast
SPECIFICATION FairSpec
INVARIANTS TypeOK GroupEdgesExact DeadlockIsVisible
PROPERTIES VictimIsStuck EveryWaitEnds
CHECK_DEADLOCK FALSE
