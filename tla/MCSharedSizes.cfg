CONSTANTS
  SessionCount = 4
  GroupOf <- LastInSecond
  Workers <- TwoAndOne
  Rows = {a, b}
  NoOne = NoOne
  MaxRequests <- TwiceEach
SPECIFICATION Spec
INVARIANT DeadlockIsVisible
CHECK_DEADLOCK FALSE
