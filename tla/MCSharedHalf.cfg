CONSTANTS
  SessionCount = 3
  GroupOf <- LastInSecond
  Workers <- TwoServersEach
  Rows = {a, b}
  NoOne = NoOne
  MaxRequests <- TwiceEach
SPECIFICATION Spec
PROPERTY NoFalseVictim
CHECK_DEADLOCK FALSE
