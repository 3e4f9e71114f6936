SPECIFICATION Spec
CONSTANTS
  N = 2
  Serializable = {}
  Transactors = {2}
  Kinds <- QueryAndDefine
  MaxStmts <- TwoAndOne
  MaxOther = 2
  MaxScn = 3
INVARIANTS UncommittedIsHidden ViewsAreKept
PROPERTIES DropIsLast
CHECK_DEADLOCK FALSE
