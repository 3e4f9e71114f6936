SPECIFICATION Spec
CONSTANTS
  N = 2
  Serializable = {1}
  Transactors = {1, 2}
  Kinds <- Queries
  MaxStmts <- OneAndOne
  MaxOther = 2
  MaxScn = 3
INVARIANT SerializableIsKept
CHECK_DEADLOCK FALSE
