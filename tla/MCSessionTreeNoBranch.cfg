CONSTANTS
  Ids = {e1, e2, e3}
  NoId = NoId
  RootId = RootId
  Names = {name}
  NoName = NoName
CHECK_DEADLOCK FALSE
SPECIFICATION Spec
INVARIANTS
  EveryLeafHasABranch
