CONSTANTS
  Ids = {e1, e2, e3}
  NoId = NoId
  RootId = RootId
  Names = {name}
  NoName = NoName
  MaxFaults = 0
SYMMETRY IdsAreAlike
CHECK_DEADLOCK FALSE
SPECIFICATION Spec
INVARIANTS
  OneEntryPerLine
