CONSTANTS
  Chars = {"narrow", "wide", "LF"}
  Sizes <- SmallSizes
  MaxText = 3
  MaxHistory = 2
SPECIFICATION EditorSpec
INVARIANTS
  CursorPlaced
PROPERTIES
  EditsStayLocal
  DraftKept
