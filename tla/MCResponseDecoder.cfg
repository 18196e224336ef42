SPECIFICATION Spec
CONSTANTS
  MaxDeltas = 2
  MaxCalls = 2
  Pieces = 2
  InFlight = 1
  StreamCap = 1
  DoneReasons = {"Stop", "Length", "ToolUse", "Error"}
  MaxSaid = 4
  MaxSaidOfCalls = 7
CONSTRAINT Short
INVARIANTS
  ContentFaithful
PROPERTIES
  KeepsStreamContract
CHECK_DEADLOCK FALSE
