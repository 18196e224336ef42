SPECIFICATION Spec
CONSTANTS
  MaxDeltas = 1
  MaxCalls = 1
  Pieces = 1
  InFlight = 1
  StreamCap = 1
  DoneReasons = {"Stop", "Length", "ToolUse", "Error"}
  MaxSaid = 5
  MaxSaidOfCalls = 5
CONSTRAINT Short
INVARIANTS
  RemainingCallsEmitted
CHECK_DEADLOCK FALSE
