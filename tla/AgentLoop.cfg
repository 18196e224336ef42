SPECIFICATION Spec
CONSTANTS
  MaxRuns = 2
  MaxToolRounds = 1
  MaxCalls = 2
  MaxDeltas = 1
  MaxOutputs = 1
  DoneReasons = {"Stop", "Length", "ToolUse"}
  StreamCap = 1
INVARIANTS
  RequestsCarryResults
  TranscriptMatchesEvents
  CancelTakesHold
PROPERTIES
  KeepsContract
  CancelEndsRun
