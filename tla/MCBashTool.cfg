SPECIFICATION Spec
CONSTANTS
  MaxCalls = 2
  MaxLines = 1
  ChannelCap = 1
  EmitCap = 1
  Dirs = {"home", "sub"}
  Home = "home"
INVARIANTS
  NothingLeftBehind
  ResultTruthful
PROPERTIES
  CallEnds
CHECK_DEADLOCK FALSE
