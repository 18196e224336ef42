SPECIFICATION Spec
CONSTANTS
  MaxCalls = 1
  MaxLines = 1
  ChannelCap = 1
  EmitCap = 1
  Dirs = {"home", "sub"}
  Home = "home"
PROPERTY
  DropIsFinite
CHECK_DEADLOCK FALSE
