CONSTANTS
  Tui = frontend
  Line = frontend
  Clients = {frontend}
  m1 = m1
  m2 = m2
  Requests <- FrontendRequests
  Models = {m1, m2}
  DefaultModel = m1
  Target = m2
  MaxFrontendCalls = 4
  MaxPrompts = 2
  MaxCalls <- FrontendCalls
  MaxProgress = 0
  AgentCap = 1
SPECIFICATION ProgramSpec
INVARIANTS
  ShownTruthfully
  SettledOnReturn
  CacheFresh
PROPERTIES
  AwaitedHappens
