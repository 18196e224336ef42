CONSTANTS
  c1 = c1
  c2 = c2
  m1 = m1
  Clients = {c1, c2}
  Requests <- LifeRequests
  Models = {m1}
  DefaultModel = m1
  MaxCalls <- TwoAndOne
  MaxProgress = 0
  AgentCap = 1
SPECIFICATION Spec
PROPERTY
  HandlesGoneStops
