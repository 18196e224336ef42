CONSTANTS
  c1 = c1
  c2 = c2
  m1 = m1
  Clients = {c1, c2}
  Requests <- AllRequests
  Models = {m1}
  DefaultModel = m1
  MaxCalls <- TwoAndOne
  MaxProgress = 1
  AgentCap = 1
CONSTRAINT FirstAsksForRuns
SPECIFICATION Spec
INVARIANTS
  OwnershipTruthful
  EventsDelivered
  ShutdownAnsweredLast
  OnlyAskedRunsAbort
PROPERTIES
  DrivesContract
  CallsAndRunsSettle
