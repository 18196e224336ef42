SPECIFICATION Spec
CONSTANTS
  Processes = {p, q}
  HasEnv = {q}
  MaxIssued = 3
  NoFile = NoFile
  Torn = Torn
  EnvToken = EnvToken
  None = None
  Refused = Refused
INVARIANTS
  LoginKept
  FreshTokenAccepted
PROPERTIES
  CallsSettle
CHECK_DEADLOCK FALSE
