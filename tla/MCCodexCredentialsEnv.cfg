SPECIFICATION Spec
CONSTANTS
  Processes = {p, q}
  HasEnv = {q}
  MaxIssued = 3
  NoFile = NoFile
  Torn = Torn
  EnvToken = EnvToken
  None = None
  Refused = Refused
INVARIANTS
  EnvTokenFirst
CHECK_DEADLOCK FALSE
