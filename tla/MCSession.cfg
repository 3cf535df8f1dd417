SPECIFICATION Spec
CONSTANTS
  Calls = {c1, c2}
  Clients = {k1, k2, k3, k4}
  Envs = {live, paper}
  None = None
INVARIANTS
  TypeOK
  OperatesOnOpenClient
  OperatesInConfiguredEnvironment
  OperationsDoNotWait
PROPERTY CallsEnd
