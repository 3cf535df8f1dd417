SPECIFICATION Spec
CONSTANTS
  s1 = s1  s2 = s2
  Approvals = {a1, a2}
  Calls = {c1, c2}
  Servers = {s1}
  ServerOf <- OneServer
  ClientIds = {k1}
  Params = {x}
  Intents = {i1}
  Live = live  Paper = paper
  Timeout <- ShortTimeout
  UnusedExpiry = 2
  WaitLimit = 1
  MaxTaps = 2
  NoApproval = NoApproval
  NoGoal = NoGoal
SYMMETRY CallSymmetry
INVARIANTS TypeOK UsesBackedByGrants
PROPERTIES DenyIsRespected ValidatedWithinWindow SwitchOnlyWhileLocked ImplementsLedger
