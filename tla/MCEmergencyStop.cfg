SPECIFICATION Spec
CONSTANTS
  s = s  a = a  None = None
  Requests = {s, a}
  Type <- SimpleAndAuction
  Transmit <- BothTransmit
  KeepsClientId = TRUE
  MaxAttempts = 1
  MaxAhead = 1
INVARIANT TypeOK
PROPERTIES QuietAfterStop StopReturns
