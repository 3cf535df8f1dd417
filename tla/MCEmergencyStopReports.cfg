SPECIFICATION Spec
CONSTANTS
  s = s  a = a  None = None
  Requests = {s}
  Type <- OneSimple
  Transmit <- OneTransmit
  KeepsClientId = TRUE
  MaxAttempts = 1
  MaxAhead = 1
PROPERTY StopLeavesNoOrder
