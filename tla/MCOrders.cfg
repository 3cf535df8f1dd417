SPECIFICATION OrdersSpec
CONSTANTS
  b = b  s = s  a = a  None = None
  Requests = {b, s}
  Type <- BracketAndSimple
  Transmit <- AllTransmit
  KeepsClientId = TRUE
  MaxAttempts = 2
INVARIANTS OrdersTypeOK BracketGoesOutWhole ExitsMatchEntry NoDuplicateOrder CancelledSetIsDone
PROPERTY ImplementsLedger
