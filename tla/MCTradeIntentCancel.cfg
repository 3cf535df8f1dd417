SPECIFICATION Spec
CONSTANTS
  Rows <- TwoRows
  Calls = {c1, c2}
  KeepsClientId = TRUE
  MaxApprovals = 1
  None = None
INVARIANT OpenOrdersAreActive
