SPECIFICATION Spec
CONSTANTS
  Rows <- TwoRows
  Calls = {c1, c2}
  KeepsClientId = TRUE
  MaxApprovals = 2
  None = None
SYMMETRY CallSymmetry
INVARIANTS TypeOK NoDuplicateOrder FinalClaimsAreTrue IntentClaimsAreTrue
PROPERTY ImplementsLedger
