SPECIFICATION Spec
CONSTANTS
  None = None
  OrderSpecs <- Specs
  Quotes <- SomeQuotes
  Instruments <- SomeInstruments
  Holdings <- SomeHoldings
  Orders <- SomeOrders
  Estimates = {2, 5}
  NetLiquidations = {0, 8}
  Profiles <- SomeProfiles
  Windows <- SomeWindows
  DayLength = 4
  MaxDelay = 3
INVARIANTS AcceptedIsComplete BracketIsProtective PreviewShowsWhatIsBuilt EstimateIsUsable
  HoldingsAreCounted WindowPromiseIsKept
