SPECIFICATION Spec
CONSTANTS
  p1 = p1  p2 = p2
  Procs = {p1}
  SeesControl = TRUE
  Stamps <- FourStamps
  Missing = Missing
  Nothing = Nothing
INVARIANTS TypeOK CacheIsCurrent StopHolds StopIsEffective
