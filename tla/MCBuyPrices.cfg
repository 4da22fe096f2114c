SPECIFICATION Spec
CONSTANTS
  o1 = o1
  o2 = o2
  o3 = o3
  Offerings = {o1, o2}
  Requests = {r1, r2}
  Targets <- TwoTargets
  BatchSize = 1
  Generate = TRUE
  Edits = {"make", "activate", "remove"}
  MaxPrices = 4
SYMMETRY Sym
CHECK_DEADLOCK FALSE
INVARIANT TypeOK
INVARIANT JobAddsUp
PROPERTY NoOfferingLosesItsPrice
