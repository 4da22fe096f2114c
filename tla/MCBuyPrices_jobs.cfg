SPECIFICATION FairSpec
CONSTANTS
  o1 = o1
  o2 = o2
  o3 = o3
  Offerings = {o1, o2, o3}
  Requests = {r1, r2}
  Targets <- ThreeTargets
  BatchSize = 2
  Generate = FALSE
  Edits = {"make", "update"}
  MaxPrices = 1
CHECK_DEADLOCK FALSE
PROPERTY JobEnds
