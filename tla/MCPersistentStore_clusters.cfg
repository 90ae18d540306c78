CONSTANTS
  p1 = p1
  p2 = p2
  Procs = {p1, p2}
  v1 = v1
  v2 = v2
  Values = {v1, v2}
  Clusters <- Strings
  Setups <- Quiet
  MaxRewrites = 0
  MaxDeletes = 0
  MaxOpens = 2
  MaxFits = 2
SPECIFICATION StoreSpec
INVARIANT ResultForThisData
SYMMETRY Symmetry
CHECK_DEADLOCK FALSE
