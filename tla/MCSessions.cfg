CONSTANTS
  f = f
  g = g
  w = w
  y = y
  x = x
  FE <- MCFE
  Aux <- MCAux
  Num <- MCNum
  Sessions <- SoundSessions
  MaxVersion = 2
  Resources = {1, 2}
  p1 = p1
  p2 = p2
  Procs = {p1, p2}
  v1 = v1
  v2 = v2
  Values = {v1, v2}
  Clusters <- OneCluster
  Setups <- Quiet
  MaxRewrites = 1
  MaxDeletes = 1
  MaxOpens = 2
  MaxFits = 2
SPECIFICATION SessionsSpec
INVARIANTS
  ServedFresh
  CachesAgree
  CurrentVersion
  ResultForThisData
SYMMETRY Symmetry
CHECK_DEADLOCK FALSE
