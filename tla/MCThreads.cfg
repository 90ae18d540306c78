CONSTANTS
  Callers = {c1, c2}
  Pool = {w1, w2}
  OwnerUsers = {c1, c2}
  OwnerPolicy <- Explicit
  Cpu = 2
  Budget = 4
  Requests = {1}
  Estimates = {0, 1}
  MaxCalls = 2
  MaxJobs = 1
  MaxSeeds = 2
  CallerOps = 2
  WorkerOps = 2
  Solvers = {s1}
  Clients = {t1, t2}
  Shapes <- MCShapes
  Weights = {v1, v2, z}
  Zero = {z}
  Tols = {1, 2}
  MaxIter = 3
  PlainLimit = 2
  PolishLimit = 2
  DirectionSweeps = 2
SPECIFICATION ThreadsSpec
INVARIANTS
  LedgerIsSound
  BlasFollowsCalls
  OwnerRestored
  OneSweeperPerObject
PROPERTIES
  EverythingReturns
  KeepsPromise
CHECK_DEADLOCK FALSE
