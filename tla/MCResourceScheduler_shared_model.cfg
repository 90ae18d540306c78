CONSTANTS
  Callers = {c1, c2}
  Pool = {w1, w2}
  OwnerUsers = {c1, c2, w1, w2}
  OwnerPolicy <- Explicit
  Cpu = 2
  Budget = 4
  Requests = {1}
  Estimates = {0, 1}
  MaxCalls = 2
  MaxJobs = 1
  MaxSeeds = 2
  CallerOps = 2
  WorkerOps = 2
SPECIFICATION Spec
INVARIANTS
  OwnerRestored
CHECK_DEADLOCK FALSE
