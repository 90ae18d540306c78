CONSTANTS
  Callers = {c1}
  Pool = {w1, w2, w3}
  OwnerUsers = {}
  OwnerPolicy <- AutoPolicy
  Cpu = 4
  Budget = 4
  Requests = {1, 2}
  Estimates = {0}
  MaxCalls = 1
  MaxJobs = 2
  MaxSeeds = 2
  CallerOps = 3
  WorkerOps = 2
  u1 = u1
  u2 = u2
  Frames <- MCFrames
  ModelPolicies <- MCPolicies
  Budgets = {1, 2}
  Capacities = {0, 2}
  Validations = {"signature", "none"}
  MaxChanges = 2
  MaxTopologies = 1
  Users = {u1, u2}
  Cpus = {1, 2}
  Rooms = {2, 4}
  FullProbe = 4
  MaxAsks = 3
  MaxShifts = 2
SPECIFICATION ExecutionSpec
INVARIANTS
  KeepsToSlice
  CpuNotOversubscribed
  ReuseIsSound
  ServedCalibrationFits
SYMMETRY PoolSymmetry
CHECK_DEADLOCK FALSE
