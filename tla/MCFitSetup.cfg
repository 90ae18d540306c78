CONSTANTS
  Designs <- MCDesigns
  Engines <- MCEngines
  KeyLimit = 11
  MaxXors = 2
  Gf2MaxCols = 9
  MaxCells = 15
  Prime = 3
  NRows = 4
  Inputs <- MCInputs
  SampleSize = 2
  ClusterSets <- MCClusterSets
  DofMethods = {"exact", "pairwise", "firstpair", "none"}
  RowCount = 4
  Calls <- MCCalls
  Requests <- MCRequests
  Unit = 12
  LinearCalls <- MCLinearCalls
  DefaultTol = 2
  TightTol = 1
  MaxIters = 2
  MaxWeak = 2
  IVCalls <- MCIVCalls
  CovCalls <- MCCovCalls
  KeyCeiling = 5
  TableLimit = 4
  TileCells = 6
  ScoreBudget = 60
  MaxClusterDims = 3
  NewRows <- MCNewRows
  NewData <- MCNewData
  Policies = {"raise", "nan"}
  NObs = 5
  NTerms = 2
  Samples <- CanonicalSamples
  Threads = {t1, t2}
  Jobs <- KernelJobs
SPECIFICATION SetupSpec
INVARIANTS
  RankIsExact
  StructureIsWhole
  DofIsHonest
  BasisOfRequest
  BlocksAreDense
  GroupProblemIsWhole
  FitIsOfOneProjection
  InferenceIsHonest
  MeatIsPairwise
  NewRowsAreIdentified
  IndexInvariant
  CoreCentred
PROPERTIES
  ImplementsPeel
CHECK_DEADLOCK FALSE
