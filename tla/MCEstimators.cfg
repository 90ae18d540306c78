CONSTANTS
  Configs <- MCConfigs
  Zero = {1}
  Classes <- MCClasses
  NObs = 5
  Reach = 2
  Fits <- MCFits
  Parts = {1, 2}
  WithFE = {1, 2}
  Solvers <- MCSolvers
  NoSolver <- MCNoSolver
  Clients = {"caller"}
  Weights = {"w", "z"}
  Positive <- MCPositive
  Tols = {1, 2}
  MaxIter = 1
  MaxColumns = 2
  Allocation = 9
  Budget = 4
  BuildCost = 2
  Resident = 1
  Pending = 1
  Elsewhere = {0, 5}
  CallTols = {2}
  Routes <- MCRoutes
SPECIFICATION EstimatorsSpec
INVARIANTS
  SeparatedRowsDiverge
  SampleIsCanonical
  ConvergedIsOnePoint
  BlockIsCurrent
  SettledConverges
  AnchorIsLastAccepted
  OutcomeIsHonest
  SettingsComeBack
PROPERTIES
  RefusedOnlyWhenRaced
CHECK_DEADLOCK FALSE
