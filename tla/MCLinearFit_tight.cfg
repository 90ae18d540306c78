CONSTANTS
  LinearCalls <- MCLinearCalls
  DefaultTol = 2
  TightTol = 1
  MaxIters = 2
  MaxWeak = 2
SPECIFICATION LinearSpec
INVARIANT TriggeredFitsAreTight
CHECK_DEADLOCK FALSE
