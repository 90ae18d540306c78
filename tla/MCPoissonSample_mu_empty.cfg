CONSTANTS
  NObs = 5
  Reach = 2
  Fits <- MCFits
SPECIFICATION SampleSpec
INVARIANT FitHasPositiveRow
CHECK_DEADLOCK FALSE
