CONSTANTS
  NObs = 4
  NTerms = 2
  Samples <- AllSamples
SPECIFICATION Spec
INVARIANTS
  ReturnsGreatestStable
  LoopInvariant
PROPERTIES
  LabelledByTrigger
  ImplementsPeel
CHECK_DEADLOCK FALSE
