SPECIFICATION Spec
CONSTANTS
  MAX = 15
  Stores <- TestStores
  Args <- TestArgs
  MaxLeft = 1
INVARIANTS
  FramesNest
  LeftFramesSpent
  ResultsMatch
PROPERTIES
  CallerOperandsKept
  CallReturns
CHECK_DEADLOCK FALSE
