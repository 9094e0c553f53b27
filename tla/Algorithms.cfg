CONSTANTS
  NodeCount = 4
  MaxParallel = 2
  MaxIters = 3
  Iterations = 2
  Bodies = 4
  Fan = 2
  MaxDepth = 2
SPECIFICATION Spec
INVARIANT ResultsRight
INVARIANT FeltOnce
PROPERTY RelabelRises
CHECK_DEADLOCK FALSE
