SPECIFICATION Spec
CONSTANTS
  Operations <- SmallOperations
  Shapes = 4
  IndexBits = 8
  MaxUnrolledApply = 3
INVARIANTS ComputesTheOperation
CHECK_DEADLOCK FALSE
