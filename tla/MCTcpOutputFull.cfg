CONSTANTS
  MaxWrites = 2
  Lengths = {1, 2}
  FullKernel = TRUE
SPECIFICATION Spec
INVARIANT Stream
CHECK_DEADLOCK FALSE
