CONSTANTS
  MaxWrites = 4
  Lengths = {1, 2}
  FullKernel = FALSE
SPECIFICATION FairSpec
INVARIANTS
  TypeOK
  Stream
  WriteInterest
  DrainIsReported
PROPERTIES
  ImplementsByteStream
CHECK_DEADLOCK FALSE
