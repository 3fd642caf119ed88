CONSTANTS
  Conns = {k1, k2}
  NumFds = 2
  Names = {n1}
  MaxData = 1
  Resettable = {k1}
  Kept = {k1}
  ForceClosed = {k2}
  MaxForceCloses = 2
  LateClosed = {k1}
  CanStop = TRUE
  NameReuse = TRUE
SPECIFICATION FairSpec
INVARIANTS
  KernelMatchesTable
  RawFunctorsSafe
PROPERTIES
  StopForgets
CHECK_DEADLOCK FALSE
