CONSTANTS
  Conns = {k1}
  NumFds = 1
  Names = {n1}
  MaxData = 1
  Resettable = {}
  Kept = {}
  ForceClosed = {}
  MaxForceCloses = 1
  LateClosed = {}
  CanStop = FALSE
  NameReuse = FALSE
SPECIFICATION Spec
INVARIANT NoUseAfterFree
CHECK_DEADLOCK FALSE
