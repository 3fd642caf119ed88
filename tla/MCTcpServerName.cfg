CONSTANTS
  Conns = {k1, k2}
  NumFds = 2
  Names = {n1, n2}
  MaxData = 1
  Resettable = {}
  Kept = {}
  ForceClosed = {}
  MaxForceCloses = 1
  LateClosed = {}
  CanStop = FALSE
  NameReuse = TRUE
SPECIFICATION Spec
INVARIANT WatchedIsKnown
CHECK_DEADLOCK FALSE
