CONSTANTS
  Conns = {k1, k2}
  NumFds = 1
  Names = {n1, n2}
  MaxData = 1
  Resettable = {}
  Kept = {k1}
  ForceClosed = {}
  MaxForceCloses = 1
  LateClosed = {k1}
  CanStop = FALSE
  NameReuse = FALSE
SPECIFICATION Spec
INVARIANT ConnectedIsWatched
CHECK_DEADLOCK FALSE
