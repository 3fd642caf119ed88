CONSTANTS
  Conns = {k1}
  NumFds = 1
  Names = {n1}
  MaxData = 1
  Resettable = {}
  Kept = {}
  ForceClosed = {}
  MaxForceCloses = 1
  LateClosed = {}
  CanStop = TRUE
  NameReuse = FALSE
SPECIFICATION Spec
INVARIANT DestroyedOnce
CHECK_DEADLOCK FALSE
