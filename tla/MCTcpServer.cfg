CONSTANTS
  Conns = {k1, k2, k3}
  NumFds = 2
  Names = {n1, n2}
  MaxData = 1
  Resettable = {k2}
  Kept = {k1}
  ForceClosed = {k1}
  MaxForceCloses = 1
  LateClosed = {}
  CanStop = FALSE
  NameReuse = FALSE
SPECIFICATION FairSpec
INVARIANTS
  TypeOK
  WatchedIsKnown
  ConnectedIsWatched
  UpThenDown
PROPERTIES
  ReadsWhileUp
  LeftIsForgotten
CHECK_DEADLOCK FALSE
