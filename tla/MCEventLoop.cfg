CONSTANTS
  Callers = {c1}
  LoopThread = loop
  MaxCalls = 2
SPECIFICATION FairSpec
INVARIANTS
  TypeOK
  NothingLost
  CallOrder
  OnePass
PROPERTIES
  CalledOrEnded
  StopEnds
  ImplementsTaskQueue
CHECK_DEADLOCK FALSE
