CONSTANTS
  Workers = {w1, w2, w3}
  MaxTasks = 3
  MaxTimers = 2
  MaxFunctors = 1
  MaxCancels = 1
  Delays = {0}
  Intervals = {700}
  Repeats = {2}
  StartUsec = 300999
  Ticks = 800
  MaxTicks = 1
  Attempts = {a1, a2, a3}
  Fds = {3, 4, 5}
  None = None
  Handles = {c1, c2}
  PollFds = {6, 7}
  kInitialBufferSize = 1
  kMaximumBufferBytes = 4
  MaxLen = 2
  MaxBytes = 12
SPECIFICATION FairSpec
INVARIANTS
  TypeOK
  TakenInOrder LeftByLostSignals SomeoneFreesTheMutex
  SleepsOnlyIfMissed DestroyedThreadEnded
  OnSchedule RunsAsOften DeletedIsGone
  WatchesItsOwn SocketsHaveOwners
  PollersAgree ReportsAsAsked
  BufferIsQueue SpoiledOnlyIfMadeSmall
PROPERTIES
  WokenComesBack StopEndsThread DueTimerRuns ConnectEnds
CHECK_DEADLOCK FALSE
