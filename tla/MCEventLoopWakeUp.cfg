CONSTANTS
  Callers = {c1}
  LoopThread = loop
  MaxCalls = 1
SPECIFICATION Spec
PROPERTY WokenInTime
CHECK_DEADLOCK FALSE
