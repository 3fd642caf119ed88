CONSTANTS
  Workers = {w1, w2, w3}
  MaxTasks = 3
SPECIFICATION PoolSpec
INVARIANTS FetchesNextTask
CHECK_DEADLOCK FALSE
