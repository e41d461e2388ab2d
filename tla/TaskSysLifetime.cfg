CONSTANTS
  Caller = {c1}
  Worker = {w1}
  MaxTasks = 1
  JobCounts = {1}
  MayShutDown = FALSE
SPECIFICATION Spec
INVARIANTS NoUseAfterEnd
CHECK_DEADLOCK FALSE
