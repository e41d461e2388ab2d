SPECIFICATION Spec
CONSTANTS
  w1 = w1
  w2 = w2
  Worker = {w1, w2}
  TilesPerWorker = 1
  MaxFrames = 2
  MaxReports = 3
INVARIANT ProgressAtMostOne
CHECK_DEADLOCK FALSE
