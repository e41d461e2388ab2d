SPECIFICATION Spec
CONSTANTS
  NumWorkers = 2
  NumTiles = 2
  NumPreAllocated = 1
  MaxFrame = 1
PROPERTY RenderThreadsFinish
CHECK_DEADLOCK FALSE
