SPECIFICATION Spec
CONSTANTS
  NumRanks = 3
  NumTiles = 2
  MasterIsAWorker = FALSE
  Renderers <- StolenRenderers
  CanCancel = TRUE
  MaxFrame = 2
INVARIANT DoneWhenComplete
CHECK_DEADLOCK FALSE
