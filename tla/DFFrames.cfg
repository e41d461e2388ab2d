SPECIFICATION FramesSpec
CONSTANTS
  NumRanks = 3
  NumTiles = 3
  MasterIsAWorker = FALSE
  Renderers <- StaticRenderers
  CanCancel = TRUE
  MaxFrame = 2
  w1 = w1
  w2 = w2
  Worker = {w1, w2}
  TilesPerWorker = 1
  MaxReports = 2
  LocalTiles = 3
  LocalFrames = 4
INVARIANTS CallsMatch InFrame NoStaleClose CancelHonoured TilesAreMeans
PROPERTIES BegunFinish ImplementsService
CHECK_DEADLOCK FALSE
