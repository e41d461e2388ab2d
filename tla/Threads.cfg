SPECIFICATION ThreadsSpec
CONSTANTS
  MaxSpurious = 2
  MaxSlow = 1
  c1 = c1
  w1 = w1
  w2 = w2
  Caller = {c1}
  Worker = {w1, w2}
  MaxTasks = 2
  JobCounts = {0, 2}
  MayShutDown = TRUE
  CameraParam = {"pos"}
  RendererParam = {"spp"}
  MaxChanges = 2
  MaxFrames = 2
INVARIANTS NoBodyAfterStop ShowsWholeNewFrames StoppedIsQuiet JobsRunOnce ShowsScene
PROPERTIES LoopLive CallsReturnUnlessOverwritten StartRendersUnlessOverwritten CallsReturn ShutdownReturns
CHECK_DEADLOCK FALSE
