SPECIFICATION Spec
CONSTANTS
  NumWorkers = 2
  NumTiles = 2
  NumPreAllocated = 2
  MaxFrame = 2
INVARIANTS NoTaskOutlivesFrame EveryTileOnce ExhaustedIsLastUnlessRaced OnlyRaceOrLateAnswerHangs
CHECK_DEADLOCK FALSE
