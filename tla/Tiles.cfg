CONSTANTS
  MaxFrames = 5
  MaxInstances = 4
  Region = {g1, g2, g3, g4}
  MaxBlends = 2
  NumRanks = 3
  NumRegions = 2
  NumTiles = 3
  MaxCommits = 2
  Width = 5
  Height = 2
  Threshold = 2
  Error = {1, 10}
SPECIFICATION TilesSpec
INVARIANTS EachInstanceOnce FinalIsMeanUnlessSkipped EstimateIsBalanced CompletesWithLast BlendsAllInOrder RegionsSound ComposesUnlessStale RefinedAsGroup
CHECK_DEADLOCK FALSE
