SPECIFICATION RegionsSpec
CONSTANTS
  g1 = g1
  g2 = g2
  Region = {g1, g2}
  MaxFrames = 1
  NumRanks = 3
  NumRegions = 2
  NumTiles = 3
  MaxCommits = 2
INVARIANT ComposesWhenCleared
CHECK_DEADLOCK FALSE
