SPECIFICATION OffloadSpec
CONSTANTS
  Rank = {r1, r2}
  MaxMessages = 2
  MaxStarts = 2
  w1 = w1
  w2 = w2
  Worker = {w1, w2}
  FirstWorker = w1
  BufferSizes = {2, 4}
  MaxCalls = 4
  None = None
  Plain = Plain
  Null = Null
  MaxObjects = 3
  MaxListed = 2
  MaxLeaks = 1
INVARIANTS OnePlace QuietWhenStopped StreamIsWhole SameBalancer LivesUnlessUncounted DevicesAgree
PROPERTIES ImplementsService Delivered OnlyStoppedPeerHolds StreamImplements CallsEnd
CHECK_DEADLOCK FALSE
