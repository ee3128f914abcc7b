SPECIFICATION MCSpec
CONSTANTS
  Parts = {"ladder"}
  InvalidationWindow = 2
  BacklogCap = 0
  Encoders = {"videotoolbox"}
  MaxFrames = 5
  MaxRejects = 0
  MaxMessages = 1
  HistoryCap = 3
  RingCap = 1
  NackReach = 3
  NackBudget = 2
  NackedCap = 1
  MaxBatch = 2
  MaxSent = 5
  MaxControl = 1
INVARIANT
  AnnouncedPointsSafe
CHECK_DEADLOCK FALSE
