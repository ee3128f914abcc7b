SPECIFICATION MCSpec
CONSTANTS
  Parts = {"ladder", "feedback"}
  InvalidationWindow = 2
  BacklogCap = 0
  Encoders = {"nvenc", "videotoolbox", "software"}
  MaxFrames = 5
  MaxRejects = 1
  MaxMessages = 2
  HistoryCap = 3
  RingCap = 1
  NackReach = 3
  NackBudget = 2
  NackedCap = 1
  MaxBatch = 2
  MaxSent = 5
  MaxControl = 1
INVARIANTS
  RecoveryPointClean
  OneVerdict
PROPERTIES
  BreaksOnlyWhenLoose
  NacksOnlyMissing
  ReportedLostOnlyBeyond
\* The encoding and the sending may stop at any point.
CHECK_DEADLOCK FALSE
