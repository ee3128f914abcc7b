SPECIFICATION FeedbackSpec
CONSTANTS
  HistoryCap = 3
  RingCap = 1
  NackReach = 3
  NackBudget = 2
  NackedCap = 1
  MaxBatch = 2
  MaxSent = 5
  MaxControl = 1
PROPERTY
  ReportedNeverLost
CHECK_DEADLOCK FALSE
