SPECIFICATION MCSpec
CONSTANTS
  Parts = {"threads", "control"}
  Sources = {"test_pattern", "windows", "macos"}
  SendBacklogCap = 0
  MaxFrames = 4
  MinRate = 2
  MaxRate = 20
  AbrStart = 4
  HostCap = 10
  Requests = {1, 25}
  Estimates = {3, 30}
  Losses = {0, 18}
  FecFloor = 60
  FecCap = 70
  MaxSessions = 2
  MaxPoints = 1
  MaxConns = 2
  MaxIn = 1
  MaxOut = 2
INVARIANTS
  KeyframeOwed
  TextureAlwaysFree
  RateBounded
  LeaksOnlyOnFailedSend
  RepliesMatch
PROPERTIES
  LatestFrameWins
  StopsCleanly
  TicksUseOwnEstimate
  PointsAnnounced
\* A session that has stopped does nothing more.
CHECK_DEADLOCK FALSE
