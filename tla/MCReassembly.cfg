SPECIFICATION MCSpec
CONSTANTS
  MAX_GROUP_DATA = 2
  MAX_SHARDS = 255
  HALF = 3
  HOLD_LIMIT = 1
  MAX_PENDING = 2
  Geometries <- MCGeometries
  MaxOpened = 4
INVARIANTS
  TypeOK
  Bounded
  HeldForCause
  NothingStale
  Accounting
  ToleratesLoss
PROPERTY
  ReleaseInOrder
\* The reassembler is passive: the stream may end at any point.
CHECK_DEADLOCK FALSE
