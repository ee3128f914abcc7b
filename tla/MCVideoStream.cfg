SPECIFICATION StreamSpec
CONSTANTS
  MAX_GROUP_DATA = 32
  MAX_SHARDS = 255
  HALF = 6
  HOLD_LIMIT = 2
  MAX_PENDING = 3
  FirstId = 12
  Geometries <- MCGeometries
  Shape <- MCShape
  MaxFrames = 5
  MaxDropped = 2
PROPERTIES
  DeliversInOrder
  PatientRelease
\* The stream may end at any point.
CHECK_DEADLOCK FALSE
