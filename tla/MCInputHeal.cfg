SPECIFICATION InputSpec
CONSTANTS
  Hosts = {"windows"}
  PadStates = {1, 2}
  MaxQueue = 2
PROPERTY
  SnapshotsHeal
\* The session is over.
CHECK_DEADLOCK FALSE
