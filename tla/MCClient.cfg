SPECIFICATION MCSpec
CONSTANTS
  Parts = {"session", "input"}
  MaxFrames = 3
  MaxEvents = 1
  MaxPcm = 1
  Hosts = {"macos", "windows"}
  PadStates = {1, 2}
  MaxQueue = 2
INVARIANTS
  QuietAfterStop
  CitesPassed
  PadsMirrored
  KeysFollowed
PROPERTIES
  StopTerminates
  LossEndsSession
  PadSettles
\* A session that is over does nothing more.
CHECK_DEADLOCK FALSE
