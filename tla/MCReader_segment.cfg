SPECIFICATION Spec
CONSTANTS
  Frames <- MCFrames
  MaxFrames = 2
  Faults = {"segment"}
INVARIANT FailsOnlyWithConnection
CHECK_DEADLOCK FALSE
