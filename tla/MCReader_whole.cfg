SPECIFICATION FairSpec
CONSTANTS
  Frames <- MCFramesLong
  MaxFrames = 5
  Faults = {}
INVARIANTS Integrity NoBacklog FailsOnlyWithConnection
PROPERTY AllDelivered
\* the reader may be destroyed
CHECK_DEADLOCK FALSE
