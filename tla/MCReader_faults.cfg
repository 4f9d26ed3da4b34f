SPECIFICATION Spec
CONSTANTS
  Frames <- MCFramesFaults
  MaxFrames = 3
  Faults = {"segment", "reset", "close", "alloc"}
INVARIANTS TypeOK
PROPERTIES LossReported ImplementsChannel
\* the reader may be destroyed
CHECK_DEADLOCK FALSE
