SPECIFICATION ClientSpec
CONSTANTS
  Frames <- MCFramesFew
  MaxFrames = 2
  Faults = {}
  WithMain = TRUE
  MaxWrites = 2
  CallbackStops = FALSE
INVARIANT MainSafe
\* the threads end
CHECK_DEADLOCK FALSE
