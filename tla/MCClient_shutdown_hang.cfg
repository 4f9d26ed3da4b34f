SPECIFICATION ThreadsSpec
CONSTANTS
  Frames <- MCFramesFew
  MaxFrames = 1
  Faults = {}
  WithMain = TRUE
  MaxWrites = 1
  CallbackStops = FALSE
PROPERTY JoinReturns
\* the threads end
CHECK_DEADLOCK FALSE
