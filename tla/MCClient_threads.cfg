SPECIFICATION ServerSpec
CONSTANTS
  Frames <- MCFrames
  MaxFrames = 2
  Faults = {"segment", "reset", "alloc"}
  WithMain = TRUE
  MaxWrites = 1
  CallbackStops = TRUE
INVARIANTS AnswersMatch NothingSkipped ListenerSafe CleanedUp KeepsListening
PROPERTIES ListenerEnds JoinReturns
\* the threads end
CHECK_DEADLOCK FALSE
