SPECIFICATION FairSpec
CONSTANTS
  Builds = {TRUE, FALSE}
  MaxAttempts = 3
  MaxAddrs = 2
  MaxSwaps = 2
  ContextFaults = TRUE
  Responses <- MCResponses
  Faults = {"address", "tls", "alloc", "reset", "segment", "early"}
INVARIANTS LeaksExactly ConnectedUsable FreeTwiceSafe ContextSafe
PROPERTY ConnectReturns
\* the application stops after its last call
CHECK_DEADLOCK FALSE
