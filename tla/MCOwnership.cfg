SPECIFICATION Spec
CONSTANTS
  MaxCalls = 5
  MaxWrites = 3
  Failing = TRUE
INVARIANTS MemorySafe LeaksBounded
\* the client may be freed
CHECK_DEADLOCK FALSE
