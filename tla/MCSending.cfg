SPECIFICATION FairSpec
CONSTANTS
  Size = 2
  UpCap = 3
  DownCap = 2
  MaxLines = 4
  MaxPings = 3
  Signals = TRUE
INVARIANTS TornOnlyWhenFull WrittenArrives
PROPERTIES WritesReturn PingsAnswered
\* nobody need write, and everyone may wait
CHECK_DEADLOCK FALSE
