\* Two tasks that may wait for one of another project; three commands,
\* stops, outages or deaths.
SPECIFICATION SerialSpec
CONSTANTS
  Own = {o1, o2}
  Far = {f}
  Nothing = Nothing
  MaxMoves = 3
INVARIANTS
  LaunchedWaitsMet
  RedrivenOnce
PROPERTIES
  EndedStays
  BlocksAreLifted
CHECK_DEADLOCK FALSE
