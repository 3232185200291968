\* Every subgraph over three tasks with every state of each; three tasks to
\* launch, two at a time; every citation among three artifacts; every list of
\* at most four pairs over three nodes; two sessions that close, over two days.
SPECIFICATION AllSpec
CONSTANTS
  N = 3
  TaskStates = {"proposed", "completed", "rejected"}
  OpenStates = {"proposed"}
  Job = {a, b, c}
  Path = {p, q}
  MaxParallel = 2
  Artifact = {r, s, t}
  MaxMoves = 1
  NodeCount = 3
  MaxPairs = 4
  Closer = {c, d}
  NotClosing = NotClosing
  LastTick = 6
  Midnight = {0, 5}
  WindowLength = 2
INVARIANTS
  RefusalIsExact
  OrderRespectsPairs
  StallHasACause
  NoConflict
  StaleReaches
  VerdictIsAnchored
  CyclesAreReal
  EveryRegionReported
  EscapesHaveACause
PROPERTIES
  EveryJobRuns
  WalkEnds
  DagIsEmpty
CHECK_DEADLOCK FALSE
