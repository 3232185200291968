\* find_cycles over every list of at most four pairs over three nodes.
SPECIFICATION SearchSpec
CONSTANTS
  NodeCount = 3
  MaxPairs = 4
PROPERTY
  SearchReturns
CHECK_DEADLOCK FALSE
