SPECIFICATION Spec
CONSTANTS
  Task = {t1}
  Launch = {l1}
  File = {f}
  Writes <- MCWrites
  MergeAttempts = 1
  MaxDeaths = 0
  None = None
  Pass = Pass
PROPERTIES
  GatedAgainstOverlap
CHECK_DEADLOCK FALSE
