SPECIFICATION Spec
CONSTANTS
  Task = {t1}
  Launch = {l1, l2}
  File = {f}
  Writes <- MCWrites
  MergeAttempts = 2
  MaxDeaths = 1
  None = None
  Pass = Pass
INVARIANTS
  OneSupervisor
  OrphanOnRecord
PROPERTIES
  GatedOrChecked
  WithdrawnStays
  DoneIsLanded
  AbandonedIsFound
CHECK_DEADLOCK FALSE
