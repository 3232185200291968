\* The reaper against two passes.
SPECIFICATION Spec
CONSTANTS
  Pass = {p1, p2, p3}
  Supervisor = {}
  Inode = {i1, i2}
  None = None
  MaxBeats = 0
INVARIANT
  OneHolder
CHECK_DEADLOCK FALSE
