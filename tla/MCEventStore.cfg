\* Two writers and a replayer in any order, with crashes and torn writes.
SPECIFICATION Spec
CONSTANTS
  Artifact = {t1, t2}
  Task = {t1, t2}
  Actor = {w1, w2}
  Writer = {w1, w2}
  Nil = Nil
  Rel = {"precedes", "superseded_by", "blocks"}
  State = {"proposed", "accepted", "blocked", "withdrawn"}
  InitialState = "proposed"
  Property = {"claimed_by", "block_reason", "terminal_reason"}
  Value = {w1, w2, "given"}
  Sync = TRUE
  MaxLines = 3
  MaxCrashes = 1
  MaxTorn = 1
  MaxReplays = 2
INVARIANTS
  GraphBackedByLog
  DriftNeedsACause
SYMMETRY Symmetry
CHECK_DEADLOCK FALSE
