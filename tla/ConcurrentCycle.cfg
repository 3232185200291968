\* Two writers at once, nothing failing: may they author a cycle?
SPECIFICATION Spec
CONSTANTS
  Artifact = {t1, t2}
  Task = {t1, t2}
  Actor = {w1, w2}
  Writer = {w1, w2}
  Nil = Nil
  Rel = {"precedes", "superseded_by", "blocks"}
  State = {"proposed"}
  InitialState = "proposed"
  Property = {"claimed_by", "block_reason", "terminal_reason"}
  Value = {w1, w2, "given"}
  Sync = FALSE
  MaxLines = 4
  MaxCrashes = 0
  MaxTorn = 0
  MaxReplays = 0
INVARIANT
  PrecedesAcyclic
CHECK_DEADLOCK FALSE
