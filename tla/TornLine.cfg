\* A command after one that died in the middle of its write.
SPECIFICATION Spec
CONSTANTS
  Artifact = {t1, t2}
  Task = {t1, t2}
  Actor = {w1}
  Writer = {w1}
  Nil = Nil
  Rel = {"precedes", "superseded_by", "blocks"}
  State = {"proposed"}
  InitialState = "proposed"
  Property = {"claimed_by", "block_reason", "terminal_reason"}
  Value = {w1, "given"}
  Sync = FALSE
  MaxLines = 4
  MaxCrashes = 0
  MaxTorn = 1
  MaxReplays = 0
INVARIANT
  AppendedIsReadable
CHECK_DEADLOCK FALSE
