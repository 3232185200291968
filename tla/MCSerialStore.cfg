\* One process at a time, with crashes and rebuilds between commands.
SPECIFICATION SerialSpec
CONSTANTS
  Artifact = {t1, t2, r1}
  Task = {t1, t2}
  Actor = {w1}
  Writer = {w1}
  Nil = Nil
  Rel = {"precedes", "superseded_by", "blocks"}
  State = {"proposed", "accepted", "in_progress", "completed", "blocked", "verified", "rejected", "superseded", "withdrawn"}
  InitialState = "proposed"
  Property = {"claimed_by", "block_reason", "terminal_reason"}
  Value = {w1, "given"}
  Sync = FALSE
  MaxLines = 6
  MaxCrashes = 1
  MaxTorn = 0
  MaxReplays = 1
INVARIANTS
  LogIsLegal
  PrecedesAcyclic
  ReasonsMatchState
  OneNodePerId
PROPERTY
  CommandsAreAtomic
SYMMETRY Symmetry
CHECK_DEADLOCK FALSE
