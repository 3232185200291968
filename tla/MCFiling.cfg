\* Two commands beside the dispatcher's passes, and one mishap.
SPECIFICATION Spec
CONSTANTS
  Writer = {w1, w2}
  Crew <- Pairs
  Author = author
  Dispatcher = dispatcher
  Nil = nil
  MaxNumber = 4
  MaxMishaps = 1
INVARIANTS
  NumberHeldOnce
  CompletedHasReturn
PROPERTIES
  RefusedForACause
  RegisteredIsCommitted
  LinesAreCommitted
  ReturnIsFiled
