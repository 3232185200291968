---------------------------- MODULE MCEventStore ----------------------------
(* EventStore for TLC: two writers, interchangeable as the tasks are. *)
EXTENDS EventStore

Symmetry == Permutations(Task) \cup Permutations(Writer)
=============================================================================
