---------------------------- MODULE MCSerialStore ----------------------------
(* SerialStore for TLC: tasks are interchangeable (no CHOOSE over them). *)
EXTENDS SerialStore

Symmetry == Permutations(Task)
=============================================================================
