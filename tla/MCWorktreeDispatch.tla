------------------------- MODULE MCWorktreeDispatch -------------------------
(* A session commits every file or nothing. *)
EXTENDS WorktreeDispatch

MCWrites == {{}, File}
=============================================================================
