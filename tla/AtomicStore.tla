----------------------------- MODULE AtomicStore -----------------------------
(***************************************************************************)
(* What the ledger promises a command (core/artifacts.py:commit_writes):   *)
(* it sees the graph of the whole history, and what it writes takes effect *)
(* as one step, all of its events or none.  Which events a command plans   *)
(* is a parameter: the promise is the same for all of them.                *)
(***************************************************************************)
EXTENDS Sequences

CONSTANTS
  Actor,              \* who runs commands
  EmptyGraph,         \* what the first of them reads
  Fresh(_),           \* the ids that a history has not used
  Commands(_, _, _),  \* what an actor may plan: from a graph, with fresh ids
  ApplyAll(_, _)      \* what events make of a graph

VARIABLES
  history,  \* the events of every command that took effect, in order
  view      \* the graph a command reads

atomicVars == <<history, view>>

InitAtomic == history = <<>> /\ view = EmptyGraph

(* One command of one actor; one that writes nothing is no step at all. *)
Commit(actor) ==
  /\ history' # history
  /\ \E events \in Commands(view, Fresh(history), actor) :
       /\ history' = history \o events
       /\ view' = ApplyAll(view, events)

AtomicNext == \E actor \in Actor : Commit(actor)

AtomicSpec == InitAtomic /\ [][AtomicNext]_atomicVars
=============================================================================
