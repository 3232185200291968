--------------------------- MODULE PrecedenceView ---------------------------
(***************************************************************************)
(* What the precedence commands answer (core/precedence.py), against what  *)
(* the answers mean.  The inputs are any subgraph, cyclic ones included:   *)
(* edges also arrive from replayed logs and from concurrent writers.       *)
(***************************************************************************)
EXTENDS Precedence

CONSTANTS
  N,           \* tasks are 1..N, in creation order
  TaskStates,  \* bound: the states a task may be in
  OpenStates   \* the open ones among them (core/artifacts.py:open_states)

ASSUME PrecedenceViewAssumption ==
  /\ N \in Nat
  /\ TaskStates \subseteq OpenStates \cup Satisfied \cup {"rejected"}
  /\ OpenStates \cap (Satisfied \cup {"rejected"}) = {}

Task == 1..N

VARIABLES
  pairs,     \* the `precedes` pairs
  states,    \* every task's state
  external,  \* the tasks that wait on another project
  order,     \* the listing
  ready,     \* the tasks shown as ready, in creation order
  listed

vars == <<pairs, states, external, order, ready, listed>>

Init ==
  /\ pairs \in SUBSET (Task \X Task)
  /\ states \in [Task -> TaskStates]
  /\ external \in SUBSET Task
  /\ order = <<>> /\ ready = <<>> /\ listed = FALSE

(* precedence_view: a task is ready when it is open and waits on nothing,  *)
(* here or in another project.                                             *)
ShownReady ==
  {t \in Task : IsReady(pairs, states, OpenStates, t) /\ t \notin external}

CreationRank == [t \in Task |-> t]

View ==
  /\ ~listed
  /\ order' = TopologicalOrder(pairs, Task, CreationRank)
  /\ ready' = ByRank(ShownReady, CreationRank)
  /\ listed' = TRUE
  /\ UNCHANGED <<pairs, states, external>>

Next == View

Spec == Init /\ [][Next]_vars

-----------------------------------------------------------------------------
(* What "acyclic" means, without a search: the tasks can be numbered so    *)
(* that every pair goes up.                                                *)
Acyclic(set) ==
  \E number \in [Task -> Task] : \A p \in set : number[p[1]] < number[p[2]]

(* validate_precedes_write refuses exactly the links that would close a    *)
(* cycle, and add_chain exactly the chains of which some link would.       *)
RefusalIsExact ==
  listed /\ Acyclic(pairs) =>
    /\ \A t, u \in Task : CycleIfAdded(pairs, t, u) <=> ~Acyclic(pairs \cup {<<t, u>>})
    /\ \A t, u, v \in Task :
         ChainRefused(pairs, t, u, v) <=> ~Acyclic(pairs \cup {<<t, u>>, <<u, v>>})

(* topological_order lists every task once, and each one after all its     *)
(* predecessors unless it is on a cycle or behind one.                     *)
BehindCycle(t) == \E c \in OnCycle(pairs) : HasPath(pairs, c, t)

OrderRespectsPairs ==
  listed =>
    /\ Len(order) = N /\ ToSet(order) = Task
    /\ \A i, j \in DOMAIN order :
         /\ <<order[i], order[j]>> \in pairs
         /\ order[i] # order[j] /\ ~BehindCycle(order[j])
         => i < j

(* Work never stalls without a reason to show: in an acyclic subgraph with *)
(* an open task and nothing ready, something open waits on another project *)
(* or comes after a rejected task.                                         *)
StallHasACause ==
  listed /\ ready = <<>> /\ Acyclic(pairs) =>
    \A t \in Task : states[t] \in OpenStates =>
      \E u \in Task :
        /\ HasPath(pairs, u, t)
        /\ \/ states[u] \in OpenStates /\ u \in external
           \/ states[u] = "rejected"
=============================================================================
