----------------------------- MODULE Precedence -----------------------------
(***************************************************************************)
(* `precedes`: finish-to-start ordering between tasks (core/precedence.py).*)
(* The algorithms that decide whether an edge may be written, which tasks  *)
(* are ready and in which order they are listed, over a set of pairs       *)
(* <<predecessor, successor>>.  Rendering, and the parallel duplicates of  *)
(* a pair (the code skips a pair it has seen), are left out.               *)
(***************************************************************************)
EXTENDS Naturals, SequencesExt

(* SATISFIED_PREDECESSOR_STATES: `rejected` is deliberately not here. *)
Satisfied == {"completed", "verified", "superseded", "withdrawn"}

Endpoints(pairs) == {p[1] : p \in pairs} \cup {p[2] : p \in pairs}

Successors(pairs, n) == {p[2] : p \in {q \in pairs : q[1] = n}}

Predecessors(pairs, n) == {p[1] : p \in {q \in pairs : q[2] = n}}

\* Mutant: the search looks at the direct successors alone.
ReachedInOne(pairs, start) == {start} \cup Successors(pairs, start)

(* The nodes find_path's breadth-first search has seen after k rounds. *)
Reached(pairs, start) ==
  LET seen[k \in 0..Cardinality(Endpoints(pairs))] ==
        IF k = 0 THEN {start}
        ELSE seen[k - 1] \cup UNION {Successors(pairs, n) : n \in seen[k - 1]}
  IN  seen[Cardinality(Endpoints(pairs))]

(* find_path: is there a path?  A node that is its own goal needs none. *)
HasPath(pairs, start, goal) == goal \in Reached(pairs, start)

(* cycle_if_added: a write is refused when the successor already reaches   *)
(* the predecessor, the self-loop included.                                *)
CycleIfAdded(pairs, before, after) == HasPath(pairs, after, before)

-----------------------------------------------------------------------------
(* The nodes that lie on a cycle; find_cycles itself is in CycleSearch. *)
OnCycle(pairs) ==
  {n \in Endpoints(pairs) : \E m \in Successors(pairs, n) : HasPath(pairs, m, n)}

(* sorted(..., key=rank), for ranks that differ. *)
ByRank(nodes, rank) ==
  CHOOSE s \in [1..Cardinality(nodes) -> nodes] :
    \A i, j \in DOMAIN s : i < j => rank[s[i]] < rank[s[j]]

\* Mutant: creation order, whatever precedes what.
OrderByRank(pairs, nodes, rank) == ByRank(nodes, rank)

(* topological_order over `nodes`: repeatedly emit the ready node of least *)
(* rank; what never becomes ready (a cycle, or behind one) follows by rank.*)
Inner(pairs, nodes) ==
  {p \in pairs : p[1] # p[2] /\ p[1] \in nodes /\ p[2] \in nodes}

ReadyAfter(pairs, nodes, done) ==
  {n \in nodes \ done : Predecessors(Inner(pairs, nodes), n) \subseteq done}

Emit(pairs, nodes, rank, s) ==
  LET next == ReadyAfter(pairs, nodes, ToSet(s))
  IN  IF next = {} THEN s
      ELSE Append(s, CHOOSE n \in next : \A m \in next : rank[n] <= rank[m])

TopologicalOrder(pairs, nodes, rank) ==
  LET emitted[k \in 0..Cardinality(nodes)] ==
        IF k = 0 THEN <<>> ELSE Emit(pairs, nodes, rank, emitted[k - 1])
      ordered == emitted[Cardinality(nodes)]
  IN  ordered \o ByRank(nodes \ ToSet(ordered), rank)

-----------------------------------------------------------------------------
\* Mutant: every predecessor counts, whatever its state.
AllPredecessors(pairs, states, n) == Predecessors(pairs, n)

(* unsatisfied_predecessors and is_ready. *)
Unsatisfied(pairs, states, n) ==
  {m \in Predecessors(pairs, n) : states[m] \notin Satisfied}

IsReady(pairs, states, open, n) ==
  states[n] \in open /\ Unsatisfied(pairs, states, n) = {}

(* add_chain over three tasks, the shortest chain whose own links can     *)
(* close a cycle: each link is validated against the graph's pairs and the *)
(* links before it, and one that is already there is skipped.              *)
LinkRefused(work, link) == link \notin work /\ CycleIfAdded(work, link[1], link[2])

\* Mutant: the links of a chain are each checked against the graph alone.
LinksRefusedApart(pairs, first, second, third) ==
  LinkRefused(pairs, <<first, second>>) \/ LinkRefused(pairs, <<second, third>>)

ChainRefused(pairs, first, second, third) ==
  \/ LinkRefused(pairs, <<first, second>>)
  \/ LinkRefused(pairs \cup {<<first, second>>}, <<second, third>>)
=============================================================================
