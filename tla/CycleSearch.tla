----------------------------- MODULE CycleSearch -----------------------------
(***************************************************************************)
(* find_cycles (core/precedence.py), the check `seldon verify` runs over   *)
(* the `precedes` subgraph: Kahn's algorithm finds what lies on or behind  *)
(* a cycle, then a depth-first search from the least node of that residue  *)
(* names one cycle, again and again until every node is accounted for.     *)
(* The pairs are a list: the order of a node's children and the repeats of *)
(* a pair (`seldon link create` can write them) both matter.               *)
(***************************************************************************)
EXTENDS Naturals, SequencesExt

CONSTANTS
  NodeCount,  \* nodes are 1..NodeCount, in the order of their ids
  MaxPairs    \* bound: length of the list of pairs

ASSUME CycleSearchAssumption == NodeCount \in Nat /\ MaxPairs \in Nat

Node == 1..NodeCount

VARIABLES
  given,      \* the input, self-loops taken out
  loops,      \* the nodes with a self-loop
  unvisited,  \* what is left of the residue
  path,       \* the search: the nodes from the root down
  at,         \* ... and the position of the pair each of them tried last
  cycles,     \* the cycles reported, each without its repeated last node
  pc

searchVars == <<given, loops, unvisited, path, at, cycles, pc>>

-----------------------------------------------------------------------------
Pairs == {given[i] : i \in DOMAIN given}

Mentioned == {p[1] : p \in Pairs} \cup {p[2] : p \in Pairs}

(* _kahn_residue.  The in-degree counts every pair of the list; a node's   *)
(* removal takes one off each child, so a repeated pair keeps its target.  *)
InDegree(n) == Cardinality({i \in DOMAIN given : given[i][2] = n})

ParentsAmong(n, S) == {m \in S : <<m, n>> \in Pairs}

KahnResidue ==
  LET removed[k \in 0..NodeCount] ==
        IF k = 0 THEN {}
        ELSE {n \in Mentioned :
                InDegree(n) = Cardinality(ParentsAmong(n, removed[k - 1]))}
  IN  Mentioned \ removed[NodeCount]

(* successors: the children of n in the order the list names them, each    *)
(* once.  Those of a node in the residue are in it too.                    *)
FirstMention(i) == \A j \in 1..(i - 1) : given[j] # given[i]

Untried(n, k) ==
  {i \in DOMAIN given : i > k /\ given[i][1] = n /\ FirstMention(i)}

-----------------------------------------------------------------------------
SearchInit ==
  /\ given \in BoundedSeq({p \in Node \X Node : p[1] # p[2]}, MaxPairs)
  /\ loops \in SUBSET Node
  /\ unvisited = {} /\ path = <<>> /\ at = <<>>
  /\ cycles = {} /\ pc = "start"

(* The self-loops are reported, and the residue is what is left to visit. *)
Detect ==
  /\ pc = "start"
  /\ unvisited' = KahnResidue
  /\ cycles' = {<<n>> : n \in loops}
  /\ pc' = "pick"
  /\ UNCHANGED <<given, loops, path, at>>

(* while unvisited: search from the least of them. *)
PickRoot ==
  /\ pc = "pick"
  /\ \E root \in unvisited :
       /\ \A n \in unvisited : root <= n
       /\ path' = <<root>> /\ at' = <<0>>
  /\ pc' = "search"
  /\ UNCHANGED <<given, loops, unvisited, cycles>>

SearchReturn ==
  /\ pc = "pick" /\ unvisited = {}
  /\ pc' = "done"
  /\ UNCHANGED <<given, loops, unvisited, path, at, cycles>>

(* _dfs_find_cycle: the next pair of the node at the end of the path. *)
IsNext(i) ==
  LET untried == Untried(path[Len(path)], at[Len(at)])
  IN  i \in untried /\ \A j \in untried : i <= j

Descend ==
  /\ pc = "search"
  /\ \E i \in DOMAIN given :
       /\ IsNext(i)
       /\ \A k \in DOMAIN path : path[k] # given[i][2]
       /\ path' = Append(path, given[i][2])
       /\ at' = Append([at EXCEPT ![Len(at)] = i], 0)
  /\ UNCHANGED <<given, loops, unvisited, cycles, pc>>

(* A child on the path closes a cycle.  Only the nodes of that cycle are   *)
(* accounted for: not the root, when the cycle does not pass through it.   *)
Closes(k) == \E i \in DOMAIN given : IsNext(i) /\ path[k] = given[i][2]

\* Mutant: the whole path is reported, its way to the cycle included.
ReportWholePath ==
  /\ pc = "search"
  /\ \E k \in DOMAIN path :
       /\ Closes(k)
       /\ cycles' = cycles \cup {path}
       /\ unvisited' = unvisited \ {path[i] : i \in k..Len(path)}
  /\ path' = <<>> /\ at' = <<>>
  /\ pc' = "pick"
  /\ UNCHANGED <<given, loops>>

Report ==
  /\ pc = "search"
  /\ \E k \in DOMAIN path :
       /\ Closes(k)
       /\ cycles' = cycles \cup {SubSeq(path, k, Len(path))}
       /\ unvisited' = unvisited \ {path[i] : i \in k..Len(path)}
  /\ path' = <<>> /\ at' = <<>>
  /\ pc' = "pick"
  /\ UNCHANGED <<given, loops>>

(* No child left: back up, and when the root itself is exhausted no cycle  *)
(* can be reached from it.                                                 *)
Exhausted == Untried(path[Len(path)], at[Len(at)]) = {}

Backtrack ==
  /\ pc = "search" /\ Len(path) > 1 /\ Exhausted
  /\ path' = SubSeq(path, 1, Len(path) - 1)
  /\ at' = SubSeq(at, 1, Len(at) - 1)
  /\ UNCHANGED <<given, loops, unvisited, cycles, pc>>

\* Mutant: a root that reaches no cycle is left unvisited.
GiveUpKeepingRoot ==
  /\ pc = "search" /\ Len(path) = 1 /\ Exhausted
  /\ path' = <<>> /\ at' = <<>>
  /\ pc' = "pick"
  /\ UNCHANGED <<given, loops, unvisited, cycles>>

\* Mutant: `break` for `continue` when no cycle is reached.
GiveUpForGood ==
  /\ pc = "search" /\ Len(path) = 1 /\ Exhausted
  /\ unvisited' = {}
  /\ path' = <<>> /\ at' = <<>>
  /\ pc' = "pick"
  /\ UNCHANGED <<given, loops, cycles>>

GiveUp ==
  /\ pc = "search" /\ Len(path) = 1 /\ Exhausted
  /\ unvisited' = unvisited \ {path[1]}
  /\ path' = <<>> /\ at' = <<>>
  /\ pc' = "pick"
  /\ UNCHANGED <<given, loops, cycles>>

SearchNext == Detect \/ PickRoot \/ SearchReturn \/ Descend \/ Report \/ Backtrack \/ GiveUp

(* One thread runs the loop; nothing can hold it up. *)
SearchSpec == SearchInit /\ [][SearchNext]_searchVars /\ WF_searchVars(SearchNext)

-----------------------------------------------------------------------------
SearchTypeOK ==
  /\ given \in Seq(Node \X Node) /\ loops \subseteq Node
  /\ unvisited \subseteq Node
  /\ path \in Seq(Node) /\ at \in Seq(Nat) /\ Len(at) = Len(path)
  /\ cycles \subseteq Seq(Node)
  /\ pc \in {"start", "pick", "search", "done"}
  /\ pc = "search" <=> path # <<>>

(* What "acyclic" means, without a search: the nodes can be numbered so    *)
(* that every pair goes up.                                                *)
GivenAcyclic ==
  /\ loops = {}
  /\ \E number \in [Node -> Node] :
       \A p \in Pairs : number[p[1]] < number[p[2]]

(* Every reported cycle is one: each node precedes the next, the last      *)
(* precedes the first, and no node comes twice ("Cycles, each as           *)
(* [n1, n2, ..., n1]").                                                    *)
IsCycle(c) ==
  /\ c # <<>> /\ \A i, j \in DOMAIN c : c[i] = c[j] => i = j
  /\ \A i \in 1..(Len(c) - 1) : <<c[i], c[i + 1]>> \in Pairs
  /\ \/ <<c[Len(c)], c[1]>> \in Pairs
     \/ Len(c) = 1 /\ c[1] \in loops

CyclesAreReal == \A c \in cycles : IsCycle(c)

(* The path of the search is a path: what makes a closed one a cycle. *)
PathIsPath ==
  /\ \A i, j \in DOMAIN path : path[i] = path[j] => i = j
  /\ \A i \in 1..(Len(path) - 1) : <<path[i], path[i + 1]>> \in Pairs

(* When it returns, it has found a cycle in every cyclic region: around    *)
(* each node that reaches itself there is a reported cycle that it reaches *)
(* and that reaches it ("Find one concrete cycle per cyclic region").      *)
Reaches(m, n) ==
  LET seen[k \in 0..NodeCount] ==
        IF k = 0 THEN {p[2] : p \in {q \in Pairs : q[1] = m}}
        ELSE seen[k - 1] \cup {p[2] : p \in {q \in Pairs : q[1] \in seen[k - 1]}}
  IN  n \in seen[NodeCount]

EveryRegionReported ==
  pc = "done" =>
    /\ \A n \in loops : <<n>> \in cycles
    /\ \A n \in Node : Reaches(n, n) =>
         \E c \in cycles : Len(c) > 1 /\ \E i \in DOMAIN c :
           n = c[i] \/ (Reaches(n, c[i]) /\ Reaches(c[i], n))

(* A subgraph without a cycle is found to be one: the search returns, with *)
(* nothing to report ("Empty when the subgraph is a DAG").                 *)
DagIsEmpty == GivenAcyclic ~> (pc = "done" /\ cycles = {})

(* ... and so does every search. *)
SearchReturns == <>(pc = "done")
=============================================================================
