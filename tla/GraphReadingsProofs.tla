------------------------- MODULE GraphReadingsProofs -------------------------
(***************************************************************************)
(* Four of the readings of MCGraphReadings.  Whatever list it is given,    *)
(* and even when it never returns, find_cycles reports nothing but cycles, *)
(* and when it returns it has missed none of the regions; no task that a   *)
(* session filed escapes every close without a named cause; the precedence *)
(* commands answer what their answers mean; a walk of staleness that ends  *)
(* leaves nobody behind, and a decision is told from drift exactly.        *)
(***************************************************************************)
EXTENDS PrecedenceView, PrecedenceProofs, CycleSearch, Closeout, Staleness,
        SequenceTheorems

(* find_cycles: the type, with a path that is one, and cycles that are. *)
IInv == SearchTypeOK /\ PathIsPath /\ CyclesAreReal

-----------------------------------------------------------------------------
(* A self-loop is a cycle of one node. *)
LEMMA LoopIsCycle ==
  ASSUME NEW n \in loops
  PROVE  IsCycle(<<n>>)
BY DEF IsCycle

(* A path whose last node has a pair to its first is a cycle, and so is    *)
(* what remains of it from some node on.                                   *)
LEMMA ClosedPathIsCycle ==
  ASSUME SearchTypeOK, PathIsPath, NEW k \in DOMAIN path,
         <<path[Len(path)], path[k]>> \in Pairs
  PROVE  /\ SubSeq(path, k, Len(path)) \in Seq(Node)
         /\ IsCycle(SubSeq(path, k, Len(path)))
<1> DEFINE c == SubSeq(path, k, Len(path))
<1>1. /\ path \in Seq(Node) /\ Len(path) \in Nat /\ DOMAIN path = 1..Len(path)
      /\ k \in Nat /\ 1 <= k /\ k <= Len(path)
  BY DEF SearchTypeOK
<1>2. /\ c \in Seq(Node) /\ Len(c) = Len(path) - k + 1
      /\ \A i \in 1..Len(c) : c[i] = path[k + i - 1]
  BY <1>1, SubSeqProperties
<1>3. DOMAIN c = 1..Len(c) /\ Len(c) \in Nat /\ 1 <= Len(c)
  BY <1>1, <1>2
<1> HIDE DEF c
<1>4. c # <<>> /\ c[1] = path[k] /\ c[Len(c)] = path[Len(path)]
  <2>1. k + 1 - 1 = k /\ k + Len(c) - 1 = Len(path)
    BY <1>1, <1>2
  <2>2. 1 \in 1..Len(c) /\ Len(c) \in 1..Len(c)
    BY <1>3
  <2>3. QED
    BY <1>2, <2>1, <2>2
<1>5. \A i, j \in DOMAIN c : c[i] = c[j] => i = j
  <2> SUFFICES ASSUME NEW i \in 1..Len(c), NEW j \in 1..Len(c), c[i] = c[j]
               PROVE  i = j
    BY <1>3
  <2>1. path[k + i - 1] = path[k + j - 1]
    BY <1>2
  <2>2. k + i - 1 \in DOMAIN path /\ k + j - 1 \in DOMAIN path
    BY <1>1, <1>2
  <2>3. QED
    BY <1>1, <2>1, <2>2 DEF PathIsPath
<1>6. ASSUME NEW i \in 1..(Len(c) - 1)
      PROVE  <<c[i], c[i + 1]>> \in Pairs
  <2>1. /\ k + i - 1 \in 1..(Len(path) - 1)
        /\ c[i] = path[k + i - 1] /\ c[i + 1] = path[(k + i - 1) + 1]
    <3>1. i \in 1..Len(c) /\ i + 1 \in 1..Len(c)
      BY <1>3
    <3>2. k + i - 1 \in 1..(Len(path) - 1) /\ k + (i + 1) - 1 = (k + i - 1) + 1
      BY <1>1, <1>2
    <3>3. c[i] = path[k + i - 1]
      BY <1>2, <3>1
    <3>4. c[i + 1] = path[k + (i + 1) - 1]
      BY <1>2, <3>1
    <3>5. QED
      BY <3>2, <3>3, <3>4
  <2>2. QED
    BY <2>1 DEF PathIsPath
<1>7. QED
  BY <1>2, <1>4, <1>5, <1>6 DEF IsCycle, c

-----------------------------------------------------------------------------
(* The search has not started. *)
LEMMA InitIInv == SearchInit => IInv
<1> SUFFICES ASSUME SearchInit
             PROVE  IInv
  OBVIOUS
<1>1. given \in Seq(Node \X Node)
  <2>1. PICK m \in 0..MaxPairs : given \in [1..m -> {p \in Node \X Node : p[1] # p[2]}]
    BY DEF SearchInit, BoundedSeq, SeqOf
  <2>2. given \in [1..m -> Node \X Node] /\ m \in Nat
    BY <2>1
  <2>3. QED
    BY <2>2
<1>2. SearchTypeOK
  BY <1>1 DEF SearchInit, SearchTypeOK
<1>3. PathIsPath /\ CyclesAreReal
  BY DEF SearchInit, PathIsPath, CyclesAreReal
<1>4. QED
  BY <1>2, <1>3 DEF IInv

(* IsCycle speaks of the input alone, which no step changes. *)
LEMMA StillCycle ==
  ASSUME UNCHANGED <<given, loops>>, NEW c, IsCycle(c)
  PROVE  IsCycle(c)'
BY DEF IsCycle, Pairs

(* Every step of the search keeps the path a path and reports only cycles. *)
LEMMA StepIInv == IInv /\ [SearchNext]_searchVars => IInv'
<1> SUFFICES ASSUME IInv, [SearchNext]_searchVars
             PROVE  IInv'
  OBVIOUS
<1> USE DEF IInv, SearchTypeOK
<1>1. CASE Detect
  <2>1. \A n \in loops : IsCycle(<<n>>)'
    BY <1>1, LoopIsCycle, StillCycle DEF Detect
  <2>2. CyclesAreReal'
    BY <1>1, <2>1 DEF Detect, CyclesAreReal
  <2>3. PathIsPath'
    BY <1>1 DEF Detect, PathIsPath, Pairs
  <2>4. KahnResidue \subseteq Node
    <3>1. Mentioned \subseteq Node
      BY DEF Mentioned, Pairs
    <3>2. QED
      BY <3>1 DEF KahnResidue
  <2>5. SearchTypeOK'
    <3>1. \A n \in loops : <<n>> \in Seq(Node)
      OBVIOUS
    <3>2. cycles' \subseteq Seq(Node)
      BY <1>1, <3>1 DEF Detect
    <3>3. QED
      BY <1>1, <2>4, <3>2 DEF Detect
  <2>6. QED
    BY <2>2, <2>3, <2>5
<1>2. CASE PickRoot
  <2>1. PICK root \in unvisited : path' = <<root>> /\ at' = <<0>>
    BY <1>2 DEF PickRoot
  <2>2. SearchTypeOK'
    BY <1>2, <2>1 DEF PickRoot
  <2>3. PathIsPath'
    BY <2>1 DEF PathIsPath
  <2>4. CyclesAreReal'
    BY <1>2, StillCycle DEF PickRoot, CyclesAreReal
  <2>5. QED
    BY <2>2, <2>3, <2>4
<1>3. CASE SearchReturn
  <2>1. SearchTypeOK' /\ PathIsPath'
    BY <1>3 DEF SearchReturn, PathIsPath, Pairs
  <2>2. CyclesAreReal'
    BY <1>3, StillCycle DEF SearchReturn, CyclesAreReal
  <2>3. QED
    BY <2>1, <2>2
<1>4. CASE Descend
  <2>1. PICK i \in DOMAIN given :
          /\ IsNext(i)
          /\ \A k \in DOMAIN path : path[k] # given[i][2]
          /\ path' = Append(path, given[i][2])
          /\ at' = Append([at EXCEPT ![Len(at)] = i], 0)
    BY <1>4 DEF Descend
  <2>2. path # <<>> /\ Len(path) \in Nat \ {0}
    BY <1>4 DEF Descend
  <2>3. given[i] = <<path[Len(path)], given[i][2]>> /\ given[i][2] \in Node
    BY <2>1 DEF IsNext, Untried
  <2>4. SearchTypeOK'
    <3>1. [at EXCEPT ![Len(at)] = i] \in Seq(Nat) /\ Len([at EXCEPT ![Len(at)] = i]) = Len(at)
      BY <2>1, <2>2, ExceptSeq
    <3>2. path' \in Seq(Node) /\ at' \in Seq(Nat) /\ Len(at') = Len(path')
      BY <2>1, <2>3, <3>1
    <3>3. path' # <<>>
      BY <2>1, <2>2, <2>3
    <3>4. QED
      BY <1>4, <3>2, <3>3 DEF Descend
  <2>5. PathIsPath'
    <3>1. Pairs' = Pairs
      BY <1>4 DEF Descend, Pairs
    <3>2. /\ Len(path') = Len(path) + 1
          /\ \A k \in 1..Len(path) : path'[k] = path[k]
          /\ path'[Len(path) + 1] = given[i][2]
          /\ DOMAIN path' = 1..(Len(path) + 1) /\ DOMAIN path = 1..Len(path)
      BY <2>1, <2>3
    <3>3. <<path[Len(path)], given[i][2]>> \in Pairs
      BY <2>1, <2>3 DEF Pairs
    <3>4. \A k, m \in DOMAIN path' : path'[k] = path'[m] => k = m
      BY <2>1, <2>2, <3>2 DEF PathIsPath
    <3>5. \A k \in 1..(Len(path') - 1) : <<path'[k], path'[k + 1]>> \in Pairs
      <4> SUFFICES ASSUME NEW k \in 1..Len(path)
                   PROVE  <<path'[k], path'[k + 1]>> \in Pairs
        <5>1. Len(path') - 1 = Len(path)
          BY <2>2, <3>2
        <5>2. QED
          BY <5>1
      <4>1. CASE k = Len(path)
        BY <2>2, <3>2, <3>3, <4>1
      <4>2. CASE k # Len(path)
        <5>1. k \in 1..(Len(path) - 1) /\ k + 1 \in 1..Len(path)
          BY <2>2, <4>2
        <5>2. QED
          BY <3>2, <5>1 DEF PathIsPath
      <4>3. QED
        BY <4>1, <4>2
    <3>6. QED
      BY <3>1, <3>4, <3>5 DEF PathIsPath
  <2>6. CyclesAreReal'
    BY <1>4, StillCycle DEF Descend, CyclesAreReal
  <2>7. QED
    BY <2>4, <2>5, <2>6
<1>5. CASE Report
  <2>1. PICK k \in DOMAIN path :
          /\ Closes(k)
          /\ cycles' = cycles \cup {SubSeq(path, k, Len(path))}
          /\ unvisited' = unvisited \ {path[i] : i \in k..Len(path)}
    BY <1>5 DEF Report
  <2>2. <<path[Len(path)], path[k]>> \in Pairs
    <3>1. PICK i \in DOMAIN given : IsNext(i) /\ path[k] = given[i][2]
      BY <2>1 DEF Closes
    <3>2. given[i][1] = path[Len(path)] /\ given[i] \in Node \X Node
      BY <3>1 DEF IsNext, Untried
    <3>3. QED
      BY <3>1, <3>2 DEF Pairs
  <2>3. /\ SubSeq(path, k, Len(path)) \in Seq(Node)
        /\ IsCycle(SubSeq(path, k, Len(path)))
    BY <2>1, <2>2, ClosedPathIsCycle
  <2>4. SearchTypeOK'
    <3>1. cycles' \subseteq Seq(Node) /\ unvisited' \subseteq Node
      BY <2>1, <2>3
    <3>2. QED
      BY <1>5, <3>1 DEF Report
  <2>5. PathIsPath'
    BY <1>5 DEF Report, PathIsPath
  <2>6. CyclesAreReal'
    BY <1>5, <2>1, <2>3, StillCycle DEF Report, CyclesAreReal
  <2>7. QED
    BY <2>4, <2>5, <2>6
<1>6. CASE Backtrack
  <2>1. Len(path) \in Nat /\ Len(path) > 1 /\ Len(at) = Len(path)
    BY <1>6 DEF Backtrack
  <2>2. /\ path' \in Seq(Node) /\ Len(path') = Len(path) - 1
        /\ \A i \in 1..(Len(path) - 1) : path'[i] = path[i]
    BY <1>6, <2>1, SubSeqProperties DEF Backtrack
  <2>3. at' \in Seq(Nat) /\ Len(at') = Len(at) - 1
    BY <1>6, <2>1, SubSeqProperties DEF Backtrack
  <2>4. SearchTypeOK'
    <3>1. Len(path') > 0 /\ Len(at') = Len(path')
      BY <2>1, <2>2, <2>3
    <3>2. path' # <<>> /\ Len(at') = Len(path')
      BY <3>1
    <3>3. QED
      BY <1>6, <2>2, <2>3, <3>2 DEF Backtrack
  <2>5. PathIsPath'
    <3>1. Pairs' = Pairs
      BY <1>6 DEF Backtrack, Pairs
    <3>2. DOMAIN path' = 1..(Len(path) - 1) /\ DOMAIN path = 1..Len(path)
      BY <2>1, <2>2
    <3>3. \A i \in 1..(Len(path) - 1) : i \in 1..Len(path)
      BY <2>1
    <3>4. \A i, j \in DOMAIN path' : path'[i] = path'[j] => i = j
      BY <2>2, <3>2, <3>3 DEF PathIsPath
    <3>5. \A i \in 1..(Len(path') - 1) :
            i \in 1..(Len(path) - 1) /\ i + 1 \in 1..(Len(path) - 1)
      BY <2>1, <2>2
    <3>6. QED
      BY <2>2, <3>1, <3>4, <3>5 DEF PathIsPath
  <2>6. CyclesAreReal'
    BY <1>6, StillCycle DEF Backtrack, CyclesAreReal
  <2>7. QED
    BY <2>4, <2>5, <2>6
<1>7. CASE GiveUp
  <2>1. SearchTypeOK' /\ PathIsPath'
    BY <1>7 DEF GiveUp, PathIsPath
  <2>2. CyclesAreReal'
    BY <1>7, StillCycle DEF GiveUp, CyclesAreReal
  <2>3. QED
    BY <2>1, <2>2
<1>8. CASE UNCHANGED searchVars
  <2>1. SearchTypeOK' /\ PathIsPath'
    BY <1>8 DEF searchVars, PathIsPath, Pairs
  <2>2. CyclesAreReal'
    BY <1>8, StillCycle DEF searchVars, CyclesAreReal
  <2>3. QED
    BY <2>1, <2>2
<1>9. QED
  BY <1>1, <1>2, <1>3, <1>4, <1>5, <1>6, <1>7, <1>8 DEF SearchNext

-----------------------------------------------------------------------------
(* The invariant holds in every state of every behaviour. *)
LEMMA Inductive == SearchSpec => []IInv
<1>1. SearchInit => IInv
  BY InitIInv
<1>2. IInv /\ [SearchNext]_searchVars => IInv'
  BY StepIInv
<1>3. QED
  BY <1>1, <1>2, PTL DEF SearchSpec

(* Every variable keeps its type (find_cycles, _dfs_find_cycle). *)
THEOREM TypeCorrect == SearchSpec => []SearchTypeOK
<1>1. IInv => SearchTypeOK
  BY DEF IInv
<1>2. QED
  BY <1>1, Inductive, PTL

(* For any number of nodes and any list of pairs, everything find_cycles   *)
(* reports is a cycle of the list without a repeated node.                 *)
THEOREM OnlyCycles == SearchSpec => []CyclesAreReal
<1>1. IInv => CyclesAreReal
  BY DEF IInv
<1>2. QED
  BY <1>1, Inductive, PTL

-----------------------------------------------------------------------------
(* What a node leads to: whatever is in every set that holds its children  *)
(* and theirs.                                                             *)
LeadsOn(links, n, closed) ==
  /\ Successors(links, n) \subseteq closed
  /\ \A m \in closed : Successors(links, m) \subseteq closed

Led(links, n) == {m \in Node : \A closed \in SUBSET Node : LeadsOn(links, n, closed) => m \in closed}

LEMMA LedLeadsOn ==
  ASSUME NEW links \in SUBSET (Node \X Node), NEW n
  PROVE  LeadsOn(links, n, Led(links, n))
<1>1. \A m : Successors(links, m) \subseteq Node
  BY DEF Successors
<1>2. Successors(links, n) \subseteq Led(links, n)
  BY <1>1 DEF Led, LeadsOn
<1>3. ASSUME NEW m \in Led(links, n) PROVE Successors(links, m) \subseteq Led(links, n)
  BY <1>1 DEF Led, LeadsOn
<1> QED
  BY <1>2, <1>3 DEF LeadsOn

(* Reaches is the rounds of a search; so what reaches itself leads to      *)
(* itself.                                                                 *)
ReachRounds(f, m) ==
  f = [k \in 0..NodeCount |->
        IF k = 0 THEN {p[2] : p \in {q \in Pairs : q[1] = m}}
        ELSE f[k - 1] \cup {p[2] : p \in {q \in Pairs : q[1] \in f[k - 1]}}]

LEMMA ReachIsSearch ==
  ASSUME NEW f, NEW m
  PROVE  ReachRounds(f, m) <=> Search(f, Pairs, Successors(Pairs, m), NodeCount)
<1>1. \A seen : {p[2] : p \in {q \in Pairs : q[1] \in seen}} = UNION {Successors(Pairs, n) : n \in seen}
  BY DEF Successors
<1> DEFINE here(g, k) == IF k = 0 THEN {p[2] : p \in {q \in Pairs : q[1] = m}}
                         ELSE g[k - 1] \cup {p[2] : p \in {q \in Pairs : q[1] \in g[k - 1]}}
           there(g, k) == IF k = 0 THEN Successors(Pairs, m)
                          ELSE g[k - 1] \cup UNION {Successors(Pairs, n) : n \in g[k - 1]}
<1>2. \A k \in 0..NodeCount : here(f, k) = there(f, k)
  BY <1>1, Zenon DEF Successors
<1>3. ReachRounds(f, m) <=> f = [k \in 0..NodeCount |-> here(f, k)]
  BY Zenon DEF ReachRounds
<1>4. Search(f, Pairs, Successors(Pairs, m), NodeCount) <=> f = [k \in 0..NodeCount |-> there(f, k)]
  BY Zenon DEF Search
<1>5. [k \in 0..NodeCount |-> here(f, k)] = [k \in 0..NodeCount |-> there(f, k)]
  <2> HIDE DEF here, there
  <2> QED
    BY <1>2
<1> QED
  BY <1>3, <1>4, <1>5, Zenon

LEMMA ReachesIsLed ==
  ASSUME SearchTypeOK, NEW n \in Node, Reaches(n, n)
  PROVE  n \in Led(Pairs, n)
<1> DEFINE f == CHOOSE g : ReachRounds(g, n)
<1>1. \E g : ReachRounds(g, n)
  BY SearchIsDefined, ReachIsSearch, CycleSearchAssumption
<1>2. ReachRounds(f, n)
  BY <1>1, Zenon
<1>3. Reaches(n, n) <=> n \in f[NodeCount]
  BY Zenon DEF Reaches, ReachRounds
<1>4. Search(f, Pairs, Successors(Pairs, n), NodeCount)
  BY <1>2, ReachIsSearch
<1> HIDE DEF f
<1>5. ASSUME NEW closed \in SUBSET Node, LeadsOn(Pairs, n, closed) PROVE n \in closed
  <2>1. \A k \in 0..NodeCount : f[k] \subseteq closed
    BY <1>4, <1>5, SearchIsLeast, CycleSearchAssumption DEF LeadsOn
  <2> QED
    BY <1>3, <2>1, CycleSearchAssumption
<1> QED
  BY <1>5 DEF Led

-----------------------------------------------------------------------------
(* A node from which no walk goes on for ever.  When that holds of every   *)
(* child of a node, it holds of the node.                                  *)
Endless(links, S) == \A m \in S : \E c \in S : <<m, c>> \in links

Hopeless(links, n) == \A S \in SUBSET Node : Endless(links, S) => n \notin S

LEMMA HopelessChildren ==
  ASSUME NEW links, NEW n, \A c \in Node : <<n, c>> \in links => Hopeless(links, c)
  PROVE  Hopeless(links, n)
BY DEF Hopeless, Endless

(* A node that leads to itself is not one of them: from whatever leads to  *)
(* it, there is a way on.                                                  *)
LEMMA NoHopeNoCircle ==
  ASSUME NEW links \in SUBSET (Node \X Node), NEW n \in Node, n \in Led(links, n)
  PROVE  ~Hopeless(links, n)
<1> DEFINE S == {m \in Node : n \in Led(links, m)}
<1>1. ASSUME NEW m \in S PROVE \E c \in S : <<m, c>> \in links
  <2> DEFINE closed == Successors(links, m) \cup UNION {Led(links, c) : c \in Successors(links, m)}
  <2>1. closed \in SUBSET Node
    BY DEF Successors, Led
  <2>2. \A c : Successors(links, c) \subseteq Led(links, c)
               /\ \A x \in Led(links, c) : Successors(links, x) \subseteq Led(links, c)
    BY LedLeadsOn DEF LeadsOn
  <2>3. LeadsOn(links, m, closed)
    BY <2>2 DEF LeadsOn
  <2>4. n \in closed
    <3> HIDE DEF closed
    <3> QED
      BY <1>1, <2>1, <2>3 DEF Led
  <2>5. PICK c \in Successors(links, m) : n = c \/ n \in Led(links, c)
    BY <2>4
  <2>6. <<m, c>> \in links /\ c \in Node
    BY DEF Successors
  <2> QED
    BY <2>5, <2>6
<1>2. Endless(links, S) /\ n \in S /\ S \in SUBSET Node
  BY <1>1 DEF Endless
<1> HIDE DEF S
<1> QED
  BY <1>2 DEF Hopeless

-----------------------------------------------------------------------------
(* _kahn_residue: what has a parent in the set for every member of the set *)
(* is never removed.                                                       *)
Parents(n) == {m \in Node : <<m, n>> \in Pairs}

LEMMA EveryParentCounts ==
  ASSUME SearchTypeOK, NEW n, NEW S \in SUBSET Node,
         InDegree(n) = Cardinality(ParentsAmong(n, S))
  PROVE  Parents(n) \subseteq S
<1> DEFINE I == {i \in DOMAIN given : given[i][2] = n}
           among == ParentsAmong(n, S)
           f == [i \in I |-> given[i][1]]
<1>1. DOMAIN given = 1..Len(given) /\ Len(given) \in Nat
      /\ \A i \in DOMAIN given : given[i] \in Node \X Node
  BY DEF SearchTypeOK
<1>2. IsFiniteSet(I)
  <2>1. IsFiniteSet(1..Len(given))
    BY <1>1, FS_Interval
  <2>2. I \in SUBSET (1..Len(given))
    BY <1>1
  <2> QED
    BY <2>1, <2>2, FS_Subset
<1>3. f \in Surjection(I, Parents(n))
  <2>1. \A i \in I : given[i][1] \in Parents(n)
    BY <1>1 DEF Parents, Pairs
  <2>2. \A m \in Parents(n) : \E i \in I : given[i][1] = m
    BY <1>1 DEF Parents, Pairs
  <2>3. f \in [I -> Parents(n)] /\ \A m \in Parents(n) : \E i \in I : f[i] = m
    BY <2>1, <2>2
  <2> HIDE DEF f, I
  <2> QED
    BY <2>3 DEF Surjection
<1>4. IsFiniteSet(Parents(n)) /\ Cardinality(Parents(n)) <= Cardinality(I)
  <2> HIDE DEF f, I
  <2> QED
    BY <1>2, <1>3, FS_Surjection
<1>5. among \in SUBSET Parents(n)
  BY DEF ParentsAmong, Parents
<1>6. Cardinality(I) = Cardinality(among)
  BY DEF InDegree
<1>7. among = Parents(n)
  <2>1. Cardinality(among) <= Cardinality(Parents(n)) /\ IsFiniteSet(among)
    BY <1>4, <1>5, FS_Subset
  <2>2. Cardinality(among) \in Nat /\ Cardinality(Parents(n)) \in Nat
    BY <1>4, <2>1, FS_CardinalityType
  <2>3. Cardinality(among) = Cardinality(Parents(n))
    BY <1>4, <1>6, <2>1, <2>2
  <2> HIDE DEF among
  <2> QED
    BY <1>4, <1>5, <2>3, FS_Subset
<1> QED
  BY <1>7 DEF ParentsAmong

KahnRounds(f) ==
  f = [k \in 0..NodeCount |->
        IF k = 0 THEN {}
        ELSE {n \in Mentioned : InDegree(n) = Cardinality(ParentsAmong(n, f[k - 1]))}]

LEMMA KahnIsDefined == \E f : KahnRounds(f)
<1> DEFINE D == SUBSET Mentioned
           next(S) == {n \in Mentioned : InDegree(n) = Cardinality(ParentsAmong(n, S))}
           step == [x \in D \X (1..NodeCount) |-> next(x[1])]
           empty == {}
<1>0. NodeCount \in Nat
  BY CycleSearchAssumption
<1>1. \A S : next(S) \in D
  OBVIOUS
<1>2. empty \in D
  OBVIOUS
<1>3. step \in [D \X (1..NodeCount) -> D]
  <2> HIDE DEF D, next
  <2> QED
    BY <1>1
<1>4. PICK f \in [0..NodeCount -> D] : Iterates(f, empty, step, NodeCount)
  <2> HIDE DEF D, step, empty
  <2> QED
    BY <1>0, <1>2, <1>3, IterationExists
<1>5. ASSUME NEW i \in 0..NodeCount, i # 0 PROVE f[i] = next(f[i - 1])
  <2>1. i \in 1..NodeCount /\ i - 1 \in 0..NodeCount
    BY <1>0, <1>5
  <2>2. <<f[i - 1], i>> \in D \X (1..NodeCount)
    BY <2>1
  <2>3. f[i] = step[<<f[i - 1], i>>]
    BY <1>4, <2>1 DEF Iterates
  <2> HIDE DEF D, next
  <2> QED
    BY <2>2, <2>3
<1>6. f[0] = empty
  BY <1>4 DEF Iterates
<1> DEFINE h == [k \in 0..NodeCount |-> IF k = 0 THEN empty ELSE next(f[k - 1])]
<1>7. f = [k \in 0..NodeCount |-> f[k]] /\ \A k \in 0..NodeCount : f[k] = h[k]
  <2> HIDE DEF D, next, empty
  <2> QED
    BY <1>5, <1>6
<1>8. f = h
  <2> HIDE DEF D, next, empty
  <2> QED
    BY <1>7
<1> QED
  BY <1>8, Zenon DEF KahnRounds

LEMMA ResidueKeeps ==
  ASSUME SearchTypeOK, NEW C \in SUBSET Node, \A n \in C : \E m \in C : <<m, n>> \in Pairs
  PROVE  C \subseteq KahnResidue
<1> DEFINE f == CHOOSE g : KahnRounds(g)
<1>0. NodeCount \in Nat
  BY CycleSearchAssumption
<1>1. KahnRounds(f)
  BY KahnIsDefined, Zenon
<1>2. KahnResidue = Mentioned \ f[NodeCount]
  BY Zenon DEF KahnResidue, KahnRounds
<1> HIDE DEF f
<1>3. \A k \in 0..NodeCount :
        f[k] = IF k = 0 THEN {}
               ELSE {n \in Mentioned : InDegree(n) = Cardinality(ParentsAmong(n, f[k - 1]))}
  BY <1>1, Zenon DEF KahnRounds
<1> DEFINE S == {k \in 0..NodeCount : f[k] \cap C = {} /\ f[k] \in SUBSET Node}
<1>4. Mentioned \in SUBSET Node
  BY DEF Mentioned, Pairs, SearchTypeOK
<1>5. 0 \in S
  <2>1. 0 \in 0..NodeCount
    BY <1>0
  <2>2. f[0] = {}
    BY <1>3, <2>1
  <2> QED
    BY <2>1, <2>2
<1>6. ASSUME NEW k \in 0..NodeCount, k \in S, k # NodeCount PROVE k + 1 \in S
  <2>1. k + 1 \in 0..NodeCount /\ k + 1 # 0 /\ (k + 1) - 1 = k
    BY <1>0, <1>6
  <2>2. f[k + 1] = {n \in Mentioned : InDegree(n) = Cardinality(ParentsAmong(n, f[k]))}
    BY <1>3, <2>1
  <2>3. f[k] \cap C = {} /\ f[k] \in SUBSET Node
    BY <1>6
  <2>4. ASSUME NEW n \in f[k + 1] PROVE n \notin C
    <3>1. Parents(n) \subseteq f[k]
      BY <2>2, <2>3, EveryParentCounts
    <3> QED
      BY <2>3, <3>1 DEF Parents
  <2>5. f[k + 1] \in SUBSET Node
    BY <1>4, <2>2
  <2> QED
    BY <2>1, <2>4, <2>5
<1>7. NodeCount \in S
  <2> HIDE DEF S
  <2> QED
    BY <1>0, <1>5, <1>6, UpTo
<1>8. ASSUME NEW n \in C PROVE n \in Mentioned
  <2>1. PICK m \in C : <<m, n>> \in Pairs
    OBVIOUS
  <2>2. <<m, n>>[2] = n
    OBVIOUS
  <2> QED
    BY <2>1, <2>2 DEF Mentioned
<1> QED
  BY <1>2, <1>7, <1>8

(* ... and so a node that leads to itself is in the residue. *)
LEMMA CircleInResidue ==
  ASSUME SearchTypeOK, NEW n \in Node, n \in Led(Pairs, n)
  PROVE  n \in KahnResidue
<1>0. Pairs \in SUBSET (Node \X Node)
  BY DEF Pairs, SearchTypeOK
<1> DEFINE C == Led(Pairs, n)
           onward == {m \in C : \E p \in C : <<p, m>> \in Pairs}
<1>1. LeadsOn(Pairs, n, C)
  BY <1>0, LedLeadsOn
<1>2. LeadsOn(Pairs, n, onward)
  <2>0. n \in C
    OBVIOUS
  <2> HIDE DEF C
  <2>1. ASSUME NEW m \in C PROVE Successors(Pairs, m) \subseteq onward
    <3>1. \A c \in Successors(Pairs, m) : <<m, c>> \in Pairs
      BY <1>0 DEF Successors
    <3>2. Successors(Pairs, m) \subseteq C
      BY <1>1 DEF LeadsOn
    <3> QED
      BY <3>1, <3>2
  <2> QED
    BY <2>0, <2>1 DEF LeadsOn
<1>3. C \subseteq onward /\ C \in SUBSET Node
  <2>1. C \in SUBSET Node /\ onward \in SUBSET Node
    BY DEF Led
  <2> HIDE DEF onward
  <2> QED
    BY <1>2, <2>1 DEF Led
<1>4. C \subseteq KahnResidue
  <2>1. \A m \in C : \E p \in C : <<p, m>> \in Pairs
    BY <1>3
  <2> HIDE DEF C
  <2> QED
    BY <1>3, <2>1, ResidueKeeps
<1> QED
  BY <1>4

-----------------------------------------------------------------------------
(* What the search knows besides.  NoSelfPairs: the input has no           *)
(* self-loops.  Explored: the children that a node on the path has tried   *)
(* are hopeless, all but the one the path goes on to; which one that is,   *)
(* Descents says.  InHand: what leads to itself has been reported or is    *)
(* still to be visited.                                                    *)
NoSelfPairs == \A i \in DOMAIN given : given[i][1] # given[i][2]

Tried(k) ==
  {j \in DOMAIN given : /\ given[j][1] = path[k] /\ FirstMention(j)
                        /\ j < at[k] \/ (j = at[k] /\ k = Len(path))}

Explored == \A k \in DOMAIN path : \A j \in Tried(k) : Hopeless(Pairs, given[j][2])

Descents ==
  \A k \in 1..(Len(path) - 1) : at[k] \in DOMAIN given => given[at[k]][2] = path[k + 1]

OnReported(n) == \E c \in cycles : Len(c) > 1 /\ \E i \in DOMAIN c : n = c[i]

InHand ==
  pc # "start" =>
    /\ \A n \in loops : <<n>> \in cycles
    /\ \A n \in Node : n \in Led(Pairs, n) => n \in unvisited \/ OnReported(n)

DoneIsEmpty == pc = "done" => unvisited = {}

RegionInv == IInv /\ NoSelfPairs /\ Explored /\ Descents /\ InHand /\ DoneIsEmpty

(* Each pair has a first mention. *)
LEMMA FirstOfPair ==
  ASSUME SearchTypeOK, NEW p \in Pairs
  PROVE  \E j \in DOMAIN given : given[j] = p /\ FirstMention(j)
<1> DEFINE T == {j \in DOMAIN given : given[j] = p}
<1>1. T # {} /\ T \subseteq Nat /\ DOMAIN given = 1..Len(given) /\ Len(given) \in Nat
  BY DEF Pairs, SearchTypeOK
<1>2. PICK j \in T : \A i \in T : j <= i
  <2> HIDE DEF T
  <2> QED
    BY <1>1, LeastNatural
<1>3. FirstMention(j)
  <2> SUFFICES ASSUME NEW i \in 1..(j - 1), given[i] = given[j] PROVE FALSE
    BY DEF FirstMention
  <2>1. i \in DOMAIN given /\ i < j /\ i \in Nat /\ j \in Nat
    BY <1>1
  <2>2. i \in T
    BY <2>1
  <2> QED
    BY <1>2, <2>1, <2>2
<1> QED
  BY <1>3

(* The end of the path, once it is exhausted, is hopeless. *)
LEMMA ExhaustedIsHopeless ==
  ASSUME SearchTypeOK, Explored, path # <<>>, Exhausted
  PROVE  Hopeless(Pairs, path[Len(path)])
<1> DEFINE last == Len(path)
<1>1. last \in DOMAIN path /\ last \in Nat /\ at[last] \in Nat /\ Len(at) = last
  BY DEF SearchTypeOK
<1>2. ASSUME NEW c \in Node, <<path[last], c>> \in Pairs PROVE Hopeless(Pairs, c)
  <2>1. PICK j \in DOMAIN given : given[j] = <<path[last], c>> /\ FirstMention(j)
    BY <1>2, FirstOfPair
  <2>2. j \in Nat /\ given[j][1] = path[last] /\ given[j][2] = c
    BY <2>1 DEF SearchTypeOK
  <2>3. ~(j > at[last])
    <3>1. Untried(path[last], at[last]) = {}
      BY <1>1 DEF Exhausted
    <3> QED
      BY <2>1, <2>2, <3>1 DEF Untried
  <2>4. j \in Tried(last)
    BY <1>1, <2>1, <2>2, <2>3 DEF Tried
  <2> QED
    BY <1>1, <2>2, <2>4 DEF Explored
<1> QED
  BY <1>2, HopelessChildren

LEMMA RegionStarts == SearchInit => RegionInv
<1> SUFFICES ASSUME SearchInit PROVE RegionInv
  OBVIOUS
<1>1. NoSelfPairs
  <2>1. given \in Seq({p \in Node \X Node : p[1] # p[2]})
    BY DEF SearchInit, BoundedSeq, SeqOf
  <2> QED
    BY <2>1 DEF NoSelfPairs
<1>2. path = <<>> /\ DOMAIN path = {} /\ Len(path) = 0 /\ pc = "start"
  BY DEF SearchInit
<1> QED
  BY <1>1, <1>2, InitIInv DEF RegionInv, Explored, Descents, InHand, DoneIsEmpty

LEMMA DetectInHand ==
  ASSUME RegionInv, Detect
  PROVE  RegionInv'
<1>1. Pairs' = Pairs /\ SearchTypeOK
  BY DEF Detect, Pairs, RegionInv, IInv
<1>2. IInv'
  BY StepIInv DEF RegionInv, SearchNext
<1>3. NoSelfPairs' /\ DoneIsEmpty'
  BY DEF RegionInv, Detect, NoSelfPairs, DoneIsEmpty
<1>4. path' = <<>> /\ Len(path') = 0 /\ DOMAIN path' = {}
  BY <1>1 DEF Detect, SearchTypeOK
<1>5. Explored' /\ Descents'
  BY <1>4 DEF Explored, Descents
<1>6. InHand'
  <2>1. \A n \in loops' : <<n>> \in cycles'
    BY DEF Detect
  <2>2. \A n \in Node : n \in Led(Pairs, n) => n \in unvisited'
    BY <1>1, CircleInResidue DEF Detect
  <2> QED
    BY <1>1, <2>1, <2>2 DEF InHand
<1> QED
  BY <1>2, <1>3, <1>5, <1>6 DEF RegionInv

LEMMA PickRootInHand ==
  ASSUME RegionInv, PickRoot
  PROVE  RegionInv'
<1>1. Pairs' = Pairs /\ SearchTypeOK /\ pc = "pick" /\ pc' = "search"
  BY DEF PickRoot, Pairs, RegionInv, IInv
<1>2. IInv'
  BY StepIInv DEF RegionInv, SearchNext
<1>3. NoSelfPairs' /\ DoneIsEmpty' /\ InHand'
  BY <1>1 DEF RegionInv, PickRoot, NoSelfPairs, DoneIsEmpty, InHand, OnReported
<1>4. PICK root \in unvisited : path' = <<root>> /\ at' = <<0>>
  BY DEF PickRoot
<1>5. Len(path') = 1 /\ DOMAIN path' = {1} /\ at'[1] = 0
  BY <1>4
<1>6. Tried(1)' = {}
  <2>1. DOMAIN given \subseteq Nat \ {0} /\ given' = given
    BY <1>1 DEF SearchTypeOK, PickRoot
  <2> QED
    BY <1>5, <2>1 DEF Tried
<1>7. Explored'
  BY <1>5, <1>6 DEF Explored
<1>8. Descents'
  BY <1>5 DEF Descents
<1> QED
  BY <1>2, <1>3, <1>7, <1>8 DEF RegionInv

LEMMA DescendInHand ==
  ASSUME RegionInv, Descend
  PROVE  RegionInv'
<1>1. Pairs' = Pairs /\ SearchTypeOK /\ pc = "search" /\ pc' = "search" /\ given' = given
  BY DEF Descend, Pairs, RegionInv, IInv
<1>2. IInv'
  BY StepIInv DEF RegionInv, SearchNext
<1>3. NoSelfPairs' /\ DoneIsEmpty' /\ InHand'
  BY <1>1 DEF RegionInv, Descend, NoSelfPairs, DoneIsEmpty, InHand, OnReported
<1>0. PICK last : last = Len(path)
  OBVIOUS
<1>4. PICK i \in DOMAIN given :
        /\ IsNext(i)
        /\ path' = Append(path, given[i][2])
        /\ at' = Append([at EXCEPT ![Len(at)] = i], 0)
  BY DEF Descend
<1>5. /\ last \in Nat /\ last # 0 /\ Len(at) = last /\ DOMAIN path = 1..last
      /\ DOMAIN at = 1..last /\ \A k \in 1..last : at[k] \in Nat
      /\ DOMAIN given \subseteq Nat \ {0}
  BY <1>0, <1>1 DEF SearchTypeOK
<1>6. /\ Len(path') = last + 1 /\ DOMAIN path' = 1..(last + 1)
      /\ \A k \in 1..last : path'[k] = path[k]
      /\ path'[last + 1] = given[i][2]
  BY <1>0, <1>1, <1>4 DEF SearchTypeOK
<1>7. /\ at'[last + 1] = 0 /\ at'[last] = i
      /\ \A k \in 1..(last - 1) : at'[k] = at[k]
  <2> DEFINE moved == [at EXCEPT ![Len(at)] = i]
  <2>1. moved \in Seq(Nat) /\ Len(moved) = last /\ moved[last] = i
        /\ \A k \in 1..(last - 1) : moved[k] = at[k]
    <3>1. at \in Seq(Nat) /\ i \in Nat
      BY <1>1, <1>5 DEF SearchTypeOK
    <3>2. moved \in Seq(Nat) /\ Len(moved) = last
      BY <1>5, <3>1, ExceptSeq
    <3>3. last \in DOMAIN at /\ Len(at) = last /\ \A k \in 1..(last - 1) : k \in DOMAIN at /\ k # last
      BY <1>5
    <3>4. moved[last] = i /\ \A k \in 1..(last - 1) : moved[k] = at[k]
      BY <3>3
    <3> QED
      BY <3>2, <3>4
  <2> HIDE DEF moved
  <2>2. at' = Append(moved, 0)
    BY <1>4 DEF moved
  <2>3. Len(moved) = last /\ last \in 1..last /\ \A k \in 1..(last - 1) : k \in 1..last
    BY <1>5, <2>1
  <2>4. at'[last + 1] = 0 /\ \A k \in 1..last : at'[k] = moved[k]
    BY <1>5, <2>1, <2>2, <2>3
  <2> QED
    BY <2>1, <2>3, <2>4
<1>8. Tried(last + 1)' = {}
  BY <1>1, <1>5, <1>7 DEF Tried
<1>9. ASSUME NEW k \in 1..(last - 1) PROVE Tried(k)' \subseteq Tried(k)
  <2>1. k \in 1..last /\ k # last + 1 /\ at'[k] = at[k] /\ path'[k] = path[k] /\ k # Len(path')
    BY <1>5, <1>6, <1>7
  <2> QED
    BY <1>1, <1>6, <2>1 DEF Tried, FirstMention
<1>10. Tried(last)' \subseteq Tried(last)
  <2> SUFFICES ASSUME NEW j \in Tried(last)' PROVE j \in Tried(last)
    OBVIOUS
  <2>1. /\ j \in DOMAIN given /\ given[j][1] = path[last] /\ FirstMention(j)
        /\ j < i /\ j \in Nat /\ i \in Nat /\ at[last] \in Nat
    BY <1>1, <1>5, <1>6, <1>7 DEF Tried, FirstMention
  <2>2. j \notin Untried(path[last], at[last])
    BY <1>0, <1>4, <1>5, <2>1 DEF IsNext
  <2>3. ~(j > at[last])
    BY <2>1, <2>2 DEF Untried
  <2> QED
    BY <1>0, <2>1, <2>3 DEF Tried
<1>11. Explored'
  <2> SUFFICES ASSUME NEW k \in 1..(last + 1), NEW j \in Tried(k)'
               PROVE  Hopeless(Pairs, given[j][2])
    BY <1>1, <1>6 DEF Explored
  <2>1. k \in 1..last /\ j \in Tried(k)
    <3>1. k # last + 1
      BY <1>8
    <3>2. k = last \/ k \in 1..(last - 1)
      BY <1>5, <3>1
    <3> QED
      BY <1>5, <1>9, <1>10, <3>2
  <2> QED
    BY <1>0, <1>5, <2>1 DEF RegionInv, Explored
<1>12. Descents'
  <2> SUFFICES ASSUME NEW k \in 1..last, at'[k] \in DOMAIN given
               PROVE  given[at'[k]][2] = path'[k + 1]
    BY <1>1, <1>5, <1>6 DEF Descents
  <2>1. CASE k = last
    BY <1>6, <1>7, <2>1
  <2>2. CASE k # last
    <3>1. k \in 1..(last - 1) /\ k + 1 \in 1..last
      BY <1>5, <2>2
    <3> QED
      BY <1>0, <1>6, <1>7, <3>1 DEF RegionInv, Descents
  <2> QED
    BY <2>1, <2>2
<1> QED
  BY <1>2, <1>3, <1>11, <1>12 DEF RegionInv

LEMMA ReportInHand ==
  ASSUME RegionInv, Report
  PROVE  RegionInv'
<1>1. Pairs' = Pairs /\ SearchTypeOK /\ pc = "search" /\ pc' = "pick" /\ given' = given
      /\ loops' = loops
  BY DEF Report, Pairs, RegionInv, IInv
<1>2. IInv'
  BY StepIInv DEF RegionInv, SearchNext
<1>3. NoSelfPairs' /\ DoneIsEmpty'
  BY <1>1 DEF RegionInv, NoSelfPairs, DoneIsEmpty
<1>4. path' = <<>> /\ Len(path') = 0 /\ DOMAIN path' = {}
  BY DEF Report
<1>5. Explored' /\ Descents'
  BY <1>4 DEF Explored, Descents
<1>6. PICK k \in DOMAIN path :
        /\ Closes(k)
        /\ cycles' = cycles \cup {SubSeq(path, k, Len(path))}
        /\ unvisited' = unvisited \ {path[i] : i \in k..Len(path)}
  BY DEF Report
<1> DEFINE c == SubSeq(path, k, Len(path))
<1>7. k \in 1..Len(path) /\ Len(path) \in Nat /\ path \in Seq(Node)
  BY <1>1 DEF SearchTypeOK
<1>8. k # Len(path)
  <2>1. PICK i \in DOMAIN given : IsNext(i) /\ path[k] = given[i][2]
    BY <1>6 DEF Closes
  <2>2. given[i][1] = path[Len(path)] /\ given[i][1] # given[i][2]
    BY <2>1 DEF IsNext, Untried, RegionInv, NoSelfPairs
  <2> QED
    BY <2>1, <2>2
<1>9. /\ Len(c) = Len(path) - k + 1 /\ DOMAIN c = 1..Len(c)
      /\ \A i \in 1..Len(c) : c[i] = path[k + i - 1]
  BY <1>7, SubSeqProperties
<1>10. Len(c) > 1 /\ \A i \in k..Len(path) : \E j \in DOMAIN c : path[i] = c[j]
  <2>1. Len(c) > 1
    BY <1>7, <1>8, <1>9
  <2>2. ASSUME NEW i \in k..Len(path) PROVE \E j \in DOMAIN c : path[i] = c[j]
    <3>1. i - k + 1 \in 1..Len(c) /\ k + (i - k + 1) - 1 = i
      BY <1>7, <1>9
    <3>2. c[i - k + 1] = path[i]
      BY <1>9, <3>1
    <3> HIDE DEF c
    <3> QED
      BY <1>9, <3>1, <3>2
  <2> QED
    BY <2>1, <2>2
<1>11. InHand'
  <2>1. \A n \in loops' : <<n>> \in cycles'
    BY <1>1, <1>6 DEF RegionInv, InHand
  <2>2. ASSUME NEW n \in Node, n \in Led(Pairs, n) PROVE n \in unvisited' \/ OnReported(n)'
    <3>1. n \in unvisited \/ OnReported(n)
      BY <1>1, <2>2 DEF RegionInv, InHand
    <3>2. CASE OnReported(n)
      BY <1>6, <3>2 DEF OnReported
    <3>3. CASE n \in unvisited /\ n \notin unvisited'
      <4>1. PICK i \in k..Len(path) : n = path[i]
        BY <1>6, <3>3
      <4>2. c \in cycles'
        BY <1>6
      <4> HIDE DEF c
      <4> QED
        BY <1>10, <4>1, <4>2 DEF OnReported
    <3> QED
      BY <3>1, <3>2, <3>3
  <2> QED
    BY <1>1, <2>1, <2>2 DEF InHand
<1> QED
  BY <1>2, <1>3, <1>5, <1>11 DEF RegionInv

LEMMA BacktrackInHand ==
  ASSUME RegionInv, Backtrack
  PROVE  RegionInv'
<1>1. Pairs' = Pairs /\ SearchTypeOK /\ pc = "search" /\ pc' = "search" /\ given' = given
  BY DEF Backtrack, Pairs, RegionInv, IInv
<1>2. IInv'
  BY StepIInv DEF RegionInv, SearchNext
<1>3. NoSelfPairs' /\ DoneIsEmpty' /\ InHand'
  BY <1>1 DEF RegionInv, Backtrack, NoSelfPairs, DoneIsEmpty, InHand, OnReported
<1>0. PICK m : m = Len(path) - 1
  OBVIOUS
<1>4. /\ m \in Nat /\ m # 0 /\ Len(path) = m + 1 /\ Len(at) = m + 1
      /\ path \in Seq(Node) /\ at \in Seq(Nat)
  BY <1>0, <1>1 DEF Backtrack, SearchTypeOK
<1>5. /\ Len(path') = m /\ DOMAIN path' = 1..m /\ DOMAIN path = 1..(m + 1)
      /\ \A k \in 1..m : path'[k] = path[k]
  <2>1. path' = SubSeq(path, 1, m)
    BY <1>4 DEF Backtrack
  <2> QED
    BY <1>4, <2>1, SubSeqProperties
<1>6. \A k \in 1..m : at'[k] = at[k]
  <2>1. at' = SubSeq(at, 1, m)
    BY <1>4 DEF Backtrack
  <2> QED
    BY <1>4, <2>1, SubSeqProperties
<1>7. Hopeless(Pairs, path[m + 1])
  BY <1>1, <1>4, ExhaustedIsHopeless DEF RegionInv, Backtrack
<1>8. Explored'
  <2> SUFFICES ASSUME NEW k \in 1..m, NEW j \in Tried(k)'
               PROVE  Hopeless(Pairs, given[j][2])
    BY <1>1, <1>5 DEF Explored
  <2>1. /\ j \in DOMAIN given /\ given[j][1] = path[k] /\ FirstMention(j)
        /\ j < at[k] \/ (j = at[k] /\ k = m)
    BY <1>1, <1>5, <1>6 DEF Tried, FirstMention
  <2>2. CASE j < at[k]
    <3>1. k \in DOMAIN path /\ j \in Tried(k)
      BY <1>4, <1>5, <2>1, <2>2 DEF Tried
    <3> QED
      BY <3>1 DEF RegionInv, Explored
  <2>3. CASE j = at[k] /\ k = m
    <3>1. k \in 1..(Len(path) - 1)
      BY <1>4, <2>3
    <3>2. given[j][2] = path[m + 1]
      BY <2>1, <2>3, <3>1 DEF RegionInv, Descents
    <3> QED
      BY <1>7, <3>2
  <2> QED
    BY <2>1, <2>2, <2>3
<1>9. Descents'
  <2> SUFFICES ASSUME NEW k \in 1..(m - 1), at'[k] \in DOMAIN given
               PROVE  given[at'[k]][2] = path'[k + 1]
    BY <1>1, <1>5 DEF Descents
  <2>1. k \in 1..m /\ k + 1 \in 1..m /\ k \in 1..(Len(path) - 1)
    BY <1>4
  <2> QED
    BY <1>5, <1>6, <2>1 DEF RegionInv, Descents
<1> QED
  BY <1>2, <1>3, <1>8, <1>9 DEF RegionInv

LEMMA GiveUpInHand ==
  ASSUME RegionInv, GiveUp
  PROVE  RegionInv'
<1>1. Pairs' = Pairs /\ SearchTypeOK /\ pc = "search" /\ pc' = "pick" /\ given' = given
      /\ loops' = loops /\ cycles' = cycles
  BY DEF GiveUp, Pairs, RegionInv, IInv
<1>2. IInv'
  BY StepIInv DEF RegionInv, SearchNext
<1>3. NoSelfPairs' /\ DoneIsEmpty'
  BY <1>1 DEF RegionInv, NoSelfPairs, DoneIsEmpty
<1>4. path' = <<>> /\ Len(path') = 0 /\ DOMAIN path' = {}
  BY DEF GiveUp
<1>5. Explored' /\ Descents'
  BY <1>4 DEF Explored, Descents
<1>6. Hopeless(Pairs, path[1]) /\ path[1] \in Node
  <2>1. path # <<>> /\ Len(path) = 1
    BY <1>1 DEF SearchTypeOK, GiveUp
  <2>2. Hopeless(Pairs, path[Len(path)])
    BY <1>1, <2>1, ExhaustedIsHopeless DEF RegionInv, GiveUp
  <2> QED
    BY <1>1, <2>1, <2>2 DEF SearchTypeOK
<1>7. path[1] \notin Led(Pairs, path[1])
  <2>1. Pairs \in SUBSET (Node \X Node)
    BY <1>1 DEF Pairs, SearchTypeOK
  <2> QED
    BY <1>6, <2>1, NoHopeNoCircle
<1>8. InHand'
  BY <1>1, <1>7 DEF RegionInv, InHand, OnReported, GiveUp
<1> QED
  BY <1>2, <1>3, <1>5, <1>8 DEF RegionInv

LEMMA RegionInductive == SearchSpec => []RegionInv
<1>1. RegionInv /\ [SearchNext]_searchVars => RegionInv'
  <2> SUFFICES ASSUME RegionInv, [SearchNext]_searchVars PROVE RegionInv'
    OBVIOUS
  <2>1. CASE SearchReturn
    <3>1. IInv'
      BY <2>1, StepIInv DEF RegionInv, SearchNext
    <3>2. Pairs' = Pairs /\ NoSelfPairs'
      BY <2>1 DEF SearchReturn, Pairs, RegionInv, NoSelfPairs
    <3>3. Explored' /\ Descents'
      BY <2>1, <3>2 DEF SearchReturn, RegionInv, Explored, Tried, FirstMention, Descents
    <3>4. InHand' /\ DoneIsEmpty'
      BY <2>1, <3>2 DEF SearchReturn, RegionInv, InHand, OnReported, DoneIsEmpty
    <3> QED
      BY <3>1, <3>2, <3>3, <3>4 DEF RegionInv
  <2>2. CASE UNCHANGED searchVars
    <3>1. IInv'
      BY <2>2, StepIInv DEF RegionInv, SearchNext
    <3>2. Pairs' = Pairs /\ NoSelfPairs'
      BY <2>2 DEF searchVars, Pairs, RegionInv, NoSelfPairs
    <3>3. Explored' /\ Descents'
      BY <2>2, <3>2 DEF searchVars, RegionInv, Explored, Tried, FirstMention, Descents
    <3>4. InHand' /\ DoneIsEmpty'
      BY <2>2, <3>2 DEF searchVars, RegionInv, InHand, OnReported, DoneIsEmpty
    <3> QED
      BY <3>1, <3>2, <3>3, <3>4 DEF RegionInv
  <2> QED
    BY <2>1, <2>2, DetectInHand, PickRootInHand, DescendInHand, ReportInHand, BacktrackInHand,
       GiveUpInHand DEF SearchNext
<1> QED
  BY <1>1, RegionStarts, PTL DEF SearchSpec

(* For any number of nodes and any list of pairs: when find_cycles         *)
(* returns, it has named every self-loop and, for every node that reaches  *)
(* itself, a cycle that this node reaches and that reaches it.             *)
THEOREM RegionsAreReported == SearchSpec => []EveryRegionReported
<1>1. RegionInv => EveryRegionReported
  <2> SUFFICES ASSUME RegionInv, pc = "done" PROVE EveryRegionReported
    BY DEF EveryRegionReported
  <2>1. \A n \in loops : <<n>> \in cycles
    BY DEF RegionInv, InHand
  <2>2. ASSUME NEW n \in Node, Reaches(n, n)
        PROVE  \E c \in cycles : Len(c) > 1 /\ \E i \in DOMAIN c :
                 n = c[i] \/ (Reaches(n, c[i]) /\ Reaches(c[i], n))
    <3>1. n \in Led(Pairs, n)
      BY <2>2, ReachesIsLed DEF RegionInv, IInv
    <3>2. OnReported(n)
      BY <3>1 DEF RegionInv, InHand, DoneIsEmpty
    <3> QED
      BY <3>2 DEF OnReported
  <2> QED
    BY <2>1, <2>2 DEF EveryRegionReported
<1> QED
  BY <1>1, RegionInductive, PTL

(* Nodes that can be numbered so that every pair goes up have no cycle:    *)
(* the one with the greatest number on it would have a greater one after   *)
(* it.                                                                     *)
LEMMA NumberedHaveNoCycle ==
  ASSUME SearchTypeOK, GivenAcyclic, NEW c \in Seq(Node)
  PROVE  ~IsCycle(c)
<1> SUFFICES ASSUME IsCycle(c) PROVE FALSE
  OBVIOUS
<1>1. PICK number \in [Node -> Node] : \A p \in Pairs : number[p[1]] < number[p[2]]
  BY DEF GivenAcyclic
<1> DEFINE T == {number[c[i]] : i \in DOMAIN c}
<1>2. /\ Len(c) \in Nat /\ Len(c) # 0 /\ DOMAIN c = 1..Len(c)
      /\ \A i \in DOMAIN c : c[i] \in Node /\ number[c[i]] \in 0..NodeCount
  <2>1. Len(c) \in Nat /\ Len(c) # 0 /\ DOMAIN c = 1..Len(c) /\ \A i \in DOMAIN c : c[i] \in Node
    BY DEF IsCycle
  <2>2. \A n \in Node : number[n] \in 0..NodeCount
    BY CycleSearchAssumption DEF Node
  <2> QED
    BY <2>1, <2>2
<1>3. T \subseteq 0..NodeCount /\ T # {}
  BY <1>2
<1>4. PICK y \in T : \A z \in T : z <= y
  <2> HIDE DEF T
  <2> QED
    BY <1>3, GreatestNatural, CycleSearchAssumption
<1>5. PICK i \in DOMAIN c : y = number[c[i]]
  OBVIOUS
<1>6. \A k \in DOMAIN c : <<c[i], c[k]>> \notin Pairs
  <2> SUFFICES ASSUME NEW k \in DOMAIN c, <<c[i], c[k]>> \in Pairs PROVE FALSE
    OBVIOUS
  <2>1. number[c[i]] < number[c[k]]
    <3>1. \A p \in Pairs : number[p[1]] < number[p[2]]
      BY <1>1
    <3> QED
      BY <3>1
  <2>2. number[c[k]] <= y
    BY <1>4
  <2> QED
    BY <1>2, <1>5, <2>1, <2>2, CycleSearchAssumption
<1>7. CASE i = Len(c)
  BY <1>2, <1>6, <1>7 DEF IsCycle, GivenAcyclic
<1>8. CASE i # Len(c)
  <2>1. i \in 1..(Len(c) - 1) /\ i + 1 \in DOMAIN c
    BY <1>2, <1>8
  <2> QED
    BY <1>6, <2>1 DEF IsCycle
<1> QED
  BY <1>7, <1>8

(* "Empty when the subgraph is a DAG": at no moment has find_cycles        *)
(* reported anything of pairs that can be numbered.                        *)
DagSoFar == GivenAcyclic => cycles = {}

THEOREM DagsReportNothing == SearchSpec => []DagSoFar
<1>1. IInv => DagSoFar
  BY NumberedHaveNoCycle DEF IInv, SearchTypeOK, CyclesAreReal, DagSoFar
<1> QED
  BY <1>1, Inductive, PTL

-----------------------------------------------------------------------------
(***************************************************************************)
(* The close of a session.  NoTaskEscapes needs two facts that hold of the *)
(* whole history: no mark, of any document there is, lies beyond a task    *)
(* that no close has answered for; and a close under way knows all that    *)
(* lies before the end of its window.                                      *)
(***************************************************************************)
AllMarks == entry \cup {Boundary(h) : h \in handoffs}

MarksCover ==
  \A t \in filed \cup stamped, m \in AllMarks : t < m => t \in answered \cup excused

CloseCovers ==
  \A c \in Closer : closing[c] # NotClosing =>
    /\ closing[c] \in CloseRecord /\ closing[c].end < now
    /\ \A t \in filed \cup stamped : t < closing[c].end =>
         t \in closing[c].tasks \cup closing[c].unread \cup answered \cup excused

CloseInv == CloseTypeOK /\ MarksCover /\ CloseCovers

(* A set of naturals has a least member: < is well founded. *)
LEMMA NaturalsHaveALeast ==
  ASSUME NEW T, T \subseteq Nat, T # {}
  PROVE  \E y \in T : \A z \in T : ~(z < y)
<1> DEFINE R == OpToRel(<, Nat)
<1>1. IsWellFoundedOn(R, Nat)
  BY NatLessThanWellFounded
<1>2. PICK y \in T : \A z \in T : <<z, y>> \notin R
  <2> HIDE DEF R
  <2> QED
    BY <1>1, WFMin
<1>3. \A z \in T : ~(z < y)
  BY <1>2 DEF OpToRel
<1> QED
  BY <1>3

(* Max of a bounded set is one of its members, and the greatest. *)
LEMMA MaxIsReached ==
  ASSUME NEW S, NEW n \in Nat, S \subseteq 0..n, S # {}
  PROVE  Max(S) \in S /\ \A x \in S : x <= Max(S)
<1> DEFINE T == {k \in Nat : n - k \in S}
<1>1. \A x \in S : x \in Int /\ n - x \in Nat /\ n - (n - x) = x
  OBVIOUS
<1>2. T \subseteq Nat /\ T # {}
  BY <1>1
<1>3. PICK y \in T : \A z \in T : ~(z < y)
  <2> HIDE DEF T
  <2> QED
    BY <1>2, NaturalsHaveALeast
<1>4. \A x \in S : n - y >= x
  <2> SUFFICES ASSUME NEW x \in S PROVE n - y >= x
    OBVIOUS
  <2>1. n - x \in T
    BY <1>1
  <2> QED
    BY <2>1, <1>1, <1>3
<1> QED
  BY <1>3, <1>4 DEF Max

(* A day begins before what happens on it. *)
LEMMA DayBegins ==
  ASSUME CloseAssumption, NEW t \in Nat
  PROVE  DayOf(t) \in Nat /\ DayOf(t) <= t
<1> DEFINE S == {m \in Midnight : m <= t}
<1>1. S \subseteq 0..t /\ S # {}
  <2>1. 0 \in S
    BY DEF CloseAssumption
  <2>2. \A m \in S : m \in Nat /\ m <= t
    BY DEF CloseAssumption
  <2>3. \A m \in S : m \in 0..t
    BY <2>2
  <2> HIDE DEF S
  <2> QED
    BY <2>1, <2>3
<1>2. Max(S) \in S
  <2> HIDE DEF S
  <2> QED
    BY <1>1, MaxIsReached
<1> QED
  BY <1>1, <1>2 DEF DayOf

(* Every mark there is lies in the past. *)
LEMMA MarksArePast ==
  ASSUME CloseTypeOK
  PROVE  AllMarks \subseteq 0..(now - 1) /\ Marks \subseteq AllMarks
<1>1. \A h \in handoffs : Boundary(h) \in 0..(now - 1)
  BY DEF CloseTypeOK, Boundary
<1>2. entry \subseteq 0..(now - 1)
  BY DEF CloseTypeOK
<1> QED
  BY <1>1, <1>2 DEF AllMarks, Marks, Newest

(* What was past stays past. *)
LEMMA PastGrows ==
  ASSUME CloseAssumption, CloseTypeOK, Tick
  PROVE  /\ now \in Nat /\ now' = now + 1 /\ now' \in 1..LastTick /\ now \in 1..(now' - 1)
         /\ 1..(now - 1) \subseteq 1..(now' - 1) /\ 0..(now - 1) \subseteq 0..(now' - 1)
         /\ handoffs \subseteq [day : 0..(now' - 1), mtime : 1..(now' - 1)]
<1>1. /\ now \in Nat /\ now' = now + 1 /\ now' \in 1..LastTick /\ now \in 1..(now' - 1)
      /\ 1..(now - 1) \subseteq 1..(now' - 1) /\ 0..(now - 1) \subseteq 0..(now' - 1)
  BY DEF CloseTypeOK, Tick, CloseAssumption
<1>2. handoffs \subseteq [day : 0..(now' - 1), mtime : 1..(now' - 1)]
  <2> SUFFICES ASSUME NEW h \in handoffs
               PROVE  h \in [day : 0..(now' - 1), mtime : 1..(now' - 1)]
    OBVIOUS
  <2>1. h \in [day : 0..(now - 1), mtime : 1..(now - 1)]
    BY DEF CloseTypeOK
  <2> QED
    BY <1>1, <2>1
<1> QED
  BY <1>1, <1>2

-----------------------------------------------------------------------------
LEMMA CloseStarts == ASSUME CloseAssumption PROVE CloseInit => CloseInv
BY DEF CloseAssumption, CloseInit, CloseInv, CloseTypeOK, MarksCover, CloseCovers, AllMarks

(* What is stamped is later than every mark and every close. *)
LEMMA StampKeeps ==
  ASSUME CloseAssumption, CloseInv, Stamp
  PROVE  CloseInv'
<1>1. CloseTypeOK'
  BY DEF CloseInv, CloseTypeOK, Stamp, Tick, CloseAssumption
<1>2. AllMarks' = AllMarks
  BY DEF Stamp, AllMarks, Boundary
<1>3. MarksCover'
  BY <1>2, MarksArePast DEF CloseInv, MarksCover, Stamp, Tick, CloseTypeOK
<1>4. CloseCovers'
  BY DEF CloseInv, CloseCovers, Stamp, Tick, CloseTypeOK, CloseRecord
<1> QED
  BY <1>1, <1>3, <1>4 DEF CloseInv

(* What touches no task, no mark and no close. *)
LEMMA AsideKeeps ==
  ASSUME CloseAssumption, CloseInv,
         \/ WriteNote \/ TimePasses \/ UNCHANGED closeVars
         \/ \E t \in stamped : AppendTask(t)
         \/ \E c \in Closer : GiveUpClose(c)
  PROVE  CloseInv'
<1>1. CloseTypeOK'
  <2>1. CASE WriteNote
    BY <2>1, PastGrows DEF CloseInv, CloseTypeOK, WriteNote
  <2>2. CASE TimePasses
    BY <2>2, PastGrows DEF CloseInv, CloseTypeOK, TimePasses
  <2>3. CASE UNCHANGED closeVars
    BY <2>3 DEF CloseInv, CloseTypeOK, closeVars
  <2>4. CASE \E t \in stamped : AppendTask(t)
    BY <2>4 DEF CloseInv, CloseTypeOK, AppendTask
  <2>5. CASE \E c \in Closer : GiveUpClose(c)
    BY <2>5 DEF CloseInv, CloseTypeOK, GiveUpClose
  <2> QED
    BY <2>1, <2>2, <2>3, <2>4, <2>5
<1>2. /\ filed' \cup stamped' = filed \cup stamped /\ now' >= now /\ now \in Nat /\ now' \in Nat
      /\ UNCHANGED <<entry, handoffs, answered, excused>>
      /\ \A c \in Closer : closing'[c] # NotClosing => closing'[c] = closing[c]
  BY DEF WriteNote, TimePasses, AppendTask, GiveUpClose, Tick, closeVars, CloseInv, CloseTypeOK
<1>3. AllMarks' = AllMarks
  BY <1>2 DEF AllMarks, Boundary
<1>4. MarksCover'
  BY <1>2, <1>3 DEF CloseInv, MarksCover
<1>5. CloseCovers'
  BY <1>2 DEF CloseInv, CloseCovers, CloseRecord
<1> QED
  BY <1>1, <1>4, <1>5 DEF CloseInv

(* A notebook entry goes over everything there is. *)
LEMMA EntryKeeps ==
  ASSUME CloseAssumption, CloseInv, NotebookEntry
  PROVE  CloseInv'
<1>1. CloseTypeOK'
  BY DEF CloseInv, CloseTypeOK, NotebookEntry, Tick, CloseAssumption
<1>2. MarksCover'
  BY DEF MarksCover, NotebookEntry
<1>3. CloseCovers'
  BY DEF CloseInv, CloseCovers, NotebookEntry, Tick, CloseTypeOK, CloseRecord
<1> QED
  BY <1>1, <1>2, <1>3 DEF CloseInv

(* A checkout on another day takes no mark further than it was: a document *)
(* of its own day counts from the start of it.                             *)
LEMMA CheckoutKeeps ==
  ASSUME CloseAssumption, CloseInv, Checkout
  PROVE  CloseInv'
<1>0. now \in Nat /\ now' = now + 1 /\ handoffs' = {[h EXCEPT !.mtime = now] : h \in handoffs}
  BY DEF Checkout, Tick, CloseInv, CloseTypeOK, CloseAssumption
<1>1. CloseTypeOK'
  <2>1. handoffs' \subseteq [day : 0..(now' - 1), mtime : 1..(now' - 1)]
    BY <1>0 DEF CloseInv, CloseTypeOK
  <2> QED
    BY <1>0, <2>1 DEF CloseInv, CloseTypeOK, Checkout, Tick, CloseAssumption
<1>2. MarksCover'
  <2>1. CASE \E h \in handoffs : h.day = DayOf(now)
    BY <2>1 DEF Checkout, MarksCover
  <2>2. CASE ~\E h \in handoffs : h.day = DayOf(now)
    <3>1. \A h \in handoffs : Boundary([h EXCEPT !.mtime = now]) = h.day
      BY <2>2 DEF Boundary, CloseInv, CloseTypeOK
    <3>2. \A h \in handoffs : h.day <= Boundary(h)
      <4> SUFFICES ASSUME NEW h \in handoffs PROVE h.day <= Boundary(h)
        OBVIOUS
      <4>1. h.day \in Nat /\ h.mtime \in Nat
        BY DEF CloseInv, CloseTypeOK
      <4> QED
        BY <4>1, DayBegins DEF Boundary
    <3>3. ASSUME NEW t \in filed \cup stamped, NEW m \in AllMarks', t < m
          PROVE  \E k \in AllMarks : t < k
      <4>1. CASE m \in entry
        BY <4>1, <3>3 DEF AllMarks
      <4>2. CASE m \notin entry
        <5>1. PICK g \in handoffs' : m = Boundary(g)
          BY <4>2 DEF AllMarks, Checkout, Boundary
        <5>2. PICK h \in handoffs : g = [h EXCEPT !.mtime = now]
          BY <5>1, <1>0
        <5>3. m = h.day /\ h.day <= Boundary(h) /\ Boundary(h) \in AllMarks
          BY <5>1, <5>2, <3>1, <3>2 DEF AllMarks
        <5>4. t \in Nat /\ m \in Nat /\ Boundary(h) \in Nat
          BY <5>3, MarksArePast DEF CloseInv, CloseTypeOK
        <5> QED
          BY <5>3, <5>4, <3>3
      <4> QED
        BY <4>1, <4>2
    <3>4. filed' = filed /\ stamped' = stamped /\ answered' = answered /\ excused \subseteq excused'
      BY DEF Checkout
    <3> QED
      BY <3>3, <3>4 DEF CloseInv, MarksCover
  <2> QED
    BY <2>1, <2>2
<1>3. CloseCovers'
  BY <1>0 DEF CloseInv, CloseCovers, Checkout, CloseRecord
<1> QED
  BY <1>1, <1>2, <1>3 DEF CloseInv

(* A close that begins sees every task before its end, but for those that  *)
(* an older mark answers for or that it cannot read.                       *)
LEMMA BuildKeeps ==
  ASSUME CloseAssumption, CloseInv, NEW c \in Closer, Build(c)
  PROVE  CloseInv'
<1> DEFINE seen == {t \in filed : InWindow(t, now)}
           noted == \E n \in notes : InWindow(n, now)
           unread == stamped \cup {t \in filed : Marks = {} /\ t < Start(now)}
           record == [end |-> now, tasks |-> IF noted THEN seen ELSE {}, unread |-> unread]
<1>1. now \in Nat /\ filed \subseteq 1..(now - 1) /\ stamped \subseteq Nat
  BY DEF CloseInv, CloseTypeOK
<1>2. closing' = [closing EXCEPT ![c] = record]
  BY DEF Build
<1>3. /\ seen = {} \/ noted
      /\ now' = now + 1
      /\ UNCHANGED <<stamped, filed, notes, entry, handoffs, answered, excused>>
  BY DEF Build, Tick
<1>4. record \in CloseRecord
  <2>1. \A t \in filed : t \in Nat
    BY <1>1
  <2>2. seen \subseteq Nat /\ unread \subseteq Nat
    BY <1>1, <2>1
  <2> QED
    BY <1>1, <2>2 DEF CloseRecord
<1>5. ASSUME NEW t \in filed
      PROVE  t \in record.tasks \cup record.unread \cup answered \cup excused
  <2>1. t < now /\ t \in Nat
    BY <1>1
  <2>2. CASE Start(now) <= t
    <3>1. t \in seen
      BY <2>1, <2>2 DEF InWindow
    <3> QED
      BY <3>1, <1>3
  <2>3. CASE ~(Start(now) <= t) /\ Marks = {}
    <3>1. Start(now) \in Nat
      BY <2>3, <1>1 DEF Start, CloseAssumption
    <3> QED
      BY <2>1, <2>3, <3>1
  <2>4. CASE ~(Start(now) <= t) /\ Marks # {}
    <3>1. Marks \subseteq 0..(now - 1) /\ now - 1 \in Nat /\ Marks \subseteq AllMarks
      BY MarksArePast DEF CloseInv, CloseTypeOK
    <3>2. Max(Marks) \in Marks
      BY <2>4, <3>1, MaxIsReached
    <3>3. \A m \in Marks : m \in Nat /\ m < now /\ m \in AllMarks
      BY <3>1, <1>1
    <3>4. Max(Marks) \in Nat /\ Max(Marks) < now /\ Max(Marks) \in AllMarks
      BY <3>3, <3>2
    <3>5. Start(now) = Max(Marks)
      BY <2>4, <3>4 DEF Start
    <3>6. t < Max(Marks)
      BY <2>1, <2>4, <3>4, <3>5
    <3> QED
      BY <3>4, <3>6 DEF CloseInv, MarksCover
  <2> QED
    BY <2>2, <2>3, <2>4
<1>6. \A t \in stamped : t \in record.unread
  OBVIOUS
<1> HIDE DEF seen, noted, unread, record
<1>7. record.end = now
  BY DEF record
<1>8. closing \in [Closer -> {NotClosing} \cup CloseRecord]
  BY DEF CloseInv, CloseTypeOK
<1>9. CloseTypeOK'
  <2>1. closing' \in [Closer -> {NotClosing} \cup CloseRecord]
    BY <1>4, <1>2, <1>8
  <2> QED
    BY <1>3, <2>1, PastGrows DEF CloseInv, CloseTypeOK, Build
<1>10. \A k \in Closer : closing'[k] = IF k = c THEN record ELSE closing[k]
  BY <1>2, <1>8
<1>11. MarksCover'
  BY <1>3 DEF CloseInv, MarksCover, AllMarks, Boundary
<1>12. CloseCovers'
  <2> SUFFICES ASSUME NEW k \in Closer, closing'[k] # NotClosing
               PROVE  /\ closing'[k] \in CloseRecord /\ closing'[k].end < now'
                      /\ \A t \in filed \cup stamped : t < closing'[k].end =>
                           t \in closing'[k].tasks \cup closing'[k].unread \cup answered \cup excused
    BY <1>3 DEF CloseCovers
  <2>1. CASE k = c
    <3>1. closing'[k] = record
      BY <2>1, <1>10
    <3> QED
      BY <3>1, <1>1, <1>3, <1>4, <1>5, <1>6, <1>7
  <2>2. CASE k # c
    <3>1. closing'[k] = closing[k]
      BY <2>2, <1>10
    <3>2. closing[k] \in CloseRecord /\ closing[k].end < now
      BY <3>1 DEF CloseInv, CloseCovers
    <3> QED
      BY <3>1, <3>2, <1>1, <1>3 DEF CloseInv, CloseCovers, CloseRecord
  <2> QED
    BY <2>1, <2>2
<1> QED
  BY <1>9, <1>11, <1>12 DEF CloseInv

(* A document, once written, leaves no task there is unanswered for.       *)
LEMMA WriteHandoffKeeps ==
  ASSUME CloseAssumption, CloseInv, NEW c \in Closer, WriteHandoff(c)
  PROVE  CloseInv'
<1>0. now \in Nat /\ now' = now + 1 /\ now' \in 1..LastTick
  BY DEF CloseInv, CloseTypeOK, WriteHandoff, Tick, CloseAssumption
<1>1. closing[c] \in CloseRecord /\ closing[c].end < now
  BY DEF CloseInv, CloseCovers, WriteHandoff
<1>2. closing[c].end \in Nat /\ closing[c].tasks \subseteq Nat /\ closing[c].unread \subseteq Nat
  BY <1>1 DEF CloseRecord
<1>3. DayOf(closing[c].end) \in 0..now
  BY <1>0, <1>1, <1>2, DayBegins
<1>4. CloseTypeOK'
  <2>1. handoffs' \subseteq [day : 0..(now' - 1), mtime : 1..(now' - 1)]
    <3>1. handoffs' \subseteq handoffs \cup {[day |-> DayOf(closing[c].end), mtime |-> now]}
      BY DEF WriteHandoff
    <3> QED
      BY <1>0, <1>3, <3>1 DEF CloseInv, CloseTypeOK
  <2>2. answered' \subseteq Nat /\ excused' \subseteq Nat
    <3>1. filed \cup stamped \subseteq Nat
      BY <1>0 DEF CloseInv, CloseTypeOK
    <3> QED
      BY <1>2, <3>1 DEF WriteHandoff, CloseInv, CloseTypeOK
  <2>3. closing' \in [Closer -> {NotClosing} \cup CloseRecord]
    BY DEF WriteHandoff, CloseInv, CloseTypeOK
  <2> QED
    BY <1>0, <2>1, <2>2, <2>3 DEF WriteHandoff, CloseInv, CloseTypeOK
<1>5. \A t \in filed \cup stamped : t \in answered' \cup excused'
  <2> SUFFICES ASSUME NEW t \in filed \cup stamped PROVE t \in answered' \cup excused'
    OBVIOUS
  <2>1. t \in Nat
    BY DEF CloseInv, CloseTypeOK
  <2>2. CASE t >= closing[c].end
    BY <2>2 DEF WriteHandoff
  <2>3. CASE t < closing[c].end
    BY <2>3 DEF WriteHandoff, CloseInv, CloseCovers
  <2> QED
    BY <2>1, <2>2, <2>3, <1>2
<1>6. MarksCover'
  BY <1>5 DEF WriteHandoff, MarksCover
<1>7. CloseCovers'
  <2>1. \A k \in Closer : closing'[k] # NotClosing => closing'[k] = closing[k]
    BY DEF WriteHandoff, CloseInv, CloseTypeOK
  <2>2. \A k \in Closer : closing'[k] # NotClosing =>
          closing'[k] \in CloseRecord /\ closing'[k].end < now'
    BY <1>0, <2>1 DEF CloseInv, CloseCovers, CloseRecord
  <2>3. filed' = filed /\ stamped' = stamped
    BY DEF WriteHandoff
  <2> QED
    BY <1>5, <2>2, <2>3 DEF CloseCovers
<1> QED
  BY <1>4, <1>6, <1>7 DEF CloseInv

LEMMA CloseInductive ==
  ASSUME CloseAssumption, CloseInv, [CloseNext]_closeVars
  PROVE  CloseInv'
<1>1. CASE Stamp
  BY <1>1, StampKeeps
<1>2. CASE NotebookEntry
  BY <1>2, EntryKeeps
<1>3. CASE Checkout
  BY <1>3, CheckoutKeeps
<1>4. ASSUME NEW c \in Closer, Build(c) PROVE CloseInv'
  BY <1>4, BuildKeeps
<1>5. ASSUME NEW c \in Closer, WriteHandoff(c) PROVE CloseInv'
  BY <1>5, WriteHandoffKeeps
<1> QED
  BY <1>1, <1>2, <1>3, <1>4, <1>5, AsideKeeps DEF CloseNext

(* AD-030-R9, for any number of sessions, days and documents: a task that  *)
(* lies before every window to come was in the window of a close that      *)
(* found a note, or something named went over it.                          *)
THEOREM NoTaskEscapes == CloseSpec => []EscapesHaveACause
<1>1. CloseInit => CloseInv
  BY CloseStarts, CloseAssumption
<1>2. CloseInv /\ [CloseNext]_closeVars => CloseInv'
  BY CloseInductive, CloseAssumption
<1>3. CloseInv => EscapesHaveACause
  BY MarksArePast DEF CloseInv, MarksCover, EscapesHaveACause
<1> QED
  BY <1>1, <1>2, <1>3, PTL DEF CloseSpec

-----------------------------------------------------------------------------
(***************************************************************************)
(* The precedence commands.  What they show is computed from what they     *)
(* were asked, so the whole weight is on the algorithms.                   *)
(***************************************************************************)

(* What the precedence commands were asked, and what they showed. *)
ViewInv ==
  /\ pairs \in SUBSET (Task \X Task)
  /\ states \in [Task -> TaskStates]
  /\ external \in SUBSET Task
  /\ listed => /\ order = TopologicalOrder(pairs, Task, CreationRank)
               /\ ready = ByRank(ShownReady, CreationRank)

LEMMA ViewInductive == Spec => []ViewInv
<1>1. Init => ViewInv
  BY DEF Init, ViewInv
<1>2. ViewInv /\ [Next]_vars => ViewInv'
  BY DEF ViewInv, Next, View, vars, ShownReady
<1> QED
  BY <1>1, <1>2, PTL DEF Spec

(* The tasks are finitely many, and created one after the other. *)
LEMMA TaskFacts ==
  /\ IsFiniteSet(Task) /\ Cardinality(Task) = N /\ N \in Nat
  /\ \A nodes \in SUBSET Task : Ranked(nodes, CreationRank)
<1>1. IsFiniteSet(Task) /\ Cardinality(Task) = N /\ N \in Nat
  BY PrecedenceViewAssumption, FS_Interval DEF Task
<1>2. ASSUME NEW nodes \in SUBSET Task PROVE Ranked(nodes, CreationRank)
  <2>1. IsFiniteSet(nodes)
    BY <1>1, FS_Subset
  <2>2. \A n \in nodes : CreationRank[n] = n /\ n \in Nat
    BY <1>1 DEF CreationRank, Task
  <2> QED
    BY <2>1, <2>2 DEF Ranked
<1> QED
  BY <1>1, <1>2

(* The tasks can be numbered upwards along the pairs exactly when no pair  *)
(* is closed by a path back: number each by how few it reaches.            *)
LEMMA AcyclicIsNoWayBack ==
  ASSUME NEW set \in SUBSET (Task \X Task)
  PROVE  Acyclic(set) <=> NoWayBack(set)
<1>1. Finite(set) /\ Endpoints(set) \subseteq Task
  BY TaskFacts, FewPairs
<1>2. \A p \in set : p[1] \in Task /\ p[2] \in Task
  OBVIOUS
<1>3. ASSUME Acyclic(set) PROVE NoWayBack(set)
  <2>1. PICK number \in [Task -> Task] : \A p \in set : number[p[1]] < number[p[2]]
    BY <1>3 DEF Acyclic
  <2>2. \A n \in Task : number[n] \in Nat
    BY <2>1, TaskFacts DEF Task
  <2>3. ASSUME NEW p \in set PROVE p[1] \notin Reached(set, p[2])
    <3> DEFINE closed == {n \in Task : number[p[2]] <= number[n]}
    <3>1. p[2] \in closed /\ p[1] \notin closed
      BY <1>2, <2>1, <2>2
    <3>2. ASSUME NEW n \in closed, NEW m \in Successors(set, n) PROVE m \in closed
      <4>1. PICK q \in set : q[1] = n /\ q[2] = m
        BY DEF Successors
      <4> QED
        BY <1>2, <2>1, <2>2, <4>1
    <3> HIDE DEF closed
    <3>3. Reached(set, p[2]) \subseteq closed
      BY <1>1, <3>1, <3>2, ReachedIsLeast
    <3> QED
      BY <3>1, <3>3
  <2> QED
    BY <2>3 DEF NoWayBack
<1>4. ASSUME NoWayBack(set) PROVE Acyclic(set)
  <2> DEFINE Size(n) == Cardinality(Reached(set, n))
             number == [n \in Task |-> (N + 1) - Size(n)]
  <2>1. ASSUME NEW n \in Task
        PROVE  /\ IsFiniteSet(Reached(set, n)) /\ Size(n) \in 1..N
    <3>1. \A m \in Task : Successors(set, m) \subseteq Task
      BY <1>1 DEF Successors, Endpoints
    <3>2. Reached(set, n) \in SUBSET Task /\ n \in Reached(set, n)
      BY <1>1, <3>1, ReachedIsLeast, ReachedIsClosed
    <3>3. IsFiniteSet(Reached(set, n)) /\ Size(n) <= N /\ Size(n) \in Nat
      BY <3>2, TaskFacts, FS_Subset, FS_CardinalityType
    <3>4. Size(n) # 0
      BY <3>2, <3>3, FS_EmptySet
    <3> QED
      BY <3>3, <3>4, TaskFacts
  <2>2. number \in [Task -> Task]
    <3>1. \A n \in Task : (N + 1) - Size(n) \in Task
      <4> HIDE DEF Size
      <4> QED
        BY <2>1, TaskFacts DEF Task
    <3> QED
      BY <3>1
  <2>3. ASSUME NEW p \in set PROVE number[p[1]] < number[p[2]]
    <3>1. p[2] \in Reached(set, p[1]) /\ p[1] \in Reached(set, p[1])
      BY <1>1, PairIsStep, ReachedIsClosed
    <3>2. Reached(set, p[2]) \in SUBSET Reached(set, p[1])
      BY <1>1, <3>1, ReachedOn
    <3>3. p[1] \notin Reached(set, p[2])
      BY <1>4 DEF NoWayBack
    <3>4. /\ IsFiniteSet(Reached(set, p[1])) /\ Size(p[1]) \in 1..N /\ Size(p[2]) \in 1..N
      BY <1>2, <2>1
    <3>5. Size(p[2]) <= Size(p[1]) /\ Size(p[2]) # Size(p[1])
      BY <3>1, <3>2, <3>3, <3>4, FS_Subset
    <3>6. Size(p[2]) < Size(p[1])
      <4> HIDE DEF Size
      <4> QED
        BY <3>4, <3>5, TaskFacts
    <3>7. number[p[1]] = (N + 1) - Size(p[1]) /\ number[p[2]] = (N + 1) - Size(p[2])
      BY <1>2
    <3> HIDE DEF Size, number
    <3> QED
      BY <3>4, <3>6, <3>7, TaskFacts
  <2> QED
    BY <2>2, <2>3 DEF Acyclic
<1> QED
  BY <1>3, <1>4

-----------------------------------------------------------------------------
(* add_chain refuses a link exactly when it would close a cycle; one that  *)
(* is there already is skipped.                                            *)
LEMMA LinkIsExact ==
  ASSUME NEW set \in SUBSET (Task \X Task), NoWayBack(set), NEW t \in Task, NEW u \in Task
  PROVE  LinkRefused(set, <<t, u>>) <=> ~NoWayBack(set \cup {<<t, u>>})
<1>1. set \cup {<<t, u>>} \in SUBSET (Task \X Task)
  OBVIOUS
<1>2. Finite(set) /\ Finite(set \cup {<<t, u>>})
  BY <1>1, TaskFacts, FewPairs
<1>3. CASE <<t, u>> \in set
  <2>1. set \cup {<<t, u>>} = set
    BY <1>3
  <2> QED
    BY <1>3, <2>1 DEF LinkRefused
<1>4. CASE <<t, u>> \notin set
  BY <1>2, <1>4, CheckIsExact DEF LinkRefused
<1> QED
  BY <1>3, <1>4

(* The write check refuses exactly what would close a cycle. *)
THEOREM RefusalsAreExact == Spec => []RefusalIsExact
<1>1. ViewInv => RefusalIsExact
  <2> SUFFICES ASSUME ViewInv, Acyclic(pairs)
               PROVE  /\ \A t, u \in Task :
                           CycleIfAdded(pairs, t, u) <=> ~Acyclic(pairs \cup {<<t, u>>})
                      /\ \A t, u, v \in Task :
                           ChainRefused(pairs, t, u, v)
                             <=> ~Acyclic(pairs \cup {<<t, u>>, <<u, v>>})
    BY DEF RefusalIsExact
  <2>1. pairs \in SUBSET (Task \X Task)
    BY DEF ViewInv
  <2>2. NoWayBack(pairs) /\ Finite(pairs)
    BY <2>1, AcyclicIsNoWayBack, TaskFacts, FewPairs
  <2>3. ASSUME NEW t \in Task, NEW u \in Task
        PROVE  CycleIfAdded(pairs, t, u) <=> ~Acyclic(pairs \cup {<<t, u>>})
    <3>1. pairs \cup {<<t, u>>} \in SUBSET (Task \X Task)
      BY <2>1
    <3>2. Finite(pairs \cup {<<t, u>>})
      BY <3>1, TaskFacts, FewPairs
    <3>3. CycleIfAdded(pairs, t, u) <=> ~NoWayBack(pairs \cup {<<t, u>>})
      BY <2>2, <3>2, CheckIsExact
    <3> QED
      BY <3>1, <3>3, AcyclicIsNoWayBack
  <2>4. ASSUME NEW t \in Task, NEW u \in Task, NEW v \in Task
        PROVE  ChainRefused(pairs, t, u, v) <=> ~Acyclic(pairs \cup {<<t, u>>, <<u, v>>})
    <3> DEFINE one == pairs \cup {<<t, u>>}
               both == pairs \cup {<<t, u>>, <<u, v>>}
    <3>1. /\ one \in SUBSET (Task \X Task) /\ both \in SUBSET (Task \X Task)
          /\ one \subseteq both /\ both = one \cup {<<u, v>>}
      BY <2>1
    <3>2. ChainRefused(pairs, t, u, v) <=>
            LinkRefused(pairs, <<t, u>>) \/ LinkRefused(one, <<u, v>>)
      BY DEF ChainRefused
    <3>3. LinkRefused(pairs, <<t, u>>) <=> ~NoWayBack(one)
      BY <2>1, <2>2, LinkIsExact
    <3> HIDE DEF one, both
    <3>4. Finite(one) /\ Finite(both)
      BY <3>1, TaskFacts, FewPairs
    <3>5. CASE ~NoWayBack(one)
      <4>1. ~NoWayBack(both)
        BY <3>1, <3>4, <3>5, FewerNoWayBack
      <4>2. ~Acyclic(both)
        BY <3>1, <4>1, AcyclicIsNoWayBack
      <4> QED
        BY <3>2, <3>3, <3>5, <4>2 DEF both
    <3>6. CASE NoWayBack(one)
      <4>1. LinkRefused(one, <<u, v>>) <=> ~NoWayBack(both)
        BY <3>1, <3>6, LinkIsExact
      <4>2. Acyclic(both) <=> NoWayBack(both)
        BY <3>1, AcyclicIsNoWayBack
      <4> QED
        BY <3>2, <3>3, <3>6, <4>1, <4>2 DEF both
    <3> QED
      BY <3>5, <3>6
  <2> QED
    BY <2>3, <2>4
<1> QED
  BY <1>1, ViewInductive, PTL

(* topological_order lists every task once, predecessors first. *)
THEOREM OrdersRespectPairs == Spec => []OrderRespectsPairs
<1>1. ViewInv => OrderRespectsPairs
  <2> SUFFICES ASSUME ViewInv, listed
               PROVE  /\ Len(order) = N /\ ToSet(order) = Task
                      /\ \A i, j \in DOMAIN order :
                           /\ <<order[i], order[j]>> \in pairs
                           /\ order[i] # order[j] /\ ~BehindCycle(order[j])
                           => i < j
    BY DEF OrderRespectsPairs
  <2>1. pairs \in SUBSET (Task \X Task) /\ order = TopologicalOrder(pairs, Task, CreationRank)
    BY DEF ViewInv
  <2>2. Ranked(Task, CreationRank) /\ Cardinality(Task) = N
    BY TaskFacts
  <2>3. /\ order \in Seq(Task) /\ Len(order) = Cardinality(Task) /\ ToSet(order) = Task
        /\ \A i, j \in 1..Len(order) :
             /\ <<order[i], order[j]>> \in pairs /\ order[i] # order[j]
             /\ ~\E c \in OnCycle(pairs) : HasPath(pairs, c, order[j])
             => i < j
    BY <2>1, <2>2, TopologicalOrderIsAll, Zenon
  <2>4. DOMAIN order = 1..Len(order)
    BY <2>3
  <2> QED
    BY <2>2, <2>3, <2>4 DEF BehindCycle
<1> QED
  BY <1>1, ViewInductive, PTL

(* Work never stalls without a reason that can be shown. *)
THEOREM StallsHaveACause == Spec => []StallHasACause
<1>1. ViewInv => StallHasACause
  <2> SUFFICES ASSUME ViewInv, listed, ready = <<>>, Acyclic(pairs),
                      NEW t \in Task, states[t] \in OpenStates
               PROVE  \E u \in Task :
                        /\ HasPath(pairs, u, t)
                        /\ \/ states[u] \in OpenStates /\ u \in external
                           \/ states[u] = "rejected"
    BY DEF StallHasACause
  <2>1. /\ pairs \in SUBSET (Task \X Task) /\ states \in [Task -> TaskStates]
        /\ ready = ByRank(ShownReady, CreationRank)
    BY DEF ViewInv
  <2>2. Finite(pairs)
    BY <2>1, TaskFacts, FewPairs
  <2>3. ShownReady = {}
    <3>1. Ranked(ShownReady, CreationRank)
      BY TaskFacts DEF ShownReady
    <3>2. ToSet(ready) = ShownReady
      BY <2>1, <3>1, ByRankIsAll
    <3> QED
      BY <3>2 DEF ToSet
  <2>4. PICK number \in [Task -> Task] : \A p \in pairs : number[p[1]] < number[p[2]]
    BY DEF Acyclic
  <2> DEFINE A == {u \in Task : states[u] \in OpenStates /\ t \in Reached(pairs, u)}
             T == {number[u] : u \in A}
  <2>5. t \in A
    BY <2>2, ReachedIsClosed
  <2>6. T \subseteq Nat /\ T # {}
    BY <2>4, <2>5, TaskFacts DEF Task
  <2>7. PICK y \in T : \A z \in T : y <= z
    <3> HIDE DEF T
    <3> QED
      BY <2>6, LeastNatural
  <2>8. PICK u \in A : \A v \in A : number[u] <= number[v]
    BY <2>7
  <2>9. CASE u \in external
    BY <2>9 DEF HasPath
  <2>10. CASE u \notin external
    <3>1. Unsatisfied(pairs, states, u) # {}
      BY <2>3, <2>10 DEF ShownReady, IsReady
    <3>2. PICK p \in pairs : p[2] = u /\ states[p[1]] \notin Satisfied
      BY <3>1 DEF Unsatisfied, Predecessors
    <3>3. p[1] \in Task /\ p[2] \in Task
      BY <2>1
    <3>4. t \in Reached(pairs, p[1])
      <4>1. u \in Reached(pairs, p[1])
        BY <2>2, <3>2, PairIsStep, ReachedIsClosed
      <4> QED
        BY <2>2, <4>1, ReachedOn
    <3>5. p[1] \notin A
      <4>1. number[p[1]] < number[u] /\ number[p[1]] \in Nat /\ number[u] \in Nat
        <5>1. number[p[1]] < number[u]
          BY <2>4, <3>2
        <5>2. number[p[1]] \in Task /\ number[u] \in Task
          BY <2>4, <3>2, <3>3
        <5>3. \A n \in Task : n \in Nat
          BY TaskFacts DEF Task
        <5> QED
          BY <5>1, <5>2, <5>3
      <4> QED
        BY <2>8, <4>1
    <3>6. states[p[1]] = "rejected"
      <4>1. states[p[1]] \in OpenStates \cup Satisfied \cup {"rejected"}
        BY <2>1, <3>3, PrecedenceViewAssumption
      <4> QED
        BY <3>2, <3>3, <3>4, <3>5, <4>1
    <3> QED
      BY <3>3, <3>4, <3>6 DEF HasPath
  <2> QED
    BY <2>9, <2>10
<1> QED
  BY <1>1, ViewInductive, PTL

-----------------------------------------------------------------------------
(***************************************************************************)
(* The staleness walk.  StaleReaches speaks of the walk's end; during it,  *)
(* an artifact that cites a stale one and is still verified is among those *)
(* that some call under way read as verified and has yet to look at.       *)
(***************************************************************************)
StaleTypeOK ==
  /\ cites \subseteq Artifact \X Artifact
  /\ status \in [Artifact -> Status]
  /\ frames \in Seq(SUBSET (Artifact \X Status))
  /\ walked \subseteq Artifact
  /\ ~begun => frames = <<>> /\ walked = {}

Awaited(a) == \E i \in DOMAIN frames : <<a, "verified">> \in frames[i]

WalkCovers ==
  ~cut => \A p \in cites : p[2] \in walked =>
            \/ status[p[1]] # "verified" \/ p[1] \in disturbed \/ Awaited(p[1])

StaleInv == StaleTypeOK /\ WalkCovers

(* A call that begins: what it read is what the graph says. *)
LEMMA CitersAreRead ==
  ASSUME NEW a \in Artifact, NEW current \in [Artifact -> Status]
  PROVE  /\ Citers(a, current) \in SUBSET (Artifact \X Status)
         /\ \A p \in cites : p \in Artifact \X Artifact /\ p[2] = a =>
              <<p[1], current[p[1]]>> \in Citers(a, current)
<1>0. Citers(a, current) \in SUBSET (Artifact \X Status)
  <2> SUFFICES ASSUME NEW x \in Citers(a, current)
               PROVE  x \in Artifact \X Status
    OBVIOUS
  <2>1. PICK d \in Artifact : x = <<d, current[d]>>
    BY DEF Citers
  <2>2. current[d] \in Status
    OBVIOUS
  <2> QED
    BY <2>1, <2>2
<1> SUFFICES ASSUME NEW p \in cites, p \in Artifact \X Artifact, p[2] = a
             PROVE  <<p[1], current[p[1]]>> \in Citers(a, current)
  BY <1>0
<1>1. p = <<p[1], a>> /\ p[1] \in Artifact
  OBVIOUS
<1> QED
  BY <1>1 DEF Citers

(* Frames on top of the remaining ones: the places of each. *)
LEMMA FrameOnTop ==
  ASSUME NEW F \in Seq(SUBSET (Artifact \X Status)),
         NEW C \in SUBSET (Artifact \X Status)
  PROVE  LET G == <<C>> \o F IN
           /\ G \in Seq(SUBSET (Artifact \X Status))
           /\ 1 \in DOMAIN G /\ G[1] = C
           /\ \A i \in DOMAIN F : i + 1 \in DOMAIN G /\ G[i + 1] = F[i]
OBVIOUS

(* The first of the calls under way looks at one of its citers. *)
LEMMA FrameLooks ==
  ASSUME NEW F \in Seq(SUBSET (Artifact \X Status)), F # <<>>, NEW r
  PROVE  LET G == <<Head(F) \ {r}>> \o Tail(F) IN
           /\ G \in Seq(SUBSET (Artifact \X Status))
           /\ \A i \in DOMAIN F : i \in DOMAIN G
           /\ \A i \in DOMAIN F : \A x \in F[i] : x # r => x \in G[i]
<1> DEFINE G == <<Head(F) \ {r}>> \o Tail(F)
<1>1. Head(F) = F[1] /\ Head(F) \in SUBSET (Artifact \X Status)
  OBVIOUS
<1>2. /\ Tail(F) \in Seq(SUBSET (Artifact \X Status)) /\ Len(Tail(F)) = Len(F) - 1
      /\ \A i \in 1..Len(Tail(F)) : Tail(F)[i] = F[i + 1]
  OBVIOUS
<1>3. Len(F) \in Nat /\ Len(F) # 0 /\ DOMAIN F = 1..Len(F)
  OBVIOUS
<1>4. /\ G \in Seq(SUBSET (Artifact \X Status)) /\ Len(G) = Len(F) /\ DOMAIN G = 1..Len(F)
      /\ G[1] = Head(F) \ {r} /\ \A i \in 2..Len(F) : G[i] = Tail(F)[i - 1]
  BY <1>1, <1>2, <1>3
<1>5. \A i \in 2..Len(F) : G[i] = F[i]
  <2> SUFFICES ASSUME NEW i \in 2..Len(F) PROVE G[i] = F[i]
    OBVIOUS
  <2>1. i - 1 \in 1..Len(Tail(F)) /\ (i - 1) + 1 = i
    BY <1>2, <1>3
  <2>2. Tail(F)[i - 1] = F[(i - 1) + 1]
    BY <1>2, <2>1
  <2> QED
    BY <1>4, <2>1, <2>2
<1> HIDE DEF G
<1>6. \A i \in DOMAIN F : i = 1 \/ i \in 2..Len(F)
  BY <1>3
<1> QED
  BY <1>1, <1>3, <1>4, <1>5, <1>6 DEF G

(* Making an artifact stale keeps every citer accounted for, provided what *)
(* waited for a look and no longer does is that artifact.                  *)
LEMMA MakeStaleCovers ==
  ASSUME StaleInv, begun', NEW a \in Artifact, NEW rest, MakeStale(a, rest),
         rest \in Seq(SUBSET (Artifact \X Status)),
         \A i \in DOMAIN frames : \A x \in frames[i] :
           x # <<a, "verified">> => i \in DOMAIN rest /\ x \in rest[i],
         UNCHANGED <<pointers, disturbed, cut>>
  PROVE  StaleInv'
<1> USE DEF StaleInv, StaleTypeOK
<1> DEFINE after == [status EXCEPT ![a] = "stale"]
<1>1. /\ status' = after /\ after \in [Artifact -> Status]
      /\ walked' = walked \cup {a} /\ frames' = <<Citers(a, after)>> \o rest
      /\ cites' = cites /\ disturbed' = disturbed /\ cut' = cut
  BY DEF MakeStale, Status, pointers
<1>2. Citers(a, after) \in SUBSET (Artifact \X Status)
  BY <1>1, CitersAreRead
<1>3. /\ frames' \in Seq(SUBSET (Artifact \X Status))
      /\ 1 \in DOMAIN frames' /\ frames'[1] = Citers(a, after)
      /\ \A i \in DOMAIN rest : i + 1 \in DOMAIN frames' /\ frames'[i + 1] = rest[i]
  <2> DEFINE C == Citers(a, after)
  <2>1. C \in SUBSET (Artifact \X Status) /\ frames' = <<C>> \o rest
    BY <1>1, <1>2
  <2> HIDE DEF C, after
  <2> SUFFICES /\ frames' \in Seq(SUBSET (Artifact \X Status))
               /\ 1 \in DOMAIN frames' /\ frames'[1] = C
               /\ \A i \in DOMAIN rest : i + 1 \in DOMAIN frames' /\ frames'[i + 1] = rest[i]
    BY DEF C
  <2> QED
    BY <2>1, FrameOnTop
<1>4. StaleTypeOK'
  BY <1>1, <1>3
<1>5. ASSUME NEW p \in cites, p[2] \in walked \cup {a}, ~cut,
             after[p[1]] = "verified", p[1] \notin disturbed
      PROVE  Awaited(p[1])'
  <2>1. p \in Artifact \X Artifact /\ p[1] \in Artifact /\ p[1] # a
        /\ status[p[1]] = "verified"
    BY <1>5
  <2>2. CASE p[2] = a
    <3>1. <<p[1], after[p[1]]>> \in Citers(a, after)
      BY <1>1, <2>1, <2>2, CitersAreRead
    <3> QED
      BY <1>3, <1>5, <3>1 DEF Awaited
  <2>3. CASE p[2] \in walked
    <3>1. PICK i \in DOMAIN frames : <<p[1], "verified">> \in frames[i]
      BY <1>5, <2>1, <2>3 DEF WalkCovers, Awaited
    <3>2. <<p[1], "verified">> # <<a, "verified">>
      BY <2>1
    <3>3. i \in DOMAIN rest /\ <<p[1], "verified">> \in rest[i]
      BY <3>1, <3>2
    <3> QED
      BY <1>3, <3>3 DEF Awaited
  <2> QED
    BY <1>5, <2>2, <2>3
<1>6. WalkCovers'
  <2> HIDE DEF after
  <2> QED
    BY <1>1, <1>5 DEF WalkCovers
<1> QED
  BY <1>4, <1>6

LEMMA StaleStarts == StaleInit => StaleInv
<1> SUFFICES ASSUME StaleInit PROVE StaleInv
  OBVIOUS
<1>1. cites \subseteq Artifact \X Artifact /\ status \in [Artifact -> Status]
  BY DEF StaleInit, Status
<1> QED
  BY <1>1 DEF StaleInit, StaleInv, StaleTypeOK, WalkCovers

LEMMA VisitCovers ==
  ASSUME StaleInv, Visit
  PROVE  StaleInv'
<1>1. PICK r \in Head(frames) :
        \/ r[2] = "verified" /\ MakeStale(r[1], <<Head(frames) \ {r}>> \o Tail(frames))
        \/ /\ r[2] # "verified" /\ frames' = <<Head(frames) \ {r}>> \o Tail(frames)
           /\ UNCHANGED <<status, walked>>
  BY Zenon DEF Visit
<1> DEFINE rest == <<Head(frames) \ {r}>> \o Tail(frames)
<1>2. /\ frames # <<>> /\ frames \in Seq(SUBSET (Artifact \X Status))
      /\ UNCHANGED <<pointers, begun, disturbed, cut>>
  BY DEF Visit, StaleInv, StaleTypeOK
<1>3. r \in Artifact \X Status
  <2>1. Head(frames) \in SUBSET (Artifact \X Status)
    BY <1>2
  <2> QED
    BY <2>1
<1>4. /\ rest \in Seq(SUBSET (Artifact \X Status))
      /\ \A i \in DOMAIN frames : i \in DOMAIN rest
      /\ \A i \in DOMAIN frames : \A x \in frames[i] : x # r => x \in rest[i]
  BY <1>2, FrameLooks
<1>5. CASE r[2] = "verified" /\ MakeStale(r[1], rest)
  <2>1. r = <<r[1], "verified">> /\ r[1] \in Artifact
    BY <1>3, <1>5
  <2>2. begun'
    BY <1>2 DEF StaleInv, StaleTypeOK
  <2> HIDE DEF rest
  <2> QED
    BY <1>2, <1>4, <1>5, <2>1, <2>2, MakeStaleCovers
<1>6. CASE r[2] # "verified" /\ frames' = rest /\ UNCHANGED <<status, walked>>
  <2> HIDE DEF rest
  <2>1. begun /\ begun' = begun /\ status' = status /\ walked' = walked
        /\ cites' = cites /\ disturbed' = disturbed /\ cut' = cut /\ frames' = rest
    BY <1>2, <1>6 DEF StaleInv, StaleTypeOK, pointers
  <2>2. \A a \in Artifact : Awaited(a) => Awaited(a)'
    <3> SUFFICES ASSUME NEW a \in Artifact, NEW i \in DOMAIN frames,
                        <<a, "verified">> \in frames[i]
                 PROVE  Awaited(a)'
      BY DEF Awaited
    <3>1. <<a, "verified">> # r
      BY <1>6
    <3> QED
      BY <1>4, <2>1, <3>1 DEF Awaited
  <2>3. StaleTypeOK'
    BY <1>4, <2>1 DEF StaleInv, StaleTypeOK
  <2>4. WalkCovers'
    <3>1. \A p \in cites : p[1] \in Artifact
      BY DEF StaleInv, StaleTypeOK
    <3> QED
      BY <2>1, <2>2, <3>1 DEF StaleInv, WalkCovers
  <2> QED
    BY <2>3, <2>4 DEF StaleInv
<1> QED
  BY <1>1, <1>5, <1>6

LEMMA ReturnCovers ==
  ASSUME StaleInv, Return
  PROVE  StaleInv'
<1>1. /\ frames \in Seq(SUBSET (Artifact \X Status)) /\ frames # <<>> /\ frames[1] = {}
      /\ frames' = Tail(frames)
      /\ UNCHANGED <<pointers, status, begun, walked, disturbed, cut>>
  BY DEF Return, StaleInv, StaleTypeOK
<1>2. frames' \in Seq(SUBSET (Artifact \X Status)) /\ begun
  BY <1>1 DEF StaleInv, StaleTypeOK
<1>3. \A i \in DOMAIN frames : i # 1 => i - 1 \in DOMAIN frames' /\ frames'[i - 1] = frames[i]
  BY <1>1
<1>4. \A a : Awaited(a) => Awaited(a)'
  BY <1>1, <1>3 DEF Awaited
<1>5. StaleTypeOK'
  BY <1>1, <1>2 DEF StaleInv, StaleTypeOK, pointers
<1>6. WalkCovers'
  BY <1>1, <1>4 DEF StaleInv, WalkCovers, pointers
<1> QED
  BY <1>5, <1>6 DEF StaleInv

LEMMA StaleInductive ==
  ASSUME StaleInv, [StaleNext]_staleVars
  PROVE  StaleInv'
<1>1. CASE Begin
  <2>1. PICK a \in Artifact : MakeStale(a, <<>>)
    BY <1>1 DEF Begin
  <2>2. /\ begun' /\ UNCHANGED <<pointers, disturbed, cut>> /\ frames = <<>>
        /\ <<>> \in Seq(SUBSET (Artifact \X Status))
    BY <1>1 DEF Begin, StaleInv, StaleTypeOK
  <2>3. DOMAIN frames = {}
    BY <2>2
  <2> QED
    BY <2>1, <2>2, <2>3, MakeStaleCovers
<1>2. CASE Visit
  BY <1>2, VisitCovers
<1>3. CASE Return
  BY <1>3, ReturnCovers
<1>4. CASE Verify
  <2>1. PICK a \in Artifact : /\ status' = [status EXCEPT ![a] = "verified"]
                              /\ disturbed' = disturbed \cup {a}
    BY <1>4 DEF Verify
  <2>2. UNCHANGED <<pointers, frames, begun, walked, cut>>
    BY <1>4 DEF Verify
  <2>3. StaleTypeOK'
    BY <2>1, <2>2 DEF StaleInv, StaleTypeOK, Status, pointers
  <2>4. WalkCovers'
    <3>1. \A p \in cites : p[1] \in Artifact
      BY DEF StaleInv, StaleTypeOK
    <3>2. \A b \in Artifact : b # a => status'[b] = status[b]
      BY <2>1 DEF StaleInv, StaleTypeOK
    <3>3. \A b \in Artifact : Awaited(b) => Awaited(b)'
      BY <2>2 DEF Awaited
    <3> QED
      BY <2>1, <2>2, <3>1, <3>2, <3>3 DEF StaleInv, WalkCovers, pointers
  <2> QED
    BY <2>3, <2>4 DEF StaleInv
<1>5. CASE WalkDies
  BY <1>5 DEF WalkDies, StaleInv, StaleTypeOK, WalkCovers, pointers
<1>6. CASE UNCHANGED staleVars
  BY <1>6 DEF staleVars, pointers, StaleInv, StaleTypeOK, WalkCovers, Awaited
<1> QED
  BY <1>1, <1>2, <1>3, <1>4, <1>5, <1>6 DEF StaleNext

THEOREM NobodyIsLeftBehind == StaleSpec => []StaleReaches
<1>1. StaleInit => StaleInv
  BY StaleStarts
<1>2. StaleInv /\ [StaleNext]_staleVars => StaleInv'
  BY StaleInductive
<1>3. StaleInv => StaleReaches
  BY DEF StaleInv, WalkCovers, Awaited, StaleReaches
<1> QED
  BY <1>1, <1>2, <1>3, PTL DEF StaleSpec

-----------------------------------------------------------------------------
(* What _verdict makes of one artifact, on the verdicts of the others: the *)
(* artifact with those seen before it.                                     *)
Judged(f, a, visited) ==
  \/ a \in withdrawn
  \/ \E s \in Artifact :
       /\ supersededBy[a] = {s}
       /\ \/ status[s] # "stale"
          \/ /\ Lands(s, visited \cup {a})
             /\ s \in visited \cup {a} \cup f[visited \cup {a}]

Cases == {p \in Artifact \X SUBSET Artifact : p[1] \notin p[2]}

IsVerdict(f) ==
  f = [visited \in SUBSET Artifact |-> {a \in Artifact \ visited : Judged(f, a, visited)}]

(* The same, with the cases that are decided in a set. *)
JudgedBy(S, p) ==
  \/ p[1] \in withdrawn
  \/ \E s \in Artifact :
       /\ supersededBy[p[1]] = {s}
       /\ status[s] # "stale" \/ (s \notin p[2] \cup {p[1]} /\ <<s, p[2] \cup {p[1]}>> \in S)

LEMMA VerdictIsDefined == \E f : IsVerdict(f)
<1> DEFINE Settled(S) == \A p \in Cases : JudgedBy(S, p) => p \in S
           least == {p \in Cases : \A S \in SUBSET Cases : Settled(S) => p \in S}
           f == [visited \in SUBSET Artifact |-> {a \in Artifact \ visited : <<a, visited>> \in least}]
<1>1. \A S, R \in SUBSET Cases : S \subseteq R => \A p \in Cases : JudgedBy(S, p) => JudgedBy(R, p)
  BY DEF JudgedBy
<1>2. ASSUME NEW p \in Cases, JudgedBy(least, p) PROVE p \in least
  <2> SUFFICES ASSUME NEW S \in SUBSET Cases, Settled(S) PROVE p \in S
    OBVIOUS
  <2>1. least \subseteq S
    OBVIOUS
  <2>2. least \in SUBSET Cases
    OBVIOUS
  <2> HIDE DEF least
  <2> QED
    BY <1>1, <1>2, <2>1, <2>2
<1>3. ASSUME NEW p \in least PROVE JudgedBy(least, p)
  <2> SUFFICES ASSUME ~JudgedBy(least, p) PROVE FALSE
    OBVIOUS
  <2> DEFINE S == least \ {p}
  <2>1. least \in SUBSET Cases /\ S \in SUBSET Cases /\ S \subseteq least
    OBVIOUS
  <2>2. Settled(S)
    <3> SUFFICES ASSUME NEW q \in Cases, JudgedBy(S, q) PROVE q \in S
      OBVIOUS
    <3> HIDE DEF least
    <3>1. JudgedBy(least, q)
      <4> HIDE DEF S
      <4> QED
        BY <1>1, <2>1
    <3> QED
      BY <1>2, <3>1
  <2>3. p \in S
    <3> HIDE DEF S
    <3> QED
      BY <2>1, <2>2
  <2> QED
    BY <2>3
<1>4. ASSUME NEW visited \in SUBSET Artifact, NEW a \in Artifact \ visited
      PROVE  <<a, visited>> \in least <=> Judged(f, a, visited)
  <2>1. \A s \in Artifact \ (visited \cup {a}) :
                            /\ <<s, visited \cup {a}>> \in Cases
                            /\ (s \in f[visited \cup {a}] <=> <<s, visited \cup {a}>> \in least)
    BY DEF Cases
  <2>2. <<a, visited>> \in Cases /\ <<a, visited>>[1] = a /\ <<a, visited>>[2] = visited
    BY DEF Cases
  <2> HIDE DEF f, least
  <2>3. (<<a, visited>> \in least) <=> JudgedBy(least, <<a, visited>>)
    BY <1>2, <1>3, <2>2
  <2>4. JudgedBy(least, <<a, visited>>) <=> Judged(f, a, visited)
    BY <2>1, <2>2 DEF JudgedBy, Judged, Lands
  <2> QED
    BY <2>3, <2>4 DEF Judged
<1>5. f = [visited \in SUBSET Artifact |-> {a \in Artifact \ visited : Judged(f, a, visited)}]
  <2>1. \A visited \in SUBSET Artifact :
          {a \in Artifact \ visited : <<a, visited>> \in least}
            = {a \in Artifact \ visited : Judged(f, a, visited)}
    <3> HIDE DEF f, least
    <3> QED
      BY <1>4
  <2> DEFINE h == [visited \in SUBSET Artifact |-> {a \in Artifact \ visited : Judged(f, a, visited)}]
  <2>2. f = h
    BY <2>1
  <2> QED
    BY <2>2
<1> QED
  BY <1>5, Zenon DEF IsVerdict

LEMMA VerdictRule ==
  ASSUME NEW visited \in SUBSET Artifact, NEW a \in Artifact \ visited
  PROVE  a \in Verdict[visited] <=>
           \/ a \in withdrawn
           \/ \E s \in Artifact :
                /\ supersededBy[a] = {s}
                /\ \/ status[s] # "stale"
                   \/ s \notin visited \cup {a} /\ s \in Verdict[visited \cup {a}]
<1> DEFINE f == CHOOSE g : IsVerdict(g)
<1>1. IsVerdict(f)
  BY VerdictIsDefined, Zenon
<1>2. Verdict = f
  BY Zenon DEF Verdict, IsVerdict, Judged
<1>3. Verdict = [seen \in SUBSET Artifact |-> {c \in Artifact \ seen : Judged(Verdict, c, seen)}]
  BY <1>1, <1>2, Zenon DEF IsVerdict
<1>4. a \in Verdict[visited] <=> Judged(Verdict, a, visited)
  BY <1>3
<1> QED
  BY <1>4 DEF Judged, Lands

(* Nothing is decided that is outside an anchored set: a verdict outside   *)
(* it rests on another, with one artifact more seen, and so on for ever.   *)
LEMMA DecidedIsAnchored ==
  ASSUME IsFiniteSet(Artifact), NEW set, Anchored(set), NEW a \in Artifact, Decided(a)
  PROVE  a \in set
<1> DEFINE Left(visited) == Cardinality(Artifact \ visited)
           Outside(c, visited) == c \notin visited /\ c \notin set /\ c \in Verdict[visited]
           T == {n \in Nat : \E c \in Artifact, visited \in SUBSET Artifact :
                               n = Left(visited) /\ Outside(c, visited)}
<1> SUFFICES ASSUME a \notin set PROVE FALSE
  OBVIOUS
<1>0. \A visited \in SUBSET Artifact : Left(visited) \in Nat
  BY FS_Difference, FS_CardinalityType
<1>1. T # {}
  <2>1. Outside(a, {}) /\ {} \in SUBSET Artifact
    BY DEF Decided
  <2> QED
    BY <1>0, <2>1
<1>2. PICK n \in T : \A k \in T : n <= k
  <2>1. T \subseteq Nat
    OBVIOUS
  <2> HIDE DEF T
  <2> QED
    BY <1>1, <2>1, LeastNatural
<1>3. PICK c \in Artifact, visited \in SUBSET Artifact : n = Left(visited) /\ Outside(c, visited)
  OBVIOUS
<1> DEFINE more == visited \cup {c}
<1>4. PICK s \in Artifact : supersededBy[c] = {s} /\ s \notin more /\ s \in Verdict[more] /\ s \notin set
  <2>1. \/ c \in withdrawn
        \/ \E s \in Artifact : /\ supersededBy[c] = {s}
                               /\ status[s] # "stale" \/ (s \notin more /\ s \in Verdict[more])
    BY <1>3, VerdictRule
  <2> QED
    BY <1>3, <2>1 DEF Anchored
<1>5. more \in SUBSET Artifact
  OBVIOUS
<1>6. Left(more) < Left(visited)
  <2>1. Artifact \ more = (Artifact \ visited) \ {c} /\ c \in Artifact \ visited
    BY <1>3
  <2>2. IsFiniteSet(Artifact \ visited)
    BY FS_Difference
  <2>3. Cardinality((Artifact \ visited) \ {c}) = Cardinality(Artifact \ visited) - 1
    BY <2>1, <2>2, FS_RemoveElement
  <2>4. Cardinality(Artifact \ visited) \in Nat
    BY <2>2, FS_CardinalityType
  <2>5. Cardinality(Artifact \ more) = Cardinality(Artifact \ visited) - 1
    BY <2>1, <2>3
  <2> HIDE DEF more
  <2> QED
    BY <2>4, <2>5
<1>7. Left(more) \in T
  <2>1. Outside(s, more) /\ Left(more) \in Nat
    BY <1>0, <1>4, <1>5
  <2> HIDE DEF Left, Outside, more
  <2> QED
    BY <1>5, <2>1
<1>8. n <= Left(more) /\ n \in Nat
  <2> HIDE DEF T
  <2>1. \A k \in T : n <= k
    BY <1>2
  <2> QED
    BY <1>7, <2>1, <1>3, <1>0
<1>10. Left(more) \in Nat /\ n = Left(visited)
  BY <1>0, <1>3, <1>5
<1> HIDE DEF Left, more, T
<1> QED
  BY <1>6, <1>8, <1>10

(* Artifacts that lead only to one another, all of them stale, none of     *)
(* them withdrawn.                                                         *)
Trapped(seen, in) ==
  \A b \in seen : /\ b \notin withdrawn
                  /\ \A s \in Artifact : supersededBy[b] = {s} => status[s] = "stale" /\ s \in in

(* An artifact without a verdict is in a trap: it leads nowhere, or to one *)
(* seen before, or to another without a verdict.                           *)
LEMMA UndecidedIsTrapped ==
  ASSUME IsFiniteSet(Artifact), NEW a \in Artifact, ~Decided(a)
  PROVE  \E trap \in SUBSET Artifact : a \in trap /\ Trapped(trap, trap)
<1> DEFINE Left(visited) == Cardinality(Artifact \ visited)
           Loose(c, visited) ==
             /\ c \notin visited /\ c \notin Verdict[visited] /\ Trapped(visited, visited \cup {c})
             /\ a \in visited \cup {c}
           T == {n \in Nat : \E c \in Artifact, visited \in SUBSET Artifact :
                               n = Left(visited) /\ Loose(c, visited)}
<1> SUFFICES ASSUME ~\E trap \in SUBSET Artifact : a \in trap /\ Trapped(trap, trap)
             PROVE  FALSE
  OBVIOUS
<1>0. \A visited \in SUBSET Artifact : Left(visited) \in Nat
  BY FS_Difference, FS_CardinalityType
<1>1. T # {}
  <2>1. Loose(a, {}) /\ {} \in SUBSET Artifact
    BY DEF Decided, Trapped
  <2> QED
    BY <1>0, <2>1
<1>2. PICK n \in T : \A k \in T : n <= k
  <2>1. T \subseteq Nat
    OBVIOUS
  <2> HIDE DEF T
  <2> QED
    BY <1>1, <2>1, LeastNatural
<1>3. PICK c \in Artifact, visited \in SUBSET Artifact : n = Left(visited) /\ Loose(c, visited)
  OBVIOUS
<1> DEFINE more == visited \cup {c}
<1>5. more \in SUBSET Artifact
  OBVIOUS
<1>4. PICK s \in Artifact : supersededBy[c] = {s} /\ s \notin more
  <2>1. c \notin withdrawn /\ \A s \in Artifact : supersededBy[c] = {s} => status[s] = "stale"
    <3>1. c \notin Verdict[visited]
      BY <1>3
    <3>2. c \in Verdict[visited] <=>
            \/ c \in withdrawn
            \/ \E t \in Artifact :
                 /\ supersededBy[c] = {t}
                 /\ \/ status[t] # "stale"
                    \/ t \notin visited \cup {c} /\ t \in Verdict[visited \cup {c}]
      BY <1>3, VerdictRule
    <3> QED
      BY <3>1, <3>2
  <2>2. ~Trapped(more, more) /\ Trapped(visited, more)
    BY <1>3, <1>5
  <2> HIDE DEF more
  <2>3. PICK b \in more : ~(/\ b \notin withdrawn
              /\ \A s \in Artifact : supersededBy[b] = {s} => status[s] = "stale" /\ s \in more)
    BY <2>2 DEF Trapped
  <2>4. b \notin visited
    BY <2>2, <2>3 DEF Trapped
  <2>5. b = c
    BY <2>3, <2>4 DEF more
  <2> QED
    BY <2>1, <2>3, <2>5
<1>9. Loose(s, more)
  <2>1. status[s] = "stale" /\ s \notin Verdict[more] /\ c \notin withdrawn
    <3>1. c \notin Verdict[visited]
      BY <1>3
    <3>2. c \in Verdict[visited] <=>
            \/ c \in withdrawn
            \/ \E t \in Artifact :
                 /\ supersededBy[c] = {t}
                 /\ \/ status[t] # "stale"
                    \/ t \notin visited \cup {c} /\ t \in Verdict[visited \cup {c}]
      BY <1>3, VerdictRule
    <3> QED
      BY <1>4, <3>1, <3>2
  <2>2. \A t \in Artifact : supersededBy[c] = {t} => t = s
    BY <1>4
  <2>3. Trapped(more, more \cup {s})
    BY <1>3, <2>1, <2>2 DEF Trapped
  <2> QED
    BY <1>3, <1>4, <2>1, <2>3
<1>6. Left(more) < Left(visited)
  <2>1. Artifact \ more = (Artifact \ visited) \ {c} /\ c \in Artifact \ visited
    BY <1>3
  <2>2. IsFiniteSet(Artifact \ visited)
    BY FS_Difference
  <2>3. Cardinality((Artifact \ visited) \ {c}) = Cardinality(Artifact \ visited) - 1
    BY <2>1, <2>2, FS_RemoveElement
  <2>4. Cardinality(Artifact \ visited) \in Nat
    BY <2>2, FS_CardinalityType
  <2>5. Cardinality(Artifact \ more) = Cardinality(Artifact \ visited) - 1
    BY <2>1, <2>3
  <2> HIDE DEF more
  <2> QED
    BY <2>4, <2>5
<1>7. Left(more) \in T
  <2>1. Left(more) \in Nat
    BY <1>0, <1>5
  <2> HIDE DEF Left, Loose, more
  <2> QED
    BY <1>5, <1>9, <2>1
<1>8. n <= Left(more) /\ n \in Nat
  <2> HIDE DEF T
  <2>1. \A k \in T : n <= k
    BY <1>2
  <2> QED
    BY <1>7, <2>1, <1>3, <1>0
<1>10. Left(more) \in Nat /\ n = Left(visited)
  BY <1>0, <1>3, <1>5
<1> HIDE DEF Left, more, T
<1> QED
  BY <1>6, <1>8, <1>10

LEMMA VerdictsAreAnchored == ASSUME IsFiniteSet(Artifact) PROVE VerdictIsAnchored
<1> SUFFICES ASSUME NEW a \in Artifact
             PROVE  Decided(a) <=> \A set \in SUBSET Artifact : Anchored(set) => a \in set
  BY DEF VerdictIsAnchored
<1>1. ASSUME Decided(a), NEW set \in SUBSET Artifact, Anchored(set) PROVE a \in set
  BY <1>1, DecidedIsAnchored
<1>2. ASSUME ~Decided(a) PROVE \E set \in SUBSET Artifact : Anchored(set) /\ a \notin set
  <2>1. PICK trap \in SUBSET Artifact : a \in trap /\ Trapped(trap, trap)
    BY <1>2, UndecidedIsTrapped
  <2>2. Anchored(Artifact \ trap)
    BY <2>1 DEF Anchored, Trapped
  <2> QED
    BY <2>1, <2>2
<1> QED
  BY <1>1, <1>2

(* In any state of the graph, and whatever shape its pointers have,        *)
(* _verdict calls a stale artifact a recorded decision exactly when an     *)
(* unambiguous chain leads from it to a withdrawal or to an artifact that  *)
(* is not stale.                                                           *)
THEOREM DecisionsAreAnchored == StaleSpec => []VerdictIsAnchored
<1>1. VerdictIsAnchored
  BY StalenessAssumption, VerdictsAreAnchored
<1> QED
  BY <1>1, PTL
=============================================================================
