--------------------------- MODULE PrecedenceProofs ---------------------------
(***************************************************************************)
(* What the searches of core/precedence.py compute, for any finite set of  *)
(* pairs: find_path's breadth-first search reaches exactly what a path     *)
(* reaches.  Its rounds are a recursive function, so the module begins     *)
(* with induction over the naturals, stated for a set.                     *)
(***************************************************************************)
EXTENDS Precedence, FiniteSetTheorems, WellFoundedInduction, TLAPS

-----------------------------------------------------------------------------
(* A set that holds 0, and the successor of what it holds as far as m,     *)
(* holds everything up to m: what it does not hold would have a least      *)
(* member.                                                                 *)
LEMMA UpTo ==
  ASSUME NEW m \in Nat, NEW S, 0 \in S, \A n \in 0..m : n \in S /\ n # m => n + 1 \in S
  PROVE  \A n \in 0..m : n \in S
<1> DEFINE T == {n \in 0..m : n \notin S}
           R == OpToRel(<, Nat)
<1> SUFFICES ASSUME T # {} PROVE FALSE
  OBVIOUS
<1>1. T \subseteq Nat
  OBVIOUS
<1>2. PICK y \in T : \A z \in T : <<z, y>> \notin R
  <2>1. IsWellFoundedOn(R, Nat)
    BY NatLessThanWellFounded
  <2> HIDE DEF R, T
  <2> QED
    BY <1>1, <2>1, WFMin
<1>3. \A z \in T : ~(z < y)
  BY <1>1, <1>2 DEF OpToRel
<1>4. y # 0 /\ y \in 0..m
  OBVIOUS
<1>5. y - 1 \in 0..m /\ y - 1 < y /\ y - 1 # m /\ (y - 1) + 1 = y
  BY <1>4
<1>6. y - 1 \in S
  BY <1>3, <1>5
<1> QED
  BY <1>5, <1>6

(* A recursion over 0..m: from base, each value by step from the one       *)
(* before it and its place.                                                *)
Iterates(f, base, step, m) ==
  f[0] = base /\ \A i \in 1..m : f[i] = step[<<f[i - 1], i>>]

LEMMA IterationExists ==
  ASSUME NEW m \in Nat, NEW D, NEW base \in D, NEW step \in [D \X (1..m) -> D]
  PROVE  \E f \in [0..m -> D] : Iterates(f, base, step, m)
<1> DEFINE S == {n \in Nat : \E f \in [0..n -> D] : Iterates(f, base, step, n)}
<1>1. 0 \in S
  <2> DEFINE f == [i \in 0..0 |-> base]
  <2>1. f \in [0..0 -> D] /\ Iterates(f, base, step, 0)
    BY DEF Iterates
  <2> HIDE DEF f
  <2> QED
    BY <2>1
<1>2. ASSUME NEW n \in 0..m, n \in S, n # m PROVE n + 1 \in S
  <2>1. PICK f \in [0..n -> D] : Iterates(f, base, step, n)
    BY <1>2
  <2> DEFINE h == [i \in 0..(n + 1) |-> IF i <= n THEN f[i] ELSE step[<<f[n], n + 1>>]]
  <2>2. /\ f[n] \in D /\ step[<<f[n], n + 1>>] \in D
        /\ \A i \in 0..n : f[i] \in D
    <3>1. n + 1 \in 1..m /\ f[n] \in D
      BY <1>2
    <3>2. <<f[n], n + 1>> \in D \X (1..m)
      BY <3>1
    <3> QED
      BY <3>1, <3>2
  <2>3. h \in [0..(n + 1) -> D]
    BY <2>2
  <2>4. \A i \in 0..n : h[i] = f[i]
    OBVIOUS
  <2>5. h[n + 1] = step[<<f[n], n + 1>>]
    OBVIOUS
  <2> HIDE DEF h
  <2>6. h[0] = base
    BY <2>1, <2>4 DEF Iterates
  <2>7. ASSUME NEW i \in 1..(n + 1)
        PROVE  h[i] = step[<<h[i - 1], i>>]
    <3>1. CASE i = n + 1
      <4>1. i - 1 = n /\ h[n] = f[n]
        BY <2>4, <3>1
      <4> QED
        BY <2>5, <3>1, <4>1
    <3>2. CASE i # n + 1
      <4>1. i \in 1..n /\ i \in 0..n /\ i - 1 \in 0..n
        BY <3>2
      <4> QED
        BY <2>1, <2>4, <4>1 DEF Iterates
    <3> QED
      BY <3>1, <3>2
  <2>8. Iterates(h, base, step, n + 1)
    BY <2>6, <2>7 DEF Iterates
  <2>9. \E f1 \in [0..(n + 1) -> D] : Iterates(f1, base, step, n + 1)
    BY <2>3, <2>8
  <2> QED
    BY <2>9
<1>3. m \in S
  <2> HIDE DEF S
  <2> QED
    BY <1>1, <1>2, UpTo
<1> QED
  BY <1>3

(* Two recursions that begin alike and go on alike are the same. *)
Alike(f, h, m) ==
  f[0] = h[0] /\ \A i \in 1..m : f[i - 1] = h[i - 1] => f[i] = h[i]

LEMMA SameSteps ==
  ASSUME NEW m \in Nat, NEW f, NEW h, Alike(f, h, m)
  PROVE  \A i \in 0..m : f[i] = h[i]
<1> DEFINE S == {i \in 0..m : f[i] = h[i]}
<1>1. 0 \in S
  BY DEF Alike
<1>2. ASSUME NEW n \in 0..m, n \in S, n # m PROVE n + 1 \in S
  <2>1. n + 1 \in 1..m /\ (n + 1) - 1 = n
    BY <1>2
  <2>2. f[n] = h[n]
    BY <1>2
  <2>3. f[n + 1] = h[n + 1]
    BY <2>1, <2>2 DEF Alike
  <2> QED
    BY <2>1, <2>3
<1>3. \A n \in 0..m : n \in S
  <2> HIDE DEF S
  <2> QED
    BY <1>1, <1>2, UpTo
<1> QED
  BY <1>3

(* A growing chain of subsets of S, as long as S is large, fills S or      *)
(* stands still somewhere.                                                 *)
LEMMA ChainStops ==
  ASSUME NEW S, IsFiniteSet(S), NEW m \in Nat, Cardinality(S) <= m,
         NEW f \in [0..m -> SUBSET S], \A k \in 1..m : f[k - 1] \subseteq f[k]
  PROVE  f[m] = S \/ \E k \in 1..m : f[k - 1] = f[k]
<1> SUFFICES ASSUME \A k \in 1..m : f[k - 1] # f[k] PROVE f[m] = S
  OBVIOUS
<1> DEFINE T == {k \in 0..m : k <= Cardinality(f[k])}
<1>1. \A k \in 0..m : /\ f[k] \in SUBSET S /\ IsFiniteSet(f[k])
                      /\ Cardinality(f[k]) \in Nat /\ Cardinality(f[k]) <= Cardinality(S)
  BY FS_Subset, FS_CardinalityType
<1>2. 0 \in T
  BY <1>1
<1>3. ASSUME NEW n \in 0..m, n \in T, n # m PROVE n + 1 \in T
  <2>1. n + 1 \in 1..m /\ n + 1 \in 0..m /\ (n + 1) - 1 = n /\ n <= Cardinality(f[n])
    BY <1>3
  <2>2. f[n] \subseteq f[n + 1] /\ f[n] # f[n + 1]
    BY <2>1
  <2>3. IsFiniteSet(f[n + 1]) /\ f[n] \in SUBSET f[n + 1]
    BY <1>1, <2>1, <2>2
  <2>4. /\ Cardinality(f[n]) <= Cardinality(f[n + 1])
        /\ Cardinality(f[n + 1]) # Cardinality(f[n])
    BY <2>2, <2>3, FS_Subset
  <2>5. Cardinality(f[n]) \in Nat /\ Cardinality(f[n + 1]) \in Nat
    BY <1>1, <2>1
  <2>6. n + 1 <= Cardinality(f[n + 1])
    BY <2>1, <2>4, <2>5
  <2> QED
    BY <2>1, <2>6
<1>4. m \in T
  <2>1. \A n \in 0..m : n \in T /\ n # m => n + 1 \in T
    BY <1>3
  <2> HIDE DEF T
  <2>2. \A n \in 0..m : n \in T
    BY <1>2, <2>1, UpTo
  <2> QED
    BY <2>2
<1>5. m <= Cardinality(f[m]) /\ m \in 0..m
  BY <1>4
<1>6. Cardinality(S) \in Nat
  BY FS_CardinalityType
<1>7. Cardinality(f[m]) = Cardinality(S)
  BY <1>1, <1>5, <1>6
<1> QED
  BY <1>1, <1>5, <1>7, FS_Subset

-----------------------------------------------------------------------------
(* A search: from a set, round after round, with the successors of what    *)
(* was seen.  Reached and CycleSearch's Reaches are two of them.           *)
Search(f, pairs, first, m) ==
  f = [k \in 0..m |-> IF k = 0 THEN first
                      ELSE f[k - 1] \cup UNION {Successors(pairs, n) : n \in f[k - 1]}]

LEMMA SearchIsDefined ==
  ASSUME NEW pairs, NEW first, NEW m \in Nat
  PROVE  \E f : Search(f, pairs, first, m)
<1> DEFINE All == first \cup Endpoints(pairs)
           D == SUBSET All
           Grown(seen) == seen \cup UNION {Successors(pairs, n) : n \in seen}
           step == [x \in D \X (1..m) |-> Grown(x[1])]
<1>1. \A seen \in D : Grown(seen) \in D
  BY DEF Successors, Endpoints
<1>2. first \in D
  OBVIOUS
<1>3. step \in [D \X (1..m) -> D]
  <2> HIDE DEF D, Grown
  <2> QED
    BY <1>1
<1>4. PICK f \in [0..m -> D] : Iterates(f, first, step, m)
  <2> HIDE DEF D, step
  <2> QED
    BY <1>2, <1>3, IterationExists
<1>5. ASSUME NEW i \in 0..m, i # 0 PROVE f[i] = Grown(f[i - 1])
  <2>1. i \in 1..m /\ i - 1 \in 0..m
    BY <1>5
  <2>2. <<f[i - 1], i>> \in D \X (1..m)
    BY <2>1
  <2>3. f[i] = step[<<f[i - 1], i>>]
    BY <1>4, <2>1 DEF Iterates
  <2> HIDE DEF D, Grown
  <2> QED
    BY <2>2, <2>3
<1>6. f[0] = first
  BY <1>4 DEF Iterates
<1> DEFINE h == [k \in 0..m |-> IF k = 0 THEN first ELSE Grown(f[k - 1])]
<1>7. f = [k \in 0..m |-> f[k]] /\ \A k \in 0..m : f[k] = h[k]
  <2> HIDE DEF D, Grown
  <2> QED
    BY <1>5, <1>6
<1>8. f = h
  <2> HIDE DEF D, Grown
  <2> QED
    BY <1>7
<1> QED
  BY <1>8, Zenon DEF Search

(* Round after round. *)
Wider(pairs, seen) == seen \cup UNION {Successors(pairs, n) : n \in seen}

LEMMA SearchRounds ==
  ASSUME NEW pairs, NEW first, NEW m \in Nat, NEW f, Search(f, pairs, first, m)
  PROVE  f[0] = first /\ \A k \in 1..m : f[k] = Wider(pairs, f[k - 1])
<1>1. f = [k \in 0..m |-> IF k = 0 THEN first ELSE Wider(pairs, f[k - 1])]
  BY Zenon DEF Search, Wider
<1>2. \A k \in 0..m : f[k] = IF k = 0 THEN first ELSE Wider(pairs, f[k - 1])
  BY <1>1, Zenon
<1> QED
  BY <1>2

(* A search finds nothing outside a set that holds the first and is closed *)
(* under successors.                                                       *)
LEMMA SearchIsLeast ==
  ASSUME NEW pairs, NEW first, NEW m \in Nat, NEW f, Search(f, pairs, first, m),
         NEW closed, first \subseteq closed,
         \A n \in closed : Successors(pairs, n) \subseteq closed
  PROVE  \A k \in 0..m : f[k] \subseteq closed
<1> DEFINE S == {k \in 0..m : f[k] \subseteq closed}
<1>1. 0 \in S
  BY SearchRounds
<1>2. ASSUME NEW n \in 0..m, n \in S, n # m PROVE n + 1 \in S
  <2>1. n + 1 \in 1..m /\ (n + 1) - 1 = n /\ f[n] \subseteq closed
    BY <1>2
  <2>2. f[n + 1] = Wider(pairs, f[n])
    <3>1. \A k \in 1..m : f[k] = Wider(pairs, f[k - 1])
      BY SearchRounds
    <3> QED
      BY <2>1, <3>1
  <2>3. f[n + 1] \subseteq closed
    BY <2>1, <2>2 DEF Wider
  <2> QED
    BY <2>1, <2>3
<1>3. \A k \in 0..m : k \in S
  <2> HIDE DEF S
  <2> QED
    BY <1>1, <1>2, UpTo
<1> QED
  BY <1>3

(* It widens, and keeps the first. *)
LEMMA SearchWidens ==
  ASSUME NEW pairs, NEW first, NEW m \in Nat, NEW f, Search(f, pairs, first, m)
  PROVE  /\ f \in [0..m -> SUBSET (first \cup Endpoints(pairs))]
         /\ \A k \in 1..m : f[k - 1] \subseteq f[k]
         /\ first \subseteq f[m]
<1>1. \A k \in 1..m : f[k - 1] \subseteq f[k]
  <2>1. \A k \in 1..m : f[k] = Wider(pairs, f[k - 1])
    BY SearchRounds
  <2> QED
    BY <2>1 DEF Wider
<1>2. f \in [0..m -> SUBSET (first \cup Endpoints(pairs))]
  <2> DEFINE All == first \cup Endpoints(pairs)
  <2>1. first \subseteq All /\ \A n \in All : Successors(pairs, n) \subseteq All
    BY DEF Successors, Endpoints
  <2> HIDE DEF All
  <2>2. \A k \in 0..m : f[k] \subseteq All
    BY <2>1, SearchIsLeast
  <2>3. f = [k \in 0..m |-> f[k]]
    BY Zenon DEF Search
  <2>4. f \in [0..m -> SUBSET All]
    BY <2>2, <2>3
  <2> QED
    BY <2>4 DEF All
<1>3. first \subseteq f[m]
  <2> DEFINE S == {k \in 0..m : first \subseteq f[k]}
  <2>1. 0 \in S
    BY SearchRounds
  <2>2. ASSUME NEW n \in 0..m, n \in S, n # m PROVE n + 1 \in S
    <3>1. n + 1 \in 1..m /\ (n + 1) - 1 = n /\ first \subseteq f[n]
      BY <2>2
    <3>2. f[n] \subseteq f[n + 1]
      BY <1>1, <3>1
    <3> QED
      BY <3>1, <3>2
  <2>3. m \in S
    <3> HIDE DEF S
    <3> QED
      BY <2>1, <2>2, UpTo
  <2> QED
    BY <2>3
<1> QED
  BY <1>1, <1>2, <1>3

(* Once a round finds nothing new, none after it does. *)
LEMMA SearchHalts ==
  ASSUME NEW pairs, NEW first, NEW m \in Nat, NEW f, Search(f, pairs, first, m),
         NEW k \in 1..m, f[k - 1] = f[k]
  PROVE  f[m] = Wider(pairs, f[m])
<1> DEFINE S == {i \in 0..m : i < k \/ f[i] = f[k]}
<1>0. f[k] = Wider(pairs, f[k])
  <2>1. f[k] = Wider(pairs, f[k - 1])
    BY SearchRounds
  <2> QED
    BY <2>1
<1>1. 0 \in S
  OBVIOUS
<1>2. ASSUME NEW n \in 0..m, n \in S, n # m PROVE n + 1 \in S
  <2>1. n + 1 \in 1..m /\ (n + 1) - 1 = n
    BY <1>2
  <2>2. CASE n + 1 <= k
    BY <2>1, <2>2
  <2>3. CASE n + 1 > k
    <3>1. f[n] = f[k]
      BY <1>2, <2>3
    <3>2. f[n + 1] = Wider(pairs, f[n])
      <4>1. \A j \in 1..m : f[j] = Wider(pairs, f[j - 1])
        BY SearchRounds
      <4> QED
        BY <2>1, <4>1
    <3> QED
      BY <1>0, <2>1, <3>1, <3>2
  <2> QED
    BY <2>1, <2>2, <2>3
<1>3. m \in S
  <2> HIDE DEF S
  <2> QED
    BY <1>1, <1>2, UpTo
<1> QED
  BY <1>0, <1>3

(* Enough rounds: as many as there are endpoints.  Then nothing is left.   *)
LEMMA SearchIsClosed ==
  ASSUME NEW pairs, NEW first, first \subseteq Endpoints(pairs),
         IsFiniteSet(Endpoints(pairs)), NEW m \in Nat, Cardinality(Endpoints(pairs)) <= m,
         NEW f, Search(f, pairs, first, m)
  PROVE  \A n \in f[m] : Successors(pairs, n) \subseteq f[m]
<1> DEFINE S == Endpoints(pairs)
<1>1. f \in [0..m -> SUBSET S] /\ \A k \in 1..m : f[k - 1] \subseteq f[k]
  <2>1. first \cup Endpoints(pairs) = S
    OBVIOUS
  <2> QED
    BY <2>1, SearchWidens
<1>2. f[m] = S \/ \E k \in 1..m : f[k - 1] = f[k]
  <2>1. IsFiniteSet(S) /\ Cardinality(S) <= m
    OBVIOUS
  <2> HIDE DEF S
  <2> QED
    BY <1>1, <2>1, ChainStops
<1>3. CASE f[m] = S
  BY <1>3 DEF Successors, Endpoints
<1>4. ASSUME NEW k \in 1..m, f[k - 1] = f[k]
      PROVE  \A n \in f[m] : Successors(pairs, n) \subseteq f[m]
  <2>1. f[m] = Wider(pairs, f[m])
    BY <1>4, SearchHalts
  <2> QED
    BY <2>1 DEF Wider
<1> QED
  BY <1>2, <1>3, <1>4

-----------------------------------------------------------------------------
(* find_path.  Reached is the least set that holds the start and is closed *)
(* under successors, when there are finitely many pairs.                   *)
Finite(pairs) == IsFiniteSet(Endpoints(pairs))

LEMMA ReachedIsSearch ==
  ASSUME NEW pairs, NEW start, Finite(pairs)
  PROVE  \E f : /\ Search(f, pairs, {start}, Cardinality(Endpoints(pairs)))
                /\ Reached(pairs, start) = f[Cardinality(Endpoints(pairs))]
<1> DEFINE f == CHOOSE seen : Search(seen, pairs, {start}, Cardinality(Endpoints(pairs)))
<1>1. Cardinality(Endpoints(pairs)) \in Nat
  BY FS_CardinalityType DEF Finite
<1>2. \E seen : Search(seen, pairs, {start}, Cardinality(Endpoints(pairs)))
  BY <1>1, SearchIsDefined
<1>3. Search(f, pairs, {start}, Cardinality(Endpoints(pairs)))
  BY <1>2, Zenon
<1>4. Reached(pairs, start) = f[Cardinality(Endpoints(pairs))]
  BY Zenon DEF Reached, Search
<1> QED
  BY <1>3, <1>4, Zenon

LEMMA ReachedIsLeast ==
  ASSUME NEW pairs, NEW start, Finite(pairs), NEW closed, start \in closed,
         \A n \in closed : Successors(pairs, n) \subseteq closed
  PROVE  Reached(pairs, start) \subseteq closed
<1>1. PICK f : /\ Search(f, pairs, {start}, Cardinality(Endpoints(pairs)))
               /\ Reached(pairs, start) = f[Cardinality(Endpoints(pairs))]
  BY ReachedIsSearch
<1>2. Cardinality(Endpoints(pairs)) \in Nat
  BY FS_CardinalityType DEF Finite
<1>3. {start} \subseteq closed
  OBVIOUS
<1> DEFINE m == Cardinality(Endpoints(pairs))
           first == {start}
<1>4. \A k \in 0..m : f[k] \subseteq closed
  <2>1. m \in Nat /\ Search(f, pairs, first, m) /\ first \subseteq closed
    BY <1>1, <1>2, <1>3
  <2> HIDE DEF m, first
  <2> QED
    BY <2>1, SearchIsLeast
<1> QED
  BY <1>1, <1>2, <1>4

LEMMA ReachedIsClosed ==
  ASSUME NEW pairs, NEW start, Finite(pairs)
  PROVE  /\ start \in Reached(pairs, start)
         /\ \A n \in Reached(pairs, start) : Successors(pairs, n) \subseteq Reached(pairs, start)
<1>1. PICK f : /\ Search(f, pairs, {start}, Cardinality(Endpoints(pairs)))
               /\ Reached(pairs, start) = f[Cardinality(Endpoints(pairs))]
  BY ReachedIsSearch
<1> DEFINE m == Cardinality(Endpoints(pairs))
<1>2. m \in Nat /\ m <= m
  BY FS_CardinalityType DEF Finite
<1>3. start \in f[m]
  BY <1>1, <1>2, SearchWidens
<1>4. CASE start \in Endpoints(pairs)
  <2>1. {start} \subseteq Endpoints(pairs)
    BY <1>4
  <2>2. \A n \in f[m] : Successors(pairs, n) \subseteq f[m]
    BY <1>1, <1>2, <2>1, SearchIsClosed DEF Finite
  <2> QED
    BY <1>1, <1>3, <2>2
<1>5. CASE start \notin Endpoints(pairs)
  <2>1. Successors(pairs, start) = {}
    BY <1>5 DEF Successors, Endpoints
  <2>2. Reached(pairs, start) \subseteq {start}
    BY <2>1, ReachedIsLeast
  <2> QED
    BY <1>1, <1>3, <2>1, <2>2
<1> QED
  BY <1>4, <1>5

(* A pair leads on; what is reached from what is reached is reached.       *)
LEMMA PairIsStep ==
  ASSUME NEW pairs, NEW p \in pairs
  PROVE  p[2] \in Successors(pairs, p[1])
BY DEF Successors

LEMMA ReachedOn ==
  ASSUME NEW pairs, Finite(pairs), NEW m, NEW n \in Reached(pairs, m)
  PROVE  Reached(pairs, n) \subseteq Reached(pairs, m)
BY ReachedIsClosed, ReachedIsLeast

(* More pairs reach more. *)
LEMMA ReachedMore ==
  ASSUME NEW pairs, NEW more, pairs \subseteq more, Finite(pairs), Finite(more), NEW n
  PROVE  Reached(pairs, n) \subseteq Reached(more, n)
<1>1. \A m : Successors(pairs, m) \subseteq Successors(more, m)
  BY DEF Successors
<1> QED
  BY <1>1, ReachedIsClosed, ReachedIsLeast

(* Finitely many pairs have finitely many endpoints. *)
LEMMA FewPairs ==
  ASSUME NEW nodes, IsFiniteSet(nodes), NEW pairs \in SUBSET (nodes \X nodes)
  PROVE  Finite(pairs) /\ Endpoints(pairs) \subseteq nodes
<1>1. Endpoints(pairs) \subseteq nodes
  BY DEF Endpoints
<1> QED
  BY <1>1, FS_Subset DEF Finite

-----------------------------------------------------------------------------
(* Without a cycle: no pair is closed by a path back.                      *)
NoWayBack(pairs) == \A p \in pairs : p[1] \notin Reached(pairs, p[2])

LEMMA NoCycleNoWayBack ==
  ASSUME NEW pairs
  PROVE  OnCycle(pairs) = {} <=> NoWayBack(pairs)
<1>1. ASSUME OnCycle(pairs) = {}, NEW p \in pairs PROVE p[1] \notin Reached(pairs, p[2])
  <2>1. p[1] \in Endpoints(pairs) /\ p[2] \in Successors(pairs, p[1])
    BY DEF Endpoints, Successors
  <2> QED
    BY <1>1, <2>1 DEF OnCycle, HasPath
<1>2. ASSUME NoWayBack(pairs), NEW n \in OnCycle(pairs) PROVE FALSE
  <2>1. PICK m \in Successors(pairs, n) : n \in Reached(pairs, m)
    BY DEF OnCycle, HasPath
  <2>2. PICK p \in pairs : p[1] = n /\ p[2] = m
    BY <2>1 DEF Successors
  <2> QED
    BY <1>2, <2>1, <2>2 DEF NoWayBack
<1> QED
  BY <1>1, <1>2 DEF NoWayBack

(* A new pair reaches what its second node reaches, from what reaches its  *)
(* first.                                                                  *)
LEMMA ReachedWithPair ==
  ASSUME NEW pairs, NEW a, NEW b, Finite(pairs), Finite(pairs \cup {<<a, b>>}), NEW n
  PROVE  Reached(pairs \cup {<<a, b>>}, n) \subseteq
           Reached(pairs, n) \cup (IF a \in Reached(pairs, n) \cup Reached(pairs, b)
                                   THEN Reached(pairs, b) ELSE {})
<1> DEFINE more == pairs \cup {<<a, b>>}
           all == Reached(pairs, n) \cup (IF a \in Reached(pairs, n) \cup Reached(pairs, b)
                                          THEN Reached(pairs, b) ELSE {})
<1>1. \A m : Successors(more, m) \subseteq Successors(pairs, m) \cup (IF m = a THEN {b} ELSE {})
  BY DEF Successors
<1>2. n \in all /\ b \in Reached(pairs, b)
  BY ReachedIsClosed
<1>3. \A m \in all : Successors(pairs, m) \subseteq all
  BY ReachedIsClosed
<1>4. a \in all => b \in all
  BY <1>2
<1>5. \A m \in all : Successors(more, m) \subseteq all
  <2> HIDE DEF all, more
  <2> QED
    BY <1>1, <1>3, <1>4
<1> QED
  <2> HIDE DEF all
  <2>1. Reached(more, n) \subseteq all
    BY <1>2, <1>5, ReachedIsLeast
  <2> QED
    BY <2>1 DEF all

(* cycle_if_added answers for the pair it is asked about. *)
LEMMA CheckIsExact ==
  ASSUME NEW pairs, NEW a, NEW b, Finite(pairs), Finite(pairs \cup {<<a, b>>}),
         NoWayBack(pairs)
  PROVE  CycleIfAdded(pairs, a, b) <=> ~NoWayBack(pairs \cup {<<a, b>>})
<1> DEFINE more == pairs \cup {<<a, b>>}
<1>1. ASSUME a \in Reached(pairs, b) PROVE ~NoWayBack(more)
  <2>1. a \in Reached(more, b) /\ <<a, b>> \in more
    BY <1>1, ReachedMore
  <2>2. <<a, b>>[1] = a /\ <<a, b>>[2] = b
    OBVIOUS
  <2> QED
    BY <2>1, <2>2 DEF NoWayBack
<1>2. ASSUME a \notin Reached(pairs, b), NEW p \in more, p[1] \in Reached(more, p[2])
      PROVE  FALSE
  <2>1. p[1] \in Reached(pairs, p[2]) \/ (a \in Reached(pairs, p[2]) /\ p[1] \in Reached(pairs, b))
    BY <1>2, ReachedWithPair
  <2>2. CASE p = <<a, b>>
    BY <1>2, <2>1, <2>2
  <2>3. CASE p \in pairs
    <3>1. p[1] \notin Reached(pairs, p[2])
      BY <2>3 DEF NoWayBack
    <3>2. a \in Reached(pairs, p[2]) /\ p[1] \in Reached(pairs, b)
      BY <2>1, <3>1
    <3>3. p[2] \in Reached(pairs, b)
      BY <2>3, <3>2, PairIsStep, ReachedIsClosed
    <3> QED
      BY <1>2, <3>2, <3>3, ReachedOn
  <2> QED
    BY <2>2, <2>3
<1> QED
  BY <1>1, <1>2 DEF CycleIfAdded, HasPath, NoWayBack

(* Fewer pairs close no cycle that more did not. *)
LEMMA FewerNoWayBack ==
  ASSUME NEW pairs, NEW more, pairs \subseteq more, Finite(pairs), Finite(more),
         NoWayBack(more)
  PROVE  NoWayBack(pairs)
BY ReachedMore DEF NoWayBack

-----------------------------------------------------------------------------
(* A bounded set of naturals has a greatest member, and a set of naturals  *)
(* a least.                                                                *)
LEMMA LeastNatural ==
  ASSUME NEW T, T \subseteq Nat, T # {}
  PROVE  \E y \in T : \A z \in T : y <= z
<1> DEFINE R == OpToRel(<, Nat)
<1>1. PICK y \in T : \A z \in T : <<z, y>> \notin R
  <2>1. IsWellFoundedOn(R, Nat)
    BY NatLessThanWellFounded
  <2> HIDE DEF R
  <2> QED
    BY <2>1, WFMin
<1>2. \A z \in T : ~(z < y)
  BY <1>1 DEF OpToRel
<1> QED
  BY <1>2

LEMMA GreatestNatural ==
  ASSUME NEW T, NEW m \in Nat, T \subseteq 0..m, T # {}
  PROVE  \E y \in T : \A z \in T : z <= y
<1> DEFINE U == {k \in 0..m : m - k \in T}
<1>1. \A z \in T : z \in 0..m /\ m - z \in 0..m /\ m - (m - z) = z
  OBVIOUS
<1>2. U \subseteq Nat /\ U # {}
  <2>1. PICK z \in T : TRUE
    OBVIOUS
  <2>2. m - z \in U
    BY <1>1, <2>1
  <2> QED
    BY <2>2
<1>3. PICK y \in U : \A z \in U : y <= z
  <2> HIDE DEF U
  <2> QED
    BY <1>2, LeastNatural
<1>4. ASSUME NEW z \in T PROVE z <= m - y
  <2>1. m - z \in U
    BY <1>1
  <2>2. y <= m - z
    BY <1>3, <2>1
  <2> QED
    BY <1>1, <2>2
<1> QED
  BY <1>3, <1>4

(* Where everybody comes after somebody, everybody comes after a cycle.    *)
LEMMA CycleBehind ==
  ASSUME NEW pairs, Finite(pairs), NEW L, IsFiniteSet(L),
         \A n \in L : \E p \in pairs : p[2] = n /\ p[1] \in L,
         NEW t \in L
  PROVE  \E c \in OnCycle(pairs) : HasPath(pairs, c, t)
<1> DEFINE S == L \cup Endpoints(pairs)
           Size(u) == Cardinality(Reached(pairs, u))
           A == {u \in L : t \in Reached(pairs, u)}
           T == {Size(u) : u \in A}
<1>1. IsFiniteSet(S)
  BY FS_Union DEF Finite
<1>2. \A u \in S : Reached(pairs, u) \in SUBSET S
  <2>1. \A n \in S : Successors(pairs, n) \subseteq S
    BY DEF Successors, Endpoints
  <2> HIDE DEF S
  <2> QED
    BY <2>1, ReachedIsLeast
<1>3. \A u \in S : /\ IsFiniteSet(Reached(pairs, u))
                   /\ Size(u) \in Nat /\ Size(u) <= Cardinality(S)
  <2> HIDE DEF S
  <2> QED
    BY <1>1, <1>2, FS_Subset, FS_CardinalityType
<1>4. Cardinality(S) \in Nat
  BY <1>1, FS_CardinalityType
<1>5. t \in A
  BY ReachedIsClosed
<1>6. T \subseteq 0..Cardinality(S) /\ T # {}
  <2>1. \A u \in A : u \in S
    OBVIOUS
  <2>2. \A u \in A : Size(u) \in 0..Cardinality(S)
    <3> HIDE DEF S, A, Size
    <3> QED
      BY <1>3, <1>4, <2>1 DEF Size
  <2>3. Size(t) \in T
    BY <1>5
  <2> HIDE DEF A, S, Size
  <2> QED
    BY <2>2, <2>3
<1>7. PICK y \in T : \A z \in T : z <= y
  <2> HIDE DEF T
  <2> QED
    BY <1>4, <1>6, GreatestNatural
<1>8. PICK u \in A : \A v \in A : Size(v) <= Size(u)
  BY <1>7
<1>9. PICK p \in pairs : p[2] = u /\ p[1] \in L
  OBVIOUS
<1>10. /\ u \in Successors(pairs, p[1]) /\ p[1] \in Endpoints(pairs)
       /\ p[1] \in Reached(pairs, p[1]) /\ u \in Reached(pairs, p[1])
  BY <1>9, ReachedIsClosed DEF Successors, Endpoints
<1>11. Reached(pairs, u) \subseteq Reached(pairs, p[1]) /\ p[1] \in A
  BY <1>9, <1>10, ReachedOn
<1>12. Reached(pairs, u) = Reached(pairs, p[1])
  <2>1. Size(p[1]) <= Size(u)
    BY <1>8, <1>11
  <2>2. /\ IsFiniteSet(Reached(pairs, p[1]))
        /\ Reached(pairs, u) \in SUBSET Reached(pairs, p[1])
        /\ Size(p[1]) \in Nat /\ Size(u) \in Nat
    BY <1>3, <1>11
  <2>3. Size(u) <= Size(p[1])
    BY <2>2, FS_Subset
  <2>4. Size(u) = Size(p[1])
    BY <2>1, <2>2, <2>3
  <2> QED
    BY <2>2, <2>4, FS_Subset
<1>13. p[1] \in OnCycle(pairs)
  BY <1>10, <1>12 DEF OnCycle, HasPath
<1> QED
  BY <1>11, <1>13 DEF HasPath

-----------------------------------------------------------------------------
(* sorted: every node once, by rank. *)
Ranked(nodes, rank) ==
  /\ IsFiniteSet(nodes) /\ \A n \in nodes : rank[n] \in Nat
  /\ \A m, n \in nodes : rank[m] = rank[n] => m = n

LEMMA ByRankIsSorted ==
  ASSUME NEW nodes, NEW rank, Ranked(nodes, rank)
  PROVE  LET s == ByRank(nodes, rank) IN
           /\ s \in [1..Cardinality(nodes) -> nodes]
           /\ \A i, j \in DOMAIN s : i < j => rank[s[i]] < rank[s[j]]
<1> DEFINE upTo(x) == {y \in nodes : rank[y] <= rank[x]}
           n == Cardinality(nodes)
           place == [x \in nodes |-> Cardinality(upTo(x))]
<1>1. n \in Nat
  BY FS_CardinalityType DEF Ranked
<1>2. ASSUME NEW x \in nodes
      PROVE  /\ IsFiniteSet(upTo(x)) /\ Cardinality(upTo(x)) \in Nat
             /\ Cardinality(upTo(x)) <= n /\ Cardinality(upTo(x)) # 0
  <2>1. upTo(x) \in SUBSET nodes /\ x \in upTo(x)
    BY DEF Ranked
  <2> HIDE DEF upTo
  <2>2. IsFiniteSet(upTo(x)) /\ Cardinality(upTo(x)) <= n
    BY <2>1, FS_Subset DEF Ranked
  <2>3. Cardinality(upTo(x)) \in Nat /\ Cardinality(upTo(x)) # 0
    BY <2>1, <2>2, FS_CardinalityType, FS_EmptySet
  <2> QED
    BY <2>2, <2>3
<1>3. ASSUME NEW x \in nodes, NEW y \in nodes, rank[x] < rank[y]
      PROVE  place[x] < place[y]
  <2>1. upTo(x) \in SUBSET upTo(y) /\ y \in upTo(y) /\ y \notin upTo(x)
    BY <1>3 DEF Ranked
  <2>2. /\ IsFiniteSet(upTo(y)) /\ Cardinality(upTo(x)) \in Nat
        /\ Cardinality(upTo(y)) \in Nat
    BY <1>2
  <2> HIDE DEF upTo
  <2>3. Cardinality(upTo(x)) <= Cardinality(upTo(y)) /\ Cardinality(upTo(x)) # Cardinality(upTo(y))
    BY <2>1, <2>2, FS_Subset
  <2> QED
    BY <2>2, <2>3
<1>4. place \in [nodes -> 1..n]
  <2> HIDE DEF upTo, n
  <2>1. ASSUME NEW x \in nodes PROVE Cardinality(upTo(x)) \in 1..n
    <3>1. /\ Cardinality(upTo(x)) \in Nat /\ Cardinality(upTo(x)) <= n
          /\ Cardinality(upTo(x)) # 0
      BY <1>2
    <3> QED
      BY <1>1, <3>1
  <2> QED
    BY <2>1
<1> HIDE DEF place
<1>5. \A x, y \in nodes : place[x] = place[y] => x = y
  <2> SUFFICES ASSUME NEW x \in nodes, NEW y \in nodes, place[x] = place[y], x # y
               PROVE  FALSE
    OBVIOUS
  <2>1. rank[x] \in Nat /\ rank[y] \in Nat /\ rank[x] # rank[y]
    BY DEF Ranked
  <2>2. place[x] \in 1..n /\ place[y] \in 1..n
    BY <1>4
  <2>3. place[x] < place[y] \/ place[y] < place[x]
    BY <1>3, <2>1
  <2> QED
    BY <1>1, <2>2, <2>3
<1>6. place \in Injection(nodes, 1..n)
  BY <1>4, <1>5 DEF Injection, IsInjective
<1>7. IsFiniteSet(1..n) /\ Cardinality(1..n) = n
  BY <1>1, FS_Interval
<1>8. place \in Surjection(nodes, 1..n)
  <2> HIDE DEF n
  <2>1. Cardinality(nodes) = n
    BY DEF n
  <2> QED
    BY <1>6, <1>7, <2>1, FS_Injection
<1>9. \A i \in 1..n : \E x \in nodes : place[x] = i
  BY <1>8 DEF Surjection
<1> DEFINE s == [i \in 1..n |-> CHOOSE x \in nodes : place[x] = i]
<1>10. \A i \in 1..n : s[i] \in nodes /\ place[s[i]] = i
  BY <1>9
<1>11. s \in [1..n -> nodes]
  BY <1>10
<1> HIDE DEF s
<1>12. \A i, j \in DOMAIN s : i < j => rank[s[i]] < rank[s[j]]
  <2> SUFFICES ASSUME NEW i \in 1..n, NEW j \in 1..n, i < j, ~(rank[s[i]] < rank[s[j]])
               PROVE  FALSE
    BY <1>11
  <2>1. s[i] \in nodes /\ s[j] \in nodes /\ place[s[i]] = i /\ place[s[j]] = j
    BY <1>10
  <2>2. rank[s[i]] \in Nat /\ rank[s[j]] \in Nat
    BY <2>1 DEF Ranked
  <2>3. rank[s[j]] < rank[s[i]] \/ rank[s[j]] = rank[s[i]]
    BY <2>2
  <2>4. s[j] = s[i] \/ j < i
    BY <1>3, <2>1, <2>3 DEF Ranked
  <2> QED
    BY <1>1, <2>1, <2>4
<1>13. \E f \in [1..n -> nodes] : \A i, j \in DOMAIN f : i < j => rank[f[i]] < rank[f[j]]
  BY <1>11, <1>12
<1> QED
  BY <1>13, Zenon DEF ByRank

(* ... so that all of them are there, and the length is their number.      *)
LEMMA ByRankIsAll ==
  ASSUME NEW nodes, NEW rank, Ranked(nodes, rank)
  PROVE  LET s == ByRank(nodes, rank) IN
           /\ s \in Seq(nodes) /\ Len(s) = Cardinality(nodes) /\ ToSet(s) = nodes
           /\ \A i, j \in DOMAIN s : s[i] = s[j] => i = j
<1> DEFINE s == ByRank(nodes, rank)
           n == Cardinality(nodes)
<1>1. s \in [1..n -> nodes] /\ \A i, j \in DOMAIN s : i < j => rank[s[i]] < rank[s[j]]
  BY ByRankIsSorted
<1>2. n \in Nat
  BY FS_CardinalityType DEF Ranked
<1> HIDE DEF s
<1>3. \A i, j \in 1..n : s[i] = s[j] => i = j
  <2> SUFFICES ASSUME NEW i \in 1..n, NEW j \in 1..n, s[i] = s[j], i < j
               PROVE  FALSE
    BY <1>2
  <2>1. rank[s[i]] < rank[s[j]] /\ rank[s[i]] \in Nat
    BY <1>1 DEF Ranked
  <2> QED
    BY <2>1
<1>4. s \in Injection(1..n, nodes)
  BY <1>1, <1>3 DEF Injection, IsInjective
<1>5. IsFiniteSet(1..n) /\ Cardinality(1..n) = n
  BY <1>2, FS_Interval
<1>6. s \in Surjection(1..n, nodes)
  BY <1>4, <1>5, FS_Injection DEF Ranked
<1>7. ToSet(s) = nodes
  BY <1>1, <1>6 DEF Surjection, ToSet
<1>8. s \in Seq(nodes) /\ Len(s) = n
  BY <1>1, <1>2
<1> QED
  BY <1>1, <1>3, <1>7, <1>8 DEF s
-----------------------------------------------------------------------------
(* topological_order.  Among the nodes that are ready, one has the least   *)
(* rank; it was not emitted before, and its predecessors were.             *)
Emitted(pairs, nodes, s) ==
  /\ s \in Seq(nodes)
  /\ \A i, j \in 1..Len(s) : s[i] = s[j] => i = j
  /\ \A j \in 1..Len(s) : \A p \in Inner(pairs, nodes) :
       p[2] = s[j] => \E i \in 1..(j - 1) : s[i] = p[1]

LEMMA LeastRank ==
  ASSUME NEW nodes, NEW rank, Ranked(nodes, rank), NEW next \in SUBSET nodes, next # {}
  PROVE  \E n \in next : \A m \in next : rank[n] <= rank[m]
<1> DEFINE T == {rank[n] : n \in next}
<1>1. T \subseteq Nat /\ T # {}
  BY DEF Ranked
<1>2. PICK y \in T : \A z \in T : y <= z
  <2> HIDE DEF T
  <2> QED
    BY <1>1, LeastNatural
<1> QED
  BY <1>2

LEMMA EmitsTheNext ==
  ASSUME NEW pairs, NEW nodes, NEW rank, Ranked(nodes, rank), NEW s \in Seq(nodes)
  PROVE  \/ ReadyAfter(pairs, nodes, ToSet(s)) = {} /\ Emit(pairs, nodes, rank, s) = s
         \/ \E n \in ReadyAfter(pairs, nodes, ToSet(s)) :
              Emit(pairs, nodes, rank, s) = Append(s, n)
<1> DEFINE next == ReadyAfter(pairs, nodes, ToSet(s))
<1>1. next \in SUBSET nodes
  BY DEF ReadyAfter
<1>2. CASE next = {}
  BY <1>2 DEF Emit
<1>3. CASE next # {}
  <2> DEFINE n == CHOOSE n \in next : \A m \in next : rank[n] <= rank[m]
  <2>1. \E x \in next : \A m \in next : rank[x] <= rank[m]
    <3> HIDE DEF next
    <3> QED
      BY <1>1, <1>3, LeastRank
  <2>2. n \in next
    <3> HIDE DEF next
    <3> QED
      BY <2>1
  <2>3. Emit(pairs, nodes, rank, s) = Append(s, n)
    BY <1>3 DEF Emit
  <2> HIDE DEF n
  <2> QED
    BY <2>2, <2>3
<1> QED
  BY <1>2, <1>3

LEMMA EmitKeeps ==
  ASSUME NEW pairs, NEW nodes, NEW rank, Ranked(nodes, rank),
         NEW s, Emitted(pairs, nodes, s)
  PROVE  LET t == Emit(pairs, nodes, rank, s) IN
           /\ Emitted(pairs, nodes, t)
           /\ ToSet(s) \subseteq ToSet(t)
           /\ ToSet(s) = ToSet(t) => t = s /\ ReadyAfter(pairs, nodes, ToSet(s)) = {}
<1> DEFINE t == Emit(pairs, nodes, rank, s)
<1>1. s \in Seq(nodes) /\ Len(s) \in Nat /\ ToSet(s) = {s[i] : i \in 1..Len(s)}
  BY DEF Emitted, ToSet
<1>2. CASE ReadyAfter(pairs, nodes, ToSet(s)) = {} /\ t = s
  BY <1>2
<1>3. ASSUME NEW n \in ReadyAfter(pairs, nodes, ToSet(s)), t = Append(s, n)
      PROVE  Emitted(pairs, nodes, t) /\ ToSet(s) \subseteq ToSet(t) /\ n \in ToSet(t) \ ToSet(s)
  <2> HIDE DEF t
  <2>1. /\ n \in nodes /\ n \notin ToSet(s)
        /\ \A p \in Inner(pairs, nodes) : p[2] = n => p[1] \in ToSet(s)
    BY DEF ReadyAfter, Predecessors
  <2>2. /\ t \in Seq(nodes) /\ Len(t) = Len(s) + 1 /\ t[Len(s) + 1] = n
        /\ \A i \in 1..Len(s) : t[i] = s[i]
    BY <1>1, <1>3, <2>1
  <2>3. ASSUME NEW i \in 1..Len(t), NEW j \in 1..Len(t), t[i] = t[j]
        PROVE  i = j
    <3>1. \A k \in 1..Len(s) : s[k] # n
      BY <1>1, <2>1
    <3>2. (i \in 1..Len(s) \/ i = Len(s) + 1) /\ (j \in 1..Len(s) \/ j = Len(s) + 1)
      BY <1>1, <2>2
    <3>3. CASE i \in 1..Len(s) /\ j \in 1..Len(s)
      BY <2>2, <2>3, <3>3 DEF Emitted
    <3> QED
      BY <2>2, <2>3, <3>1, <3>2, <3>3
  <2>4. ASSUME NEW j \in 1..Len(t), NEW p \in Inner(pairs, nodes), p[2] = t[j]
        PROVE  \E i \in 1..(j - 1) : t[i] = p[1]
    <3>1. CASE j \in 1..Len(s)
      <4>1. PICK i \in 1..(j - 1) : s[i] = p[1]
        BY <2>2, <2>4, <3>1 DEF Emitted
      <4>2. i \in 1..Len(s)
        BY <1>1, <3>1
      <4> QED
        BY <2>2, <4>1, <4>2
    <3>2. CASE j = Len(s) + 1
      <4>1. p[1] \in ToSet(s)
        BY <2>1, <2>2, <2>4, <3>2
      <4>2. PICK i \in 1..Len(s) : s[i] = p[1]
        BY <1>1, <4>1
      <4>3. i \in 1..(j - 1)
        BY <1>1, <3>2
      <4> QED
        BY <2>2, <4>2, <4>3
    <3> QED
      BY <1>1, <2>2, <3>1, <3>2
  <2>5. ToSet(t) = {t[i] : i \in 1..Len(t)}
    BY <2>2 DEF ToSet
  <2>6. \A i \in 1..Len(s) : i \in 1..Len(t) /\ Len(s) + 1 \in 1..Len(t)
    BY <1>1, <2>2
  <2>7. ToSet(s) \subseteq ToSet(t)
    BY <1>1, <2>2, <2>5, <2>6
  <2>8. n \in ToSet(t)
    <3>1. Len(s) + 1 \in 1..Len(t)
      BY <1>1, <2>2
    <3> QED
      BY <2>2, <2>5, <3>1
  <2> QED
    BY <2>1, <2>2, <2>3, <2>4, <2>7, <2>8 DEF Emitted
<1>4. \/ ReadyAfter(pairs, nodes, ToSet(s)) = {} /\ t = s
      \/ \E n \in ReadyAfter(pairs, nodes, ToSet(s)) : t = Append(s, n)
  BY <1>1, EmitsTheNext
<1> HIDE DEF t
<1>5. Emitted(pairs, nodes, t) /\ ToSet(s) \subseteq ToSet(t)
  BY <1>2, <1>3, <1>4
<1>6. ToSet(s) = ToSet(t) => t = s /\ ReadyAfter(pairs, nodes, ToSet(s)) = {}
  BY <1>2, <1>3, <1>4
<1> QED
  BY <1>5, <1>6 DEF t

(* The rounds of topological_order, as many as there are nodes. *)
Emission(f, pairs, nodes, rank, m) ==
  f = [k \in 0..m |-> IF k = 0 THEN <<>> ELSE Emit(pairs, nodes, rank, f[k - 1])]

LEMMA EmissionIsDefined ==
  ASSUME NEW pairs, NEW nodes, NEW rank, Ranked(nodes, rank), NEW m \in Nat
  PROVE  \E f : Emission(f, pairs, nodes, rank, m)
<1> DEFINE D == Seq(nodes)
           step == [x \in D \X (1..m) |-> Emit(pairs, nodes, rank, x[1])]
<1>1. \A s \in D : Emit(pairs, nodes, rank, s) \in D
  <2> SUFFICES ASSUME NEW s \in D PROVE Emit(pairs, nodes, rank, s) \in D
    OBVIOUS
  <2>1. ReadyAfter(pairs, nodes, ToSet(s)) \subseteq nodes
    BY DEF ReadyAfter
  <2>2. \A n \in nodes : Append(s, n) \in Seq(nodes)
    OBVIOUS
  <2> QED
    BY <2>1, <2>2, EmitsTheNext
<1>2. <<>> \in D
  OBVIOUS
<1>3. step \in [D \X (1..m) -> D]
  <2> HIDE DEF D
  <2> QED
    BY <1>1
<1>4. PICK f \in [0..m -> D] : Iterates(f, <<>>, step, m)
  <2> HIDE DEF D, step
  <2> QED
    BY <1>2, <1>3, IterationExists
<1>5. ASSUME NEW i \in 0..m, i # 0 PROVE f[i] = Emit(pairs, nodes, rank, f[i - 1])
  <2>1. i \in 1..m /\ i - 1 \in 0..m
    BY <1>5
  <2>2. <<f[i - 1], i>> \in D \X (1..m)
    BY <2>1
  <2>3. f[i] = step[<<f[i - 1], i>>]
    BY <1>4, <2>1 DEF Iterates
  <2> HIDE DEF D
  <2> QED
    BY <2>2, <2>3
<1>6. f[0] = <<>>
  BY <1>4 DEF Iterates
<1> DEFINE h == [k \in 0..m |-> IF k = 0 THEN <<>> ELSE Emit(pairs, nodes, rank, f[k - 1])]
<1>7. f = [k \in 0..m |-> f[k]] /\ \A k \in 0..m : f[k] = h[k]
  <2> HIDE DEF D
  <2> QED
    BY <1>5, <1>6
<1>8. f = h
  <2> HIDE DEF D
  <2> QED
    BY <1>7
<1> QED
  BY <1>8, Zenon DEF Emission

LEMMA EmissionRounds ==
  ASSUME NEW pairs, NEW nodes, NEW rank, NEW m \in Nat, NEW f,
         Emission(f, pairs, nodes, rank, m)
  PROVE  f[0] = <<>> /\ \A k \in 1..m : f[k] = Emit(pairs, nodes, rank, f[k - 1])
<1>1. \A k \in 0..m : f[k] = IF k = 0 THEN <<>> ELSE Emit(pairs, nodes, rank, f[k - 1])
  BY Zenon DEF Emission
<1> QED
  BY <1>1

(* After so many rounds nothing is ready any more, and what was emitted is *)
(* in order.                                                               *)
LEMMA EmissionEnds ==
  ASSUME NEW pairs, NEW nodes, NEW rank, Ranked(nodes, rank), NEW f,
         Emission(f, pairs, nodes, rank, Cardinality(nodes))
  PROVE  LET s == f[Cardinality(nodes)] IN
           Emitted(pairs, nodes, s) /\ ReadyAfter(pairs, nodes, ToSet(s)) = {}
<1> DEFINE m == Cardinality(nodes)
<1>0. m \in Nat
  BY FS_CardinalityType DEF Ranked
<1>1. f[0] = <<>> /\ \A k \in 1..m : f[k] = Emit(pairs, nodes, rank, f[k - 1])
  <2> HIDE DEF m
  <2>1. Emission(f, pairs, nodes, rank, m)
    BY DEF m
  <2> QED
    BY <1>0, <2>1, EmissionRounds
<1> HIDE DEF m
<1>2. \A k \in 0..m : Emitted(pairs, nodes, f[k])
  <2> DEFINE S == {k \in 0..m : Emitted(pairs, nodes, f[k])}
  <2>1. 0 \in S
    <3>1. Emitted(pairs, nodes, <<>>)
      BY DEF Emitted
    <3> QED
      BY <1>0, <1>1, <3>1
  <2>2. ASSUME NEW n \in 0..m, n \in S, n # m PROVE n + 1 \in S
    <3>1. n + 1 \in 1..m /\ (n + 1) - 1 = n /\ Emitted(pairs, nodes, f[n])
      BY <1>0, <2>2
    <3>2. f[n + 1] = Emit(pairs, nodes, rank, f[n])
      BY <1>1, <3>1
    <3>3. Emitted(pairs, nodes, f[n + 1])
      BY <3>1, <3>2, EmitKeeps
    <3> QED
      BY <3>1, <3>3
  <2>3. \A k \in 0..m : k \in S
    <3> HIDE DEF S
    <3> QED
      BY <1>0, <2>1, <2>2, UpTo
  <2> QED
    BY <2>3
<1>3. ASSUME NEW k \in 1..m
      PROVE  /\ ToSet(f[k - 1]) \subseteq ToSet(f[k])
             /\ ToSet(f[k - 1]) = ToSet(f[k])
                  => f[k] = f[k - 1] /\ ReadyAfter(pairs, nodes, ToSet(f[k - 1])) = {}
  <2>1. k - 1 \in 0..m
    BY <1>0
  <2>2. Emitted(pairs, nodes, f[k - 1]) /\ f[k] = Emit(pairs, nodes, rank, f[k - 1])
    BY <1>1, <1>2, <2>1
  <2>3. \A s : Emitted(pairs, nodes, s) =>
          LET t == Emit(pairs, nodes, rank, s) IN
            /\ ToSet(s) \subseteq ToSet(t)
            /\ ToSet(s) = ToSet(t) => t = s /\ ReadyAfter(pairs, nodes, ToSet(s)) = {}
    BY EmitKeeps, Zenon
  <2> QED
    BY <2>2, <2>3, Zenon
<1> DEFINE h == [k \in 0..m |-> ToSet(f[k])]
<1>4. h \in [0..m -> SUBSET nodes]
  <2>1. \A k \in 0..m : ToSet(f[k]) \in SUBSET nodes
    BY <1>2 DEF Emitted, ToSet
  <2> QED
    BY <2>1
<1>5. \A k \in 1..m : /\ k \in 0..m /\ k - 1 \in 0..m
                      /\ h[k] = ToSet(f[k]) /\ h[k - 1] = ToSet(f[k - 1])
  BY <1>0
<1> HIDE DEF h
<1>6. h[m] = nodes \/ \E k \in 1..m : h[k - 1] = h[k]
  <2>1. \A k \in 1..m : h[k - 1] \subseteq h[k]
    BY <1>3, <1>5
  <2>2. IsFiniteSet(nodes) /\ Cardinality(nodes) <= m
    BY <1>0 DEF Ranked, m
  <2> QED
    BY <1>0, <1>4, <2>1, <2>2, ChainStops
<1>7. CASE h[m] = nodes
  <2>1. ToSet(f[m]) = nodes
    BY <1>0, <1>7 DEF h
  <2>2. ReadyAfter(pairs, nodes, nodes) = {}
    BY DEF ReadyAfter
  <2> QED
    BY <1>0, <1>2, <2>1, <2>2 DEF m
<1>8. ASSUME NEW k \in 1..m, h[k - 1] = h[k]
      PROVE  f[m] = f[k - 1] /\ ReadyAfter(pairs, nodes, ToSet(f[k - 1])) = {}
  <2>1. f[k] = f[k - 1] /\ ReadyAfter(pairs, nodes, ToSet(f[k - 1])) = {}
    BY <1>3, <1>5, <1>8
  <2> DEFINE S == {i \in 0..m : i < k \/ f[i] = f[k - 1]}
  <2>2. 0 \in S
    BY <1>0
  <2>3. ASSUME NEW n \in 0..m, n \in S, n # m PROVE n + 1 \in S
    <3>1. n + 1 \in 1..m /\ (n + 1) - 1 = n
      BY <1>0, <2>3
    <3>2. CASE n + 1 < k
      BY <3>1, <3>2
    <3>3. CASE n + 1 = k
      BY <2>1, <3>1, <3>3
    <3>4. CASE n + 1 > k
      <4>1. f[n] = f[k - 1]
        BY <2>3, <3>1, <3>4
      <4>2. f[n + 1] = Emit(pairs, nodes, rank, f[n])
        BY <1>1, <3>1
      <4>3. f[k] = Emit(pairs, nodes, rank, f[k - 1])
        BY <1>1
      <4> QED
        BY <2>1, <3>1, <4>1, <4>2, <4>3
    <3> QED
      BY <3>1, <3>2, <3>3, <3>4
  <2>4. \A i \in 0..m : i \in S
    <3> HIDE DEF S
    <3> QED
      BY <1>0, <2>2, <2>3, UpTo
  <2>5. m \in 0..m /\ ~(m < k)
    BY <1>0
  <2>6. f[m] = f[k - 1]
    BY <2>4, <2>5
  <2> QED
    BY <2>1, <2>6
<1>9. Emitted(pairs, nodes, f[m]) /\ ReadyAfter(pairs, nodes, ToSet(f[m])) = {}
  <2>1. Emitted(pairs, nodes, f[m])
    BY <1>0, <1>2
  <2> QED
    BY <1>6, <1>7, <1>8, <2>1 DEF m
<1> QED
  BY <1>9 DEF m

(* Two sequences of distinct things, with nothing in common, one after the *)
(* other.                                                                  *)
LEMMA ListedApart ==
  ASSUME NEW nodes, IsFiniteSet(nodes), NEW s \in Seq(nodes), NEW t \in Seq(nodes),
         \A i, j \in 1..Len(s) : s[i] = s[j] => i = j,
         \A i, j \in 1..Len(t) : t[i] = t[j] => i = j,
         ToSet(t) = nodes \ ToSet(s)
  PROVE  LET all == s \o t IN
           /\ all \in Seq(nodes) /\ Len(all) = Cardinality(nodes) /\ ToSet(all) = nodes
           /\ \A i, j \in 1..Len(all) : all[i] = all[j] => i = j
<1> DEFINE all == s \o t
<1>1. /\ all \in Seq(nodes) /\ Len(s) \in Nat /\ Len(t) \in Nat /\ Len(all) = Len(s) + Len(t)
      /\ \A i \in 1..Len(s) : all[i] = s[i]
      /\ \A i \in (Len(s) + 1)..(Len(s) + Len(t)) : all[i] = t[i - Len(s)]
  OBVIOUS
<1> HIDE DEF all
<1>2. /\ ToSet(s) = {s[i] : i \in 1..Len(s)} /\ ToSet(t) = {t[i] : i \in 1..Len(t)}
      /\ ToSet(all) = {all[i] : i \in 1..Len(all)}
  <2>1. DOMAIN s = 1..Len(s) /\ DOMAIN t = 1..Len(t) /\ DOMAIN all = 1..Len(all)
    BY <1>1
  <2> QED
    BY <2>1 DEF ToSet
<1>3. \A i \in 1..Len(all) : \/ i \in 1..Len(s) /\ all[i] = s[i]
                             \/ /\ i - Len(s) \in 1..Len(t) /\ i \notin 1..Len(s)
                                /\ all[i] = t[i - Len(s)]
  BY <1>1
<1>4. \A i \in 1..Len(s) : s[i] \in ToSet(s)
  BY <1>2
<1>5. \A i \in 1..Len(t) : t[i] \in ToSet(t) /\ t[i] \notin ToSet(s)
  BY <1>2
<1>6. \A i, j \in 1..Len(all) : all[i] = all[j] => i = j
  <2> SUFFICES ASSUME NEW i \in 1..Len(all), NEW j \in 1..Len(all), all[i] = all[j]
               PROVE  i = j
    OBVIOUS
  <2>1. CASE i \in 1..Len(s) /\ j \in 1..Len(s)
    BY <1>1, <2>1
  <2>2. CASE i \notin 1..Len(s) /\ j \notin 1..Len(s)
    <3>1. i - Len(s) = j - Len(s)
      BY <1>3, <2>2
    <3> QED
      BY <1>1, <3>1
  <2> QED
    BY <1>3, <1>4, <1>5, <2>1, <2>2
<1>7. ToSet(all) = nodes
  <2>1. ToSet(all) \subseteq nodes
    BY <1>1, <1>2
  <2>2. \A n \in nodes : n \in ToSet(s) \/ n \in ToSet(t)
    OBVIOUS
  <2>3. ASSUME NEW n \in ToSet(s) PROVE n \in ToSet(all)
    <3>1. PICK i \in 1..Len(s) : s[i] = n
      BY <1>2
    <3>2. i \in 1..Len(all)
      BY <1>1
    <3> QED
      BY <1>1, <1>2, <3>1, <3>2
  <2>4. ASSUME NEW n \in ToSet(t) PROVE n \in ToSet(all)
    <3>1. PICK i \in 1..Len(t) : t[i] = n
      BY <1>2
    <3>2. /\ i + Len(s) \in 1..Len(all) /\ i + Len(s) \in (Len(s) + 1)..(Len(s) + Len(t))
          /\ (i + Len(s)) - Len(s) = i
      BY <1>1
    <3>3. all[i + Len(s)] = n
      BY <1>1, <3>1, <3>2
    <3> QED
      BY <1>2, <3>2, <3>3
  <2> QED
    BY <2>1, <2>2, <2>3, <2>4
<1>8. Len(all) = Cardinality(nodes)
  <2>1. all \in [1..Len(all) -> nodes]
    BY <1>1
  <2>2. all \in Bijection(1..Len(all), nodes)
    BY <1>2, <1>6, <1>7, <2>1 DEF Bijection, Injection, Surjection, IsInjective
  <2>3. IsFiniteSet(1..Len(all)) /\ Cardinality(1..Len(all)) = Len(all)
    BY <1>1, FS_Interval
  <2>4. Cardinality(1..Len(all)) = Cardinality(nodes)
    BY <2>2, <2>3, FS_Bijection DEF ExistsBijection
  <2> QED
    BY <2>3, <2>4
<1> QED
  BY <1>1, <1>6, <1>7, <1>8 DEF all

(* Every node is listed once, after its predecessors unless it is on a     *)
(* cycle or behind one.                                                    *)
LEMMA TopologicalOrderIsAll ==
  ASSUME NEW pairs, NEW nodes, NEW rank, Ranked(nodes, rank),
         pairs \in SUBSET (nodes \X nodes)
  PROVE  LET s == TopologicalOrder(pairs, nodes, rank) IN
           /\ s \in Seq(nodes) /\ Len(s) = Cardinality(nodes) /\ ToSet(s) = nodes
           /\ \A i, j \in 1..Len(s) :
                /\ <<s[i], s[j]>> \in pairs /\ s[i] # s[j]
                /\ ~\E c \in OnCycle(pairs) : HasPath(pairs, c, s[j])
                => i < j
<1> DEFINE m == Cardinality(nodes)
           f == CHOOSE f : Emission(f, pairs, nodes, rank, m)
           o == f[m]
           left == nodes \ ToSet(o)
           r == ByRank(left, rank)
           s == o \o r
<1>1. m \in Nat /\ IsFiniteSet(nodes)
  BY FS_CardinalityType DEF Ranked
<1>2. Emission(f, pairs, nodes, rank, m)
  <2>1. \E g : Emission(g, pairs, nodes, rank, m)
    BY <1>1, EmissionIsDefined
  <2> QED
    BY <2>1, Zenon
<1>3. TopologicalOrder(pairs, nodes, rank) = s
  BY Zenon DEF TopologicalOrder, Emission
<1> HIDE DEF f
<1>4. Emitted(pairs, nodes, o) /\ ReadyAfter(pairs, nodes, ToSet(o)) = {}
  <2>1. \A g : Emission(g, pairs, nodes, rank, m) =>
          Emitted(pairs, nodes, g[m]) /\ ReadyAfter(pairs, nodes, ToSet(g[m])) = {}
    BY EmissionEnds, Zenon
  <2> QED
    BY <1>2, <2>1, Zenon
<1> HIDE DEF o, m
<1>5. Ranked(left, rank)
  <2>1. left \in SUBSET nodes
    OBVIOUS
  <2>2. IsFiniteSet(left)
    BY <1>1, <2>1, FS_Subset
  <2> QED
    BY <2>2 DEF Ranked
<1> HIDE DEF left
<1>6. /\ r \in Seq(left) /\ ToSet(r) = left
      /\ \A i, j \in 1..Len(r) : r[i] = r[j] => i = j
  BY <1>5, ByRankIsAll
<1>7. o \in Seq(nodes) /\ \A i, j \in 1..Len(o) : o[i] = o[j] => i = j
  BY <1>4 DEF Emitted
<1>8. r \in Seq(nodes) /\ ToSet(r) = nodes \ ToSet(o)
  <2>1. left \subseteq nodes
    BY DEF left
  <2>2. r \in Seq(nodes)
    BY <1>6, <2>1
  <2> QED
    BY <1>6, <2>2 DEF left
<1> HIDE DEF r
<1>9. /\ s \in Seq(nodes) /\ Len(s) = Cardinality(nodes) /\ ToSet(s) = nodes
      /\ \A i, j \in 1..Len(s) : s[i] = s[j] => i = j
  BY <1>1, <1>6, <1>7, <1>8, ListedApart
<1>10. /\ Len(o) \in Nat /\ Len(r) \in Nat /\ Len(s) = Len(o) + Len(r)
       /\ \A i \in 1..Len(o) : s[i] = o[i]
       /\ \A i \in (Len(o) + 1)..Len(s) : s[i] = r[i - Len(o)] /\ i - Len(o) \in 1..Len(r)
  BY <1>7, <1>8
<1> HIDE DEF s
<1>11. ASSUME NEW n \in left PROVE \E p \in pairs : p[2] = n /\ p[1] \in left
  <2>1. n \in nodes \ ToSet(o) /\ n \notin ReadyAfter(pairs, nodes, ToSet(o))
    BY <1>4 DEF left
  <2>2. PICK p \in Inner(pairs, nodes) : p[2] = n /\ p[1] \notin ToSet(o)
    BY <2>1 DEF ReadyAfter, Predecessors
  <2>3. p \in pairs /\ p[1] \in nodes
    BY DEF Inner
  <2> QED
    BY <2>2, <2>3 DEF left
<1>12. ASSUME NEW t \in left PROVE \E c \in OnCycle(pairs) : HasPath(pairs, c, t)
  <2>1. Finite(pairs)
    BY <1>1, FewPairs
  <2>2. IsFiniteSet(left)
    BY <1>5 DEF Ranked
  <2>3. \A n \in left : \E p \in pairs : p[2] = n /\ p[1] \in left
    BY <1>11
  <2> QED
    BY <2>1, <2>2, <2>3, CycleBehind
<1>13. ASSUME NEW i \in 1..Len(s), NEW j \in 1..Len(s), <<s[i], s[j]>> \in pairs, s[i] # s[j],
              ~\E c \in OnCycle(pairs) : HasPath(pairs, c, s[j])
       PROVE  i < j
  <2>1. CASE j \in 1..Len(o)
    <3> DEFINE p == <<s[i], s[j]>>
    <3>1. p \in pairs /\ p[1] = s[i] /\ p[2] = s[j] /\ p[1] \in nodes /\ p[2] \in nodes
      BY <1>13
    <3> HIDE DEF p
    <3>2. p \in Inner(pairs, nodes) /\ p[2] = o[j]
      BY <1>10, <1>13, <2>1, <3>1 DEF Inner
    <3>3. PICK k \in 1..(j - 1) : o[k] = p[1]
      BY <1>4, <2>1, <3>2 DEF Emitted
    <3>4. k \in 1..Len(o) /\ k \in 1..Len(s) /\ s[k] = s[i]
      BY <1>10, <2>1, <3>1, <3>3
    <3>5. k = i
      BY <1>9, <3>4
    <3> QED
      BY <1>10, <3>5
  <2>2. CASE j \notin 1..Len(o)
    <3>1. j \in (Len(o) + 1)..Len(s)
      BY <1>10, <2>2
    <3>2. s[j] = r[j - Len(o)] /\ j - Len(o) \in 1..Len(r)
      BY <1>10, <3>1
    <3>3. s[j] \in left
      BY <1>6, <3>2
    <3> QED
      BY <1>12, <1>13, <3>3
  <2> QED
    BY <2>1, <2>2
<1>14. \A i, j \in 1..Len(s) :
         /\ <<s[i], s[j]>> \in pairs /\ s[i] # s[j]
         /\ ~\E c \in OnCycle(pairs) : HasPath(pairs, c, s[j])
         => i < j
  BY <1>13
<1> QED
  BY <1>3, <1>9, <1>14
=============================================================================
