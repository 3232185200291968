-------------------------- MODULE ProjectionProofs --------------------------
(***************************************************************************)
(* What one event does to any graph: it leaves a graph, and it leaves a    *)
(* graph that the events still back.  What a command plans, and what its   *)
(* events do to the graph it was planned from.                             *)
(***************************************************************************)
EXTENDS TaskCommands, PrecedenceProofs, SequenceTheorems

(* A sequence after another: each part is where it was, or moved on. *)
LEMMA Joined ==
  ASSUME NEW S, NEW s \in Seq(S), NEW t \in Seq(S)
  PROVE  /\ s \o t \in Seq(S) /\ Len(s \o t) = Len(s) + Len(t)
         /\ \A i \in 1..Len(s) : (s \o t)[i] = s[i]
         /\ \A i \in 1..Len(t) : (s \o t)[Len(s) + i] = t[i]
<1>1. Len(s) \in Nat /\ Len(t) \in Nat
  OBVIOUS
<1>2. /\ s \o t \in Seq(S) /\ Len(s \o t) = Len(s) + Len(t)
      /\ \A i \in 1..Len(s) + Len(t) : (s \o t)[i] = IF i <= Len(s) THEN s[i] ELSE t[i - Len(s)]
  BY ConcatProperties, Zenon
<1>3. ASSUME NEW i \in 1..Len(s)
      PROVE  (s \o t)[i] = s[i]
  BY <1>1, <1>2
<1>4. ASSUME NEW i \in 1..Len(t)
      PROVE  (s \o t)[Len(s) + i] = t[i]
  <2>1. /\ Len(s) + i \in 1..Len(s) + Len(t)
        /\ ~(Len(s) + i <= Len(s)) /\ (Len(s) + i) - Len(s) = i
    BY <1>1
  <2> QED
    BY <1>2, <2>1, Zenon
<1> QED
  BY <1>2, <1>3, <1>4

(* Each kind of event says which artifact, and what its kind needs. *)
LEMMA EventFields ==
  ASSUME NEW e \in Event
  PROVE  /\ e.a \in Artifact
         /\ e.type \in {ArtifactCreated, ArtifactUpdated, StateChanged,
                        LinkCreated, LinkRemoved}
         /\ e.type \in {ArtifactCreated, StateChanged} => e.to \in State
         /\ e.type = ArtifactUpdated => e.set \in Update
         /\ e.type \in {LinkCreated, LinkRemoved} => e.rel \in Rel /\ e.b \in Artifact
BY ProjectionAssumption
DEF Event, Created, Updated, Changed, Linked, Unlinked, ArtifactCreated,
    ArtifactUpdated, StateChanged, LinkCreated, LinkRemoved

(* create_artifact adds one node, in its state and with no property set.   *)
LEMMA CreateNodeLemma ==
  ASSUME NEW g \in Graph, NEW a \in Artifact, NEW s \in State
  PROVE  /\ CreateNode(g, a, s) \in Graph
         /\ CreateNode(g, a, s).edge = g.edge
         /\ CreateNode(g, a, s).node =
              [g.node EXCEPT ![a] = Append(g.node[a], FreshNode(s))]
<1>1. g.node \in [Artifact -> Seq(Node)] /\ g.edge \in [Link -> Nat]
  BY DEF Graph
<1>2. FreshNode(s) \in Node
  BY DEF FreshNode, Node
<1>3. Append(g.node[a], FreshNode(s)) \in Seq(Node)
  BY <1>1, <1>2
<1>4. QED
  BY <1>1, <1>3 DEF CreateNode, Graph

(* A new value for some properties, the same state. *)
LEMMA SetPropertiesFields ==
  ASSUME NEW n, NEW u
  PROVE  /\ SetProperties(n, u).state = n.state
         /\ \A p \in Property : SetProperties(n, u).prop[p] \in {n.prop[p], u[p]}
BY DEF SetProperties

(* A new state, the same properties. *)
LEMMA EnterStateFields ==
  ASSUME NEW n, NEW s
  PROVE  EnterState(n, s).state = s /\ EnterState(n, s).prop = n.prop
BY DEF EnterState

(* update_artifact touches the properties of the nodes of one id.          *)
LEMMA UpdateNodesLemma ==
  ASSUME NEW g \in Graph, NEW a \in Artifact, NEW u \in Update
  PROVE  /\ UpdateNodes(g, a, u) \in Graph
         /\ UpdateNodes(g, a, u).edge = g.edge
         /\ UpdateNodes(g, a, u).node =
              [g.node EXCEPT ![a] =
                 [i \in DOMAIN g.node[a] |-> SetProperties(g.node[a][i], u)]]
<1> DEFINE nodes == [i \in DOMAIN g.node[a] |-> SetProperties(g.node[a][i], u)]
<1>1. /\ g.node \in [Artifact -> Seq(Node)] /\ g.edge \in [Link -> Nat]
      /\ g.node[a] \in Seq(Node) /\ DOMAIN g.node[a] = 1..Len(g.node[a])
  BY DEF Graph
<1>2. ASSUME NEW n \in Node
      PROVE  SetProperties(n, u) \in Node
  BY DEF SetProperties, Node, Update
<1>3. nodes \in Seq(Node)
  BY <1>1, <1>2
<1>4. QED
  BY <1>1, <1>3 DEF UpdateNodes, Graph

(* change_state touches the state of the nodes of one id. *)
LEMMA ChangeStateLemma ==
  ASSUME NEW g \in Graph, NEW a \in Artifact, NEW s \in State
  PROVE  /\ ChangeState(g, a, s) \in Graph
         /\ ChangeState(g, a, s).edge = g.edge
         /\ ChangeState(g, a, s).node =
              [g.node EXCEPT ![a] =
                 [i \in DOMAIN g.node[a] |-> EnterState(g.node[a][i], s)]]
<1> DEFINE nodes == [i \in DOMAIN g.node[a] |-> EnterState(g.node[a][i], s)]
<1>1. /\ g.node \in [Artifact -> Seq(Node)] /\ g.edge \in [Link -> Nat]
      /\ g.node[a] \in Seq(Node) /\ DOMAIN g.node[a] = 1..Len(g.node[a])
  BY DEF Graph
<1>2. ASSUME NEW n \in Node
      PROVE  EnterState(n, s) \in Node
  BY DEF EnterState, Node
<1>3. nodes \in Seq(Node)
  BY <1>1, <1>2
<1>4. QED
  BY <1>1, <1>3 DEF ChangeState, Graph

(* create_link and remove_link touch the relationships of one kind between *)
(* two ids.                                                                *)
LEMMA LinkLemma ==
  ASSUME NEW g \in Graph, NEW l \in Link
  PROVE  /\ CreateLink(g, l) \in Graph /\ RemoveLink(g, l) \in Graph
         /\ CreateLink(g, l).node = g.node /\ RemoveLink(g, l).node = g.node
         /\ \A k \in Link : k # l => CreateLink(g, l).edge[k] = g.edge[k]
         /\ \A k \in Link : RemoveLink(g, l).edge[k] \in {0, g.edge[k]}
<1>1. g.node \in [Artifact -> Seq(Node)] /\ g.edge \in [Link -> Nat]
  BY DEF Graph
<1>2. Len(g.node[l[1]]) \in Nat /\ Len(g.node[l[3]]) \in Nat
  BY <1>1 DEF Link
<1>3. g.edge[l] + Len(g.node[l[1]]) * Len(g.node[l[3]]) \in Nat
  <2>1. \A m, n \in Nat : m * n \in Nat
    OBVIOUS
  <2>2. Len(g.node[l[1]]) * Len(g.node[l[3]]) \in Nat
    BY <1>2, <2>1
  <2>3. g.edge[l] \in Nat
    BY <1>1
  <2>4. PICK k \in Nat : k = Len(g.node[l[1]]) * Len(g.node[l[3]])
    BY <2>2
  <2>5. g.edge[l] + k \in Nat
    BY <2>3
  <2>6. QED
    BY <2>4, <2>5
<1>4. QED
  BY <1>1, <1>3 DEF CreateLink, RemoveLink, Graph

(* Which graph function an event calls. *)
LEMMA ApplyByType ==
  ASSUME NEW g, NEW e
  PROVE  /\ e.type = ArtifactCreated => ApplyEvent(g, e) = CreateNode(g, e.a, e.to)
         /\ e.type = ArtifactUpdated => ApplyEvent(g, e) = UpdateNodes(g, e.a, e.set)
         /\ e.type = StateChanged => ApplyEvent(g, e) = ChangeState(g, e.a, e.to)
         /\ e.type = LinkCreated =>
              ApplyEvent(g, e) = CreateLink(g, <<e.a, e.rel, e.b>>)
         /\ e.type = LinkRemoved =>
              ApplyEvent(g, e) = RemoveLink(g, <<e.a, e.rel, e.b>>)
BY DEF ApplyEvent, ArtifactCreated, ArtifactUpdated, StateChanged, LinkCreated,
       LinkRemoved

(* The projection of an event is a graph (core/sync.py:_apply_event). *)
LEMMA ApplyIsGraph ==
  ASSUME NEW g \in Graph, NEW e \in Event
  PROVE  ApplyEvent(g, e) \in Graph
<1>1. CASE e.type = ArtifactCreated
  <2>1. e.a \in Artifact /\ e.to \in State
    BY <1>1, EventFields
  <2>2. CreateNode(g, e.a, e.to) \in Graph
    BY <2>1, CreateNodeLemma
  <2>3. QED
    BY <1>1, <2>2, ApplyByType
<1>2. CASE e.type = ArtifactUpdated
  <2>1. e.a \in Artifact /\ e.set \in Update
    BY <1>2, EventFields
  <2>2. UpdateNodes(g, e.a, e.set) \in Graph
    BY <2>1, UpdateNodesLemma
  <2>3. QED
    BY <1>2, <2>2, ApplyByType
<1>3. CASE e.type = StateChanged
  <2>1. e.a \in Artifact /\ e.to \in State
    BY <1>3, EventFields
  <2>2. ChangeState(g, e.a, e.to) \in Graph
    BY <2>1, ChangeStateLemma
  <2>3. QED
    BY <1>3, <2>2, ApplyByType
<1>4. CASE e.type \in {LinkCreated, LinkRemoved}
  <2>1. <<e.a, e.rel, e.b>> \in Link
    BY <1>4, EventFields DEF Link
  <2>2. QED
    BY <1>4, <2>1, ApplyByType, LinkLemma
<1>5. QED
  BY <1>1, <1>2, <1>3, <1>4, EventFields

-----------------------------------------------------------------------------
(* More events back whatever fewer do. *)
LEMMA BackedByMore ==
  ASSUME NEW W, NEW V, W \subseteq V, NEW g, BackedBy(W, g)
  PROVE  BackedBy(V, g)
BY DEF BackedBy, NodesBacked, StatesBacked, PropertiesBacked, LinksBacked

(* The empty graph says nothing. *)
LEMMA EmptyIsBacked ==
  ASSUME NEW W
  PROVE  EmptyGraph \in Graph /\ BackedBy(W, EmptyGraph)
BY DEF EmptyGraph, Graph, BackedBy, NodesBacked, StatesBacked,
       PropertiesBacked, LinksBacked

(* Applying one of the events adds nothing that they do not say. *)
LEMMA ApplyIsBacked ==
  ASSUME NEW W, W \subseteq Event, NEW g \in Graph, BackedBy(W, g), NEW e \in W
  PROVE  BackedBy(W, ApplyEvent(g, e))
<1> DEFINE r == ApplyEvent(g, e)
<1>0. e \in Event /\ g.node \in [Artifact -> Seq(Node)] /\ g.edge \in [Link -> Nat]
  BY DEF Graph
<1>a. /\ NodesBacked(W, g) /\ StatesBacked(W, g)
      /\ PropertiesBacked(W, g) /\ LinksBacked(W, g)
  BY DEF BackedBy
<1>1. CASE e.type = ArtifactCreated
  <2>1. r = CreateNode(g, e.a, e.to)
    BY <1>1, ApplyByType
  <2>2. /\ r.edge = g.edge
        /\ r.node = [g.node EXCEPT ![e.a] = Append(g.node[e.a], FreshNode(e.to))]
        /\ e.a \in Artifact
    <3>1. e.a \in Artifact /\ e.to \in State
      BY <1>0, <1>1, EventFields
    <3>2. /\ CreateNode(g, e.a, e.to).edge = g.edge
          /\ CreateNode(g, e.a, e.to).node =
               [g.node EXCEPT ![e.a] = Append(g.node[e.a], FreshNode(e.to))]
      BY DEF CreateNode
    <3>3. QED
      BY <2>1, <3>1, <3>2
  <2> HIDE DEF r
  <2>3. NodesBacked(W, r)
    BY <1>0, <1>a, <1>1, <2>2 DEF NodesBacked
  <2>4. ASSUME NEW a \in Artifact, NEW i \in DOMAIN r.node[a]
        PROVE  \/ i \in DOMAIN g.node[a] /\ r.node[a][i] = g.node[a][i]
               \/ a = e.a /\ r.node[a][i] = FreshNode(e.to)
    BY <1>0, <2>2
  <2>5. StatesBacked(W, r)
    BY <1>a, <1>1, <2>4 DEF StatesBacked, FreshNode
  <2>6. PropertiesBacked(W, r)
    BY <1>a, <2>4 DEF PropertiesBacked, FreshNode
  <2>7. LinksBacked(W, r)
    BY <1>a, <2>2 DEF LinksBacked
  <2>8. QED
    BY <2>3, <2>5, <2>6, <2>7 DEF BackedBy, r
<1>2. CASE e.type = ArtifactUpdated
  <2>1. r = UpdateNodes(g, e.a, e.set)
    BY <1>2, ApplyByType
  <2>2. /\ r.edge = g.edge
        /\ r.node = [g.node EXCEPT ![e.a] =
                       [i \in DOMAIN g.node[e.a] |-> SetProperties(g.node[e.a][i], e.set)]]
        /\ e.a \in Artifact
    <3>1. e.a \in Artifact /\ e.set \in Update
      BY <1>0, <1>2, EventFields
    <3>2. QED
      BY <2>1, <3>1, UpdateNodesLemma
  <2> HIDE DEF r
  <2>3. ASSUME NEW a \in Artifact
        PROVE  DOMAIN r.node[a] = DOMAIN g.node[a]
    BY <1>0, <2>2
  <2>4. ASSUME NEW a \in Artifact, NEW i \in DOMAIN r.node[a]
        PROVE  \/ r.node[a][i] = g.node[a][i]
               \/ a = e.a /\ r.node[a][i] = SetProperties(g.node[a][i], e.set)
    BY <1>0, <2>2, <2>3
  <2>5. NodesBacked(W, r)
    BY <1>0, <1>a, <2>2, <2>3 DEF NodesBacked
  <2>6. StatesBacked(W, r)
    <3>1. ASSUME NEW a \in Artifact, NEW i \in DOMAIN r.node[a]
          PROVE  r.node[a][i].state = g.node[a][i].state
      BY <2>4, SetPropertiesFields
    <3>2. QED
      BY <1>a, <2>3, <3>1 DEF StatesBacked
  <2>7. PropertiesBacked(W, r)
    <3>1. ASSUME NEW a \in Artifact, NEW i \in DOMAIN r.node[a], NEW p \in Property
          PROVE  \/ r.node[a][i].prop[p] = g.node[a][i].prop[p]
                 \/ a = e.a /\ r.node[a][i].prop[p] = e.set[p]
      BY <2>4, SetPropertiesFields
    <3>2. QED
      BY <1>a, <1>2, <2>3, <3>1 DEF PropertiesBacked
  <2>8. LinksBacked(W, r)
    BY <1>a, <2>2 DEF LinksBacked
  <2>9. QED
    BY <2>5, <2>6, <2>7, <2>8 DEF BackedBy, r
<1>3. CASE e.type = StateChanged
  <2>1. r = ChangeState(g, e.a, e.to)
    BY <1>3, ApplyByType
  <2>2. /\ r.edge = g.edge
        /\ r.node = [g.node EXCEPT ![e.a] =
                       [i \in DOMAIN g.node[e.a] |-> EnterState(g.node[e.a][i], e.to)]]
        /\ e.a \in Artifact
    BY <1>0, <1>3, <2>1, EventFields, ChangeStateLemma
  <2> HIDE DEF r
  <2>3. ASSUME NEW a \in Artifact
        PROVE  DOMAIN r.node[a] = DOMAIN g.node[a]
    BY <1>0, <2>2
  <2>4. ASSUME NEW a \in Artifact, NEW i \in DOMAIN r.node[a]
        PROVE  \/ r.node[a][i] = g.node[a][i]
               \/ a = e.a /\ r.node[a][i] = EnterState(g.node[a][i], e.to)
    BY <1>0, <2>2, <2>3
  <2>5. NodesBacked(W, r)
    BY <1>0, <1>a, <2>2, <2>3 DEF NodesBacked
  <2>6. StatesBacked(W, r)
    <3>1. ASSUME NEW a \in Artifact, NEW i \in DOMAIN r.node[a]
          PROVE  \/ r.node[a][i].state = g.node[a][i].state
                 \/ a = e.a /\ r.node[a][i].state = e.to
      BY <2>4, EnterStateFields
    <3>2. QED
      BY <1>a, <1>3, <2>3, <3>1 DEF StatesBacked
  <2>7. PropertiesBacked(W, r)
    <3>1. ASSUME NEW a \in Artifact, NEW i \in DOMAIN r.node[a]
          PROVE  r.node[a][i].prop = g.node[a][i].prop
      BY <2>4, EnterStateFields
    <3>2. QED
      BY <1>a, <2>3, <3>1 DEF PropertiesBacked
  <2>8. LinksBacked(W, r)
    BY <1>a, <2>2 DEF LinksBacked
  <2>9. QED
    BY <2>5, <2>6, <2>7, <2>8 DEF BackedBy, r
<1>4. CASE e.type \in {LinkCreated, LinkRemoved}
  <2> DEFINE l == <<e.a, e.rel, e.b>>
  <2>1. l \in Link
    BY <1>0, <1>4, EventFields DEF Link
  <2>2. r = IF e.type = LinkCreated THEN CreateLink(g, l) ELSE RemoveLink(g, l)
    BY <1>4, ApplyByType
    DEF LinkCreated, LinkRemoved
  <2> HIDE DEF r
  <2>3. r.node = g.node
    BY <2>1, <2>2, LinkLemma
  <2>4. \A k \in Link : \/ r.edge[k] \in {0, g.edge[k]}
                        \/ k = l /\ e.type = LinkCreated
    BY <2>1, <2>2, LinkLemma
  <2>5. LinksBacked(W, r)
    BY <1>a, <2>4 DEF LinksBacked
  <2>6. NodesBacked(W, r) /\ StatesBacked(W, r) /\ PropertiesBacked(W, r)
    BY <1>a, <2>3 DEF NodesBacked, StatesBacked, PropertiesBacked
  <2>7. QED
    BY <2>5, <2>6 DEF BackedBy, r
<1>5. QED
  BY <1>0, <1>1, <1>2, <1>3, <1>4, EventFields

-----------------------------------------------------------------------------
(* The equation of ApplyAll's recursion. *)
Applies(f, g, events, m) ==
  f = [i \in 0..m |-> IF i = 0 THEN g ELSE ApplyEvent(f[i - 1], events[i])]

(* It defines a function. *)
LEMMA ApplyingIsDefined ==
  ASSUME NEW g, NEW events, NEW m \in Nat
  PROVE  \E f : Applies(f, g, events, m)
<1> DEFINE Runs(n, f) == f = [i \in 0..n |-> IF i = 0 THEN g
                                            ELSE ApplyEvent(f[i - 1], events[i])]
           S == {n \in Nat : \E f : Runs(n, f)}
<1>1. 0 \in S
  <2>1. Runs(0, [i \in 0..0 |-> g])
    OBVIOUS
  <2> HIDE DEF Runs
  <2> QED
    BY <2>1
<1>2. ASSUME NEW n \in 0..m, n \in S PROVE n + 1 \in S
  <2>1. PICK f : Runs(n, f)
    BY <1>2
  <2>2. /\ f[0] = g
        /\ \A i \in 1..n : f[i] = ApplyEvent(f[i - 1], events[i])
    BY <2>1
  <2> DEFINE h == [i \in 0..(n + 1) |-> IF i <= n THEN f[i]
                                       ELSE ApplyEvent(f[n], events[n + 1])]
  <2>3. \A i \in 0..n : h[i] = f[i]
    OBVIOUS
  <2>4. h[n + 1] = ApplyEvent(f[n], events[n + 1])
    OBVIOUS
  <2>5. ASSUME NEW i \in 0..(n + 1), i # 0
        PROVE  h[i] = ApplyEvent(h[i - 1], events[i])
    <3>1. CASE i = n + 1
      BY <2>3, <2>4, <3>1
    <3>2. CASE i # n + 1
      <4>1. i \in 1..n /\ i \in 0..n /\ i - 1 \in 0..n
        BY <2>5, <3>2
      <4> HIDE DEF h
      <4> QED
        BY <2>2, <2>3, <4>1
    <3> QED
      BY <3>1, <3>2
  <2>6. h[0] = g
    BY <2>2, <2>3
  <2>7. Runs(n + 1, h)
    <3> DEFINE k == [i \in 0..(n + 1) |-> IF i = 0 THEN g
                                         ELSE ApplyEvent(h[i - 1], events[i])]
    <3>1. \A i \in 0..(n + 1) : h[i] = k[i]
      <4> HIDE DEF h
      <4> QED
        BY <2>5, <2>6
    <3>2. h = [i \in 0..(n + 1) |-> h[i]]
      OBVIOUS
    <3> HIDE DEF h
    <3> QED
      BY <3>1, <3>2
  <2> HIDE DEF Runs, h
  <2>8. \E f1 : Runs(n + 1, f1)
    BY <2>7
  <2> QED
    BY <2>8
<1>3. m \in S
  <2> HIDE DEF S
  <2> QED
    BY <1>1, <1>2, UpTo
<1> QED
  BY <1>3, Zenon DEF Applies

(* ApplyAll passes from g, event by event, to its value. *)
LEMMA ApplyAllRuns ==
  ASSUME NEW g, NEW events, Len(events) \in Nat
  PROVE  \E f : /\ f[0] = g /\ f[Len(events)] = ApplyAll(g, events)
                /\ \A i \in 1..Len(events) : f[i] = ApplyEvent(f[i - 1], events[i])
<1> DEFINE after == CHOOSE f : Applies(f, g, events, Len(events))
<1>1. Applies(after, g, events, Len(events))
  <2>1. \E f : Applies(f, g, events, Len(events))
    BY ApplyingIsDefined
  <2> QED
    BY <2>1, Zenon
<1>2. ApplyAll(g, events) = after[Len(events)]
  BY Zenon DEF ApplyAll, Applies
<1> HIDE DEF after
<1>3. /\ after[0] = g
      /\ \A i \in 1..Len(events) : after[i] = ApplyEvent(after[i - 1], events[i])
  <2>1. \A i \in 0..Len(events) :
          after[i] = IF i = 0 THEN g ELSE ApplyEvent(after[i - 1], events[i])
    BY <1>1, Zenon DEF Applies
  <2> QED
    BY <2>1
<1> QED
  BY <1>2, <1>3

(* ... and whatever passes from g like that ends where it does. *)
LEMMA RunsAreApplyAll ==
  ASSUME NEW g, NEW events, Len(events) \in Nat, NEW f, f[0] = g,
         \A i \in 1..Len(events) : f[i] = ApplyEvent(f[i - 1], events[i])
  PROVE  f[Len(events)] = ApplyAll(g, events)
<1>1. PICK h : /\ h[0] = g /\ h[Len(events)] = ApplyAll(g, events)
               /\ \A i \in 1..Len(events) : h[i] = ApplyEvent(h[i - 1], events[i])
  BY ApplyAllRuns
<1> DEFINE S == {i \in 0..Len(events) : f[i] = h[i]}
<1>2. 0 \in S
  BY <1>1
<1>3. ASSUME NEW n \in 0..Len(events), n \in S, n # Len(events) PROVE n + 1 \in S
  <2>1. n + 1 \in 1..Len(events) /\ (n + 1) - 1 = n
    BY <1>3
  <2>2. f[n + 1] = ApplyEvent(f[n], events[n + 1]) /\ h[n + 1] = ApplyEvent(h[n], events[n + 1])
    BY <1>1, <2>1
  <2> QED
    BY <1>3, <2>1, <2>2
<1>4. Len(events) \in S
  <2> DEFINE m == Len(events)
  <2>1. m \in Nat /\ \A n \in 0..m : n \in S /\ n # m => n + 1 \in S
    BY <1>3
  <2> HIDE DEF S, m
  <2>2. \A n \in 0..m : n \in S
    BY <1>2, <2>1, UpTo
  <2> QED
    BY <2>1, <2>2 DEF m
<1> QED
  BY <1>1, <1>4

(* No event, one event more at the end, and one event at the beginning. *)
LEMMA ApplyNothing ==
  ASSUME NEW g
  PROVE  ApplyAll(g, <<>>) = g
<1>1. Len(<<>>) = 0
  OBVIOUS
<1>2. PICK f : f[0] = g /\ f[Len(<<>>)] = ApplyAll(g, <<>>)
  BY <1>1, ApplyAllRuns
<1> QED
  BY <1>1, <1>2

LEMMA ApplyOneMore ==
  ASSUME NEW g, NEW s \in Seq(Event), NEW e \in Event
  PROVE  ApplyAll(g, Append(s, e)) = ApplyEvent(ApplyAll(g, s), e)
<1> DEFINE t == Append(s, e)
           n == Len(s)
<1>1. /\ n \in Nat /\ Len(t) = n + 1 /\ t[n + 1] = e
      /\ \A i \in 1..n : t[i] = s[i]
  OBVIOUS
<1> HIDE DEF t
<1>2. PICK f : /\ f[0] = g /\ f[Len(t)] = ApplyAll(g, t)
               /\ \A i \in 1..Len(t) : f[i] = ApplyEvent(f[i - 1], t[i])
  BY <1>1, ApplyAllRuns
<1>3. \A i \in 1..n : f[i] = ApplyEvent(f[i - 1], s[i])
  BY <1>1, <1>2
<1>4. f[n] = ApplyAll(g, s)
  BY <1>1, <1>2, <1>3, RunsAreApplyAll
<1>5. n + 1 \in 1..Len(t) /\ (n + 1) - 1 = n
  BY <1>1
<1>6. f[n + 1] = ApplyEvent(f[(n + 1) - 1], t[n + 1])
  BY <1>2, <1>5
<1> QED
  BY <1>1, <1>2, <1>4, <1>5, <1>6 DEF t

LEMMA ApplyFirst ==
  ASSUME NEW g, NEW s \in Seq(Event), s # <<>>
  PROVE  ApplyAll(g, s) = ApplyAll(ApplyEvent(g, Head(s)), Tail(s))
<1> DEFINE t == Tail(s)
           n == Len(s)
<1>1. /\ n \in Nat /\ n # 0 /\ Len(t) = n - 1 /\ Head(s) = s[1]
      /\ \A i \in 1..(n - 1) : t[i] = s[i + 1]
  OBVIOUS
<1> HIDE DEF t
<1>2. PICK f : /\ f[0] = g /\ f[n] = ApplyAll(g, s)
               /\ \A i \in 1..n : f[i] = ApplyEvent(f[i - 1], s[i])
  BY <1>1, ApplyAllRuns
<1> DEFINE h == [i \in 0..(n - 1) |-> f[i + 1]]
<1>3. h[0] = ApplyEvent(g, Head(s))
  <2>1. 1 \in 1..n /\ 1 - 1 = 0 /\ 0 \in 0..(n - 1) /\ 0 + 1 = 1
    BY <1>1
  <2>2. f[1] = ApplyEvent(f[1 - 1], s[1])
    BY <1>2, <2>1
  <2> QED
    BY <1>1, <1>2, <2>1, <2>2
<1>4. ASSUME NEW i \in 1..(n - 1) PROVE h[i] = ApplyEvent(h[i - 1], t[i])
  <2>1. /\ i + 1 \in 1..n /\ (i + 1) - 1 = i /\ (i - 1) + 1 = i
        /\ i \in 0..(n - 1) /\ i - 1 \in 0..(n - 1)
    BY <1>1
  <2>2. f[i + 1] = ApplyEvent(f[(i + 1) - 1], s[i + 1])
    BY <1>2, <2>1
  <2> QED
    BY <1>1, <2>1, <2>2
<1>5. h[n - 1] = f[n]
  BY <1>1
<1> HIDE DEF h
<1>6. h[Len(t)] = ApplyAll(ApplyEvent(g, Head(s)), t)
  <2>1. Len(t) \in Nat /\ \A i \in 1..Len(t) : h[i] = ApplyEvent(h[i - 1], t[i])
    BY <1>1, <1>4
  <2> QED
    BY <1>3, <2>1, RunsAreApplyAll
<1> QED
  BY <1>1, <1>2, <1>5, <1>6 DEF t

(* A graph stays one. *)
LEMMA ApplyAllIsGraph ==
  ASSUME NEW g \in Graph, NEW s \in Seq(Event)
  PROVE  ApplyAll(g, s) \in Graph
<1>1. Len(s) \in Nat /\ \A i \in 1..Len(s) : s[i] \in Event
  OBVIOUS
<1>2. PICK f : /\ f[0] = g /\ f[Len(s)] = ApplyAll(g, s)
               /\ \A i \in 1..Len(s) : f[i] = ApplyEvent(f[i - 1], s[i])
  BY <1>1, ApplyAllRuns
<1> DEFINE S == {i \in 0..Len(s) : f[i] \in Graph}
           m == Len(s)
<1>3. 0 \in S
  BY <1>1, <1>2
<1>4. ASSUME NEW n \in 0..m, n \in S, n # m PROVE n + 1 \in S
  <2>1. n + 1 \in 1..m /\ (n + 1) - 1 = n
    BY <1>1, <1>4
  <2>2. f[n + 1] = ApplyEvent(f[(n + 1) - 1], s[n + 1])
    BY <1>2, <2>1
  <2>3. f[n + 1] \in Graph
    BY <1>1, <1>4, <2>1, <2>2, ApplyIsGraph
  <2> QED
    BY <2>1, <2>3
<1>5. m \in S
  <2> HIDE DEF S
  <2>1. m \in Nat /\ \A n \in 0..m : n \in S /\ n # m => n + 1 \in S
    BY <1>1, <1>4
  <2> HIDE DEF m
  <2>2. \A n \in 0..m : n \in S
    BY <1>3, <2>1, UpTo
  <2> QED
    BY <2>1, <2>2
<1> QED
  BY <1>2, <1>5

-----------------------------------------------------------------------------
(* What a command plans is a non-empty sequence of events. *)
LEMMA PayloadsAreEvents ==
  /\ \A a \in Artifact : Created(a) \in Event
  /\ \A a \in Artifact, u \in Update : Updated(a, u) \in Event
  /\ \A a \in Artifact, s, t \in State : Changed(a, s, t) \in Event
  /\ \A a, b \in Artifact, r \in Rel :
       Linked(a, r, b) \in Event /\ Unlinked(a, r, b) \in Event
BY DEF Event

LEMMA ShortSequences ==
  ASSUME NEW S
  PROVE  /\ <<>> \in Seq(S)
         /\ \A x \in S : <<x>> \in Seq(S)
         /\ \A x, y \in S : <<x, y>> \in Seq(S)
         /\ \A s, t \in Seq(S) : s \o t \in Seq(S)
OBVIOUS

(* resolve_artifact_id hands back the one node of the id. *)
LEMMA ResolvedState ==
  ASSUME NEW g \in Graph, NEW a \in Artifact, Resolves(g, a)
  PROVE  StateOf(g, a) \in State
<1>1. g.node[a] \in Seq(Node) /\ Len(g.node[a]) = 1
  BY DEF Graph, Resolves
<1>2. g.node[a][1] \in Node
  BY <1>1
<1>3. QED
  BY <1>2 DEF StateOf, Node

(* A transition writes one event or two. *)
LEMMA TransitionIsSeq ==
  ASSUME NEW g \in Graph, NEW actor \in Actor, NEW a \in Artifact,
         NEW s \in State, NEW t \in State
  PROVE  TransitionWrites(g, actor, a, s, t) \in Seq(Event)
<1> DEFINE u == TransitionProperties(g, actor, a, s, t)
<1>1. actor \in Value /\ "given" \in Value
  BY TaskAssumption
<1>2. ASSUME NEW p \in Property
      PROVE  u[p] \in Value \cup {Nil, Keep}
  BY <1>1 DEF TransitionProperties
<1>3. u \in Update
  BY <1>2 DEF TransitionProperties, Update
<1> HIDE DEF u
<1>4. <<Changed(a, s, t)>> \in Seq(Event)
  BY PayloadsAreEvents, ShortSequences
<1>5. <<Updated(a, u), Changed(a, s, t)>> \in Seq(Event)
  BY <1>3, PayloadsAreEvents, ShortSequences
<1>6. QED
  BY <1>4, <1>5 DEF TransitionWrites, u

LEMMA WalkIsSeq ==
  ASSUME NEW g \in Graph, NEW actor \in Actor, NEW a \in Artifact,
         StateOf(g, a) \in State,
         {"accepted", "in_progress", "completed"} \subseteq State
  PROVE  Walk(g, actor, a) \in Seq(Event)
<1>1. "proposed" \in State
  BY ProjectionAssumption, TaskAssumption
<1> DEFINE Step(s, t) == TransitionWrites(g, actor, a, s, t)
<1>2. /\ Step("proposed", "accepted") \in Seq(Event)
      /\ Step("accepted", "in_progress") \in Seq(Event)
      /\ Step("in_progress", "completed") \in Seq(Event)
      /\ "blocked" \in State => Step("blocked", "in_progress") \in Seq(Event)
  BY <1>1, TransitionIsSeq
<1> HIDE DEF Step
<1>3. /\ Step("proposed", "accepted") \o Step("accepted", "in_progress")
           \o Step("in_progress", "completed") \in Seq(Event)
      /\ Step("accepted", "in_progress") \o Step("in_progress", "completed")
           \in Seq(Event)
      /\ "blocked" \in State =>
           Step("blocked", "in_progress") \o Step("in_progress", "completed")
             \in Seq(Event)
  BY <1>2, ShortSequences
<1>4. QED
  BY <1>2, <1>3 DEF Walk, Step

(* core/artifacts.py and core/precedence.py plan events and nothing else.  *)
LEMMA CommandsAreSeqs ==
  ASSUME NEW g \in Graph, NEW fresh \in SUBSET Artifact, NEW actor \in Actor,
         NEW c \in Commands(g, fresh, actor)
  PROVE  c \in Seq(Event) /\ c # <<>>
<1>0. /\ Task \subseteq Artifact /\ {"precedes", "superseded_by", "blocks"} \subseteq Rel
      /\ "given" \in Value /\ "block_reason" \in Property
  BY TaskAssumption
<1>1. CASE c \in Creations(g, fresh)
  <2>1. \A a \in fresh : <<Created(a)>> \in Seq(Event)
    BY PayloadsAreEvents, ShortSequences
  <2>2. \A a \in fresh, b \in Artifact :
          <<Created(a), Linked(a, "blocks", b)>> \in Seq(Event)
    BY <1>0, PayloadsAreEvents, ShortSequences
  <2>3. c \in Seq(Event)
    BY <1>1, <2>1, <2>2 DEF Creations
  <2>4. QED
    BY <2>3 DEF Commands
<1>2. CASE c \in Transitions(g, actor)
  <2>1. PICK y \in Task \X State :
          /\ Resolves(g, y[1])
          /\ c = TransitionWrites(g, actor, y[1], StateOf(g, y[1]), y[2])
    BY <1>2 DEF Transitions
  <2>2. y[1] \in Artifact /\ y[2] \in State
    BY <1>0
  <2>3. StateOf(g, y[1]) \in State
    BY <2>1, <2>2, ResolvedState
  <2>4. c \in Seq(Event)
    BY <2>1, <2>2, <2>3, TransitionIsSeq
  <2>5. QED
    BY <2>4 DEF Commands
<1>3. CASE c \in Supersessions(g, actor)
  <2>1. PICK y \in Task \X Artifact :
          /\ Resolves(g, y[1])
          /\ ValidTransition(StateOf(g, y[1]), "superseded")
          /\ c = TransitionWrites(g, actor, y[1], StateOf(g, y[1]), "superseded")
                   \o <<Linked(y[1], "superseded_by", y[2])>>
    BY <1>3 DEF Supersessions
  <2>2. y[1] \in Artifact /\ y[2] \in Artifact /\ "superseded" \in State
    BY <1>0, <2>1 DEF ValidTransition
  <2>3. StateOf(g, y[1]) \in State
    BY <2>1, <2>2, ResolvedState
  <2>4. TransitionWrites(g, actor, y[1], StateOf(g, y[1]), "superseded") \in Seq(Event)
    BY <2>2, <2>3, TransitionIsSeq
  <2>5. <<Linked(y[1], "superseded_by", y[2])>> \in Seq(Event)
    BY <1>0, <2>2, PayloadsAreEvents, ShortSequences
  <2>6. c \in Seq(Event)
    BY <2>1, <2>4, <2>5, ShortSequences
  <2>7. QED
    BY <2>6 DEF Commands
<1>4. CASE c \in Walks(g, actor)
  <2>1. PICK a \in Task :
          /\ Resolves(g, a) /\ c = Walk(g, actor, a)
          /\ {"accepted", "in_progress", "completed"} \subseteq State
    BY <1>4 DEF Walks
  <2>2. a \in Artifact /\ StateOf(g, a) \in State
    BY <1>0, <2>1, ResolvedState
  <2>3. c \in Seq(Event)
    BY <2>1, <2>2, WalkIsSeq
  <2>4. QED
    BY <2>3 DEF Commands
<1>5. CASE c \in BlockReasons(g)
  <2>1. [NoUpdate EXCEPT !["block_reason"] = "given"] \in Update
    BY <1>0 DEF NoUpdate, Update
  <2>2. \A a \in Artifact :
          <<Updated(a, [NoUpdate EXCEPT !["block_reason"] = "given"])>> \in Seq(Event)
    BY <2>1, PayloadsAreEvents, ShortSequences
  <2>3. c \in Seq(Event)
    BY <1>0, <1>5, <2>2 DEF BlockReasons
  <2>4. QED
    BY <2>3 DEF Commands
<1>6. CASE c \in PrecedesLinks(g)
  <2>1. \A m, n \in Task : <<Linked(m, "precedes", n)>> \in Seq(Event)
    BY <1>0, PayloadsAreEvents, ShortSequences
  <2>2. c \in Seq(Event)
    BY <1>6, <2>1 DEF PrecedesLinks
  <2>3. QED
    BY <2>2 DEF Commands
<1>7. CASE c \in Chains(g)
  <2>1. PICK x \in Task \X Task \X Task : c = ChainWrites(g, x[1], x[2], x[3])
    BY <1>7 DEF Chains
  <2>2. \A m, n \in Task : <<Linked(m, "precedes", n)>> \in Seq(Event)
    BY <1>0, PayloadsAreEvents, ShortSequences
  <2>3. x[1] \in Task /\ x[2] \in Task /\ x[3] \in Task
    OBVIOUS
  <2>4. c \in Seq(Event)
    BY <2>1, <2>2, <2>3, ShortSequences DEF ChainWrites
  <2>5. QED
    BY <2>4 DEF Commands
<1>8. CASE c \in Unprecedes(g)
  <2>1. PICK pair \in PrecedesPairs(g) : c = <<Unlinked(pair[1], "precedes", pair[2])>>
    BY <1>8 DEF Unprecedes
  <2>2. pair[1] \in Artifact /\ pair[2] \in Artifact
    BY <1>0 DEF PrecedesPairs
  <2>3. QED
    BY <1>0, <2>1, <2>2, PayloadsAreEvents, ShortSequences
<1>9. QED
  BY <1>1, <1>2, <1>3, <1>4, <1>5, <1>6, <1>7, <1>8 DEF Commands

-----------------------------------------------------------------------------
(***************************************************************************)
(* What a history and the graph it builds keep, event by event.            *)
(***************************************************************************)
NodesKnown(h, g) == \A a \in Artifact : g.node[a] # <<>> => a \in Spent(h)

(* The node of a task is in the state its last move entered. *)
Tracked(h, g) ==
  \A a \in Task :
    IF Moves(h, a) = {} THEN g.node[a] = <<>>
    ELSE \E i \in Moves(h, a) : /\ \A j \in Moves(h, a) : j <= i
                                /\ g.node[a] # <<>> /\ g.node[a][1].state = h[i].to

PairsAcyclic(g) == Finite(PrecedesPairs(g)) /\ NoWayBack(PrecedesPairs(g))

Ledger(h, g) ==
  /\ h \in Seq(Event) /\ g \in Graph
  /\ OneNodeEach(g) /\ NodesKnown(h, g) /\ Tracked(h, g)
  /\ LegalHistory(h) /\ PairsAcyclic(g)

(* An event that may be written when the graph is g. *)
FitsCreation(g, e) == e.type = ArtifactCreated => g.node[e.a] = <<>>

FitsMove(g, e) ==
  e.type = StateChanged =>
    /\ e.a \in Task /\ Resolves(g, e.a)
    /\ e.was = StateOf(g, e.a) /\ ValidTransition(e.was, e.to)

FitsLink(g, e) ==
  e.type = LinkCreated /\ e.rel = "precedes" /\ e.a \in Task /\ e.b \in Task =>
    ~CycleIfAdded(PrecedesPairs(g), e.a, e.b)

Fits(g, e) == FitsCreation(g, e) /\ FitsMove(g, e) /\ FitsLink(g, e)

LEMMA KindsDiffer ==
  /\ ArtifactCreated # ArtifactUpdated /\ ArtifactCreated # StateChanged
  /\ ArtifactCreated # LinkCreated /\ ArtifactCreated # LinkRemoved
  /\ ArtifactUpdated # StateChanged /\ ArtifactUpdated # LinkCreated
  /\ ArtifactUpdated # LinkRemoved /\ StateChanged # LinkCreated
  /\ StateChanged # LinkRemoved /\ LinkCreated # LinkRemoved
BY DEF ArtifactCreated, ArtifactUpdated, StateChanged, LinkCreated, LinkRemoved

(* One more event in the history. *)
LEMMA OneMoreMove ==
  ASSUME NEW h \in Seq(Event), NEW e \in Event, NEW a
  PROVE  /\ Moves(h, a) \subseteq 1..Len(h)
         /\ Moves(Append(h, e), a) =
              IF e.a = a /\ e.type \in {ArtifactCreated, StateChanged}
              THEN Moves(h, a) \cup {Len(h) + 1} ELSE Moves(h, a)
<1> DEFINE t == Append(h, e)
           n == Len(h)
<1>1. /\ t \in Seq(Event) /\ Len(t) = n + 1 /\ n \in Nat /\ t[n + 1] = e
      /\ \A i \in 1..n : t[i] = h[i]
  OBVIOUS
<1>2. DOMAIN t = 1..(n + 1) /\ DOMAIN h = 1..n
  BY <1>1
<1>3. 1..(n + 1) = (1..n) \cup {n + 1} /\ n + 1 \notin 1..n
  BY <1>1
<1> HIDE DEF t, n
<1>4. Moves(t, a) = {i \in (1..n) \cup {n + 1} :
                       t[i].a = a /\ t[i].type \in {ArtifactCreated, StateChanged}}
  BY <1>2, <1>3 DEF Moves
<1>5. Moves(h, a) = {i \in 1..n :
                       h[i].a = a /\ h[i].type \in {ArtifactCreated, StateChanged}}
  BY <1>2 DEF Moves
<1>6. Moves(t, a) = Moves(h, a) \cup
        (IF e.a = a /\ e.type \in {ArtifactCreated, StateChanged} THEN {n + 1} ELSE {})
  BY <1>1, <1>3, <1>4, <1>5
<1> QED
  BY <1>5, <1>6 DEF t, n

LEMMA OneMoreSpent ==
  ASSUME NEW h \in Seq(Event), NEW e \in Event
  PROVE  Spent(Append(h, e)) =
           Spent(h) \cup (IF e.type = ArtifactCreated THEN {e.a} ELSE {})
<1> DEFINE t == Append(h, e)
           n == Len(h)
<1>1. /\ t \in Seq(Event) /\ Len(t) = n + 1 /\ n \in Nat /\ t[n + 1] = e
      /\ \A i \in 1..n : t[i] = h[i]
  OBVIOUS
<1>2. DOMAIN t = (1..n) \cup {n + 1} /\ DOMAIN h = 1..n
  BY <1>1
<1> HIDE DEF t, n
<1>3. \A x : x \in Spent(t) <=> \E i \in (1..n) \cup {n + 1} :
                                  t[i].type = ArtifactCreated /\ x = t[i].a
  BY <1>2 DEF Spent
<1>4. \A x : x \in Spent(h) <=> \E i \in 1..n : h[i].type = ArtifactCreated /\ x = h[i].a
  BY <1>2 DEF Spent
<1>5. \A x : x \in Spent(t) <=>
        x \in Spent(h) \/ (e.type = ArtifactCreated /\ x = e.a)
  BY <1>1, <1>3, <1>4
<1> QED
  BY <1>5 DEF t

(* A legal history and a legal next move. *)
LEMMA OneMoreLegal ==
  ASSUME NEW h \in Seq(Event), NEW e \in Event, LegalHistory(h),
         e.a \in Task /\ e.type \in {ArtifactCreated, StateChanged}
           => LegalMove(h, Moves(h, e.a), e)
  PROVE  LegalHistory(Append(h, e))
<1> DEFINE t == Append(h, e)
           n == Len(h)
<1>1. /\ n \in Nat /\ t[n + 1] = e /\ \A i \in 1..n : t[i] = h[i]
  OBVIOUS
<1> HIDE DEF t
<1>2. SUFFICES ASSUME NEW a \in Task, NEW j \in Moves(t, a)
               PROVE  LegalMove(t, {i \in Moves(t, a) : i < j}, t[j])
  BY DEF LegalHistory, t
<1>3. /\ Moves(h, a) \subseteq 1..n
      /\ Moves(t, a) = IF e.a = a /\ e.type \in {ArtifactCreated, StateChanged}
                       THEN Moves(h, a) \cup {n + 1} ELSE Moves(h, a)
  BY OneMoreMove DEF t
<1>4. ASSUME NEW before \in SUBSET (1..n), NEW m, LegalMove(h, before, m)
      PROVE  LegalMove(t, before, m)
  BY <1>1, <1>4 DEF LegalMove
<1>5. CASE j \in Moves(h, a)
  <2>1. {i \in Moves(t, a) : i < j} = {i \in Moves(h, a) : i < j}
    BY <1>1, <1>3, <1>5
  <2>2. LegalMove(h, {i \in Moves(h, a) : i < j}, h[j])
    BY <1>5 DEF LegalHistory
  <2>3. t[j] = h[j] /\ {i \in Moves(h, a) : i < j} \subseteq 1..n
    BY <1>1, <1>3, <1>5
  <2> QED
    BY <1>4, <2>1, <2>2, <2>3
<1>6. CASE j \notin Moves(h, a)
  <2>1. /\ j = n + 1 /\ e.a = a /\ e.type \in {ArtifactCreated, StateChanged}
        /\ Moves(t, a) = Moves(h, a) \cup {n + 1}
    BY <1>3, <1>6
  <2>2. {i \in Moves(t, a) : i < j} = Moves(h, a)
    BY <1>1, <1>3, <2>1
  <2>3. LegalMove(h, Moves(h, a), t[j])
    BY <1>1, <2>1
  <2> QED
    BY <1>3, <1>4, <2>2, <2>3
<1> QED
  BY <1>5, <1>6

(***************************************************************************)
(* What each kind of event does to such a graph.                           *)
(***************************************************************************)
LEMMA NodeShape ==
  ASSUME NEW g \in Graph, NEW a \in Artifact
  PROVE  /\ g.node[a] \in Seq(Node) /\ Len(g.node[a]) \in Nat
         /\ DOMAIN g.node[a] = 1..Len(g.node[a])
         /\ g.node[a] = <<>> <=> Len(g.node[a]) = 0
         /\ \A i \in 1..Len(g.node[a]) : g.node[a][i] \in Node
<1>1. g.node[a] \in Seq(Node)
  BY DEF Graph
<1> QED
  BY <1>1

LEMMA SamePairs ==
  ASSUME NEW g, NEW k, k.edge = g.edge
  PROVE  PrecedesPairs(k) = PrecedesPairs(g)
BY DEF PrecedesPairs

(* The nodes keep their number and, but for that of a task that moves,     *)
(* their state.                                                            *)
LEMMA NodesStay ==
  ASSUME NEW h \in Seq(Event), NEW g \in Graph, NEW e \in Event, NEW k \in Graph,
         OneNodeEach(g), NodesKnown(h, g), Tracked(h, g), LegalHistory(h),
         e.type \notin {ArtifactCreated, StateChanged},
         \A a \in Artifact : /\ Len(k.node[a]) = Len(g.node[a])
                             /\ g.node[a] # <<>> => k.node[a][1].state = g.node[a][1].state
  PROVE  /\ \A a \in Artifact : Len(k.node[a]) <= 1
         /\ NodesKnown(Append(h, e), k) /\ Tracked(Append(h, e), k)
         /\ LegalHistory(Append(h, e))
<1>1. \A a \in Artifact : k.node[a] = <<>> <=> g.node[a] = <<>>
  BY NodeShape
<1>2. \A a \in Artifact : Len(k.node[a]) <= 1
  BY DEF OneNodeEach
<1>3. NodesKnown(Append(h, e), k)
  BY <1>1, OneMoreSpent DEF NodesKnown
<1>4. LegalHistory(Append(h, e))
  BY OneMoreLegal
<1>5. ASSUME NEW a \in Task
      PROVE  IF Moves(Append(h, e), a) = {} THEN k.node[a] = <<>>
             ELSE \E i \in Moves(Append(h, e), a) :
                    /\ \A j \in Moves(Append(h, e), a) : j <= i
                    /\ k.node[a] # <<>> /\ k.node[a][1].state = Append(h, e)[i].to
  <2>1. Moves(Append(h, e), a) = Moves(h, a) /\ Moves(h, a) \subseteq 1..Len(h)
    BY OneMoreMove
  <2>2. a \in Artifact
    BY TaskAssumption
  <2>3. \A i \in 1..Len(h) : Append(h, e)[i] = h[i]
    OBVIOUS
  <2>4. IF Moves(h, a) = {} THEN g.node[a] = <<>>
        ELSE \E i \in Moves(h, a) : /\ \A j \in Moves(h, a) : j <= i
                                    /\ g.node[a] # <<>> /\ g.node[a][1].state = h[i].to
    BY DEF Tracked
  <2>5. CASE Moves(h, a) = {}
    BY <1>1, <2>1, <2>2, <2>4, <2>5
  <2>6. CASE Moves(h, a) # {}
    <3>1. PICK i \in Moves(h, a) : /\ \A j \in Moves(h, a) : j <= i
                                   /\ g.node[a] # <<>> /\ g.node[a][1].state = h[i].to
      BY <2>4, <2>6
    <3>2. k.node[a] # <<>> /\ k.node[a][1].state = h[i].to
      BY <1>1, <2>2, <3>1
    <3>3. h[i].to = Append(h, e)[i].to
      BY <2>1, <2>3
    <3> QED
      BY <2>1, <2>6, <3>1, <3>2, <3>3
  <2> QED
    BY <2>5, <2>6
<1> QED
  BY <1>2, <1>3, <1>4, <1>5 DEF Tracked

(* A node is made or a task moves: it is in the state that was entered.    *)
LEMMA NodeMoves ==
  ASSUME NEW h \in Seq(Event), NEW g \in Graph, NEW e \in Event, NEW k \in Graph,
         OneNodeEach(g), NodesKnown(h, g), Tracked(h, g), LegalHistory(h),
         e.type \in {ArtifactCreated, StateChanged},
         e.a \in Task => LegalMove(h, Moves(h, e.a), e),
         Len(k.node[e.a]) = 1, k.node[e.a][1].state = e.to,
         e.type = StateChanged => g.node[e.a] # <<>>,
         \A a \in Artifact : a # e.a => k.node[a] = g.node[a]
  PROVE  /\ \A a \in Artifact : Len(k.node[a]) <= 1
         /\ NodesKnown(Append(h, e), k) /\ Tracked(Append(h, e), k)
         /\ LegalHistory(Append(h, e))
<1>0. e.a \in Artifact
  BY EventFields
<1>1. ASSUME NEW a \in Artifact PROVE Len(k.node[a]) <= 1
  <2>1. CASE a = e.a
    <3>1. Len(k.node[a]) = 1
      BY <2>1, Zenon
    <3> QED
      BY ONLY <3>1
  <2>2. CASE a # e.a
    BY <2>2 DEF OneNodeEach
  <2> QED
    BY <2>1, <2>2
<1>2. NodesKnown(Append(h, e), k)
  <2>1. ASSUME NEW a \in Artifact, k.node[a] # <<>> PROVE a \in Spent(Append(h, e))
    <3>1. CASE a = e.a /\ e.type = ArtifactCreated
      BY <3>1, OneMoreSpent
    <3>2. CASE a = e.a /\ e.type = StateChanged
      BY <3>2, OneMoreSpent DEF NodesKnown
    <3>3. CASE a # e.a
      BY <2>1, <3>3, OneMoreSpent DEF NodesKnown
    <3> QED
      BY <3>1, <3>2, <3>3
  <2> QED
    BY <2>1 DEF NodesKnown
<1>3. LegalHistory(Append(h, e))
  BY OneMoreLegal
<1>4. ASSUME NEW a \in Task
      PROVE  IF Moves(Append(h, e), a) = {} THEN k.node[a] = <<>>
             ELSE \E i \in Moves(Append(h, e), a) :
                    /\ \A j \in Moves(Append(h, e), a) : j <= i
                    /\ k.node[a] # <<>> /\ k.node[a][1].state = Append(h, e)[i].to
  <2>1. /\ Moves(h, a) \subseteq 1..Len(h)
        /\ Moves(Append(h, e), a) = IF e.a = a THEN Moves(h, a) \cup {Len(h) + 1}
                                    ELSE Moves(h, a)
    BY OneMoreMove
  <2>2. a \in Artifact
    BY TaskAssumption
  <2>3. /\ Len(h) \in Nat /\ Append(h, e)[Len(h) + 1] = e
        /\ \A i \in 1..Len(h) : Append(h, e)[i] = h[i]
    OBVIOUS
  <2>4. CASE e.a = a
    <3>1. k.node[a] # <<>>
      BY <2>2, <2>4, NodeShape
    <3>2. Len(h) + 1 \in Moves(Append(h, e), a)
      BY <2>1, <2>4
    <3>3. \A j \in Moves(Append(h, e), a) : j <= Len(h) + 1
      BY <2>1, <2>3, <2>4
    <3> QED
      BY <2>3, <2>4, <3>1, <3>2, <3>3
  <2>5. CASE e.a # a
    <3>1. k.node[a] = g.node[a] /\ Moves(Append(h, e), a) = Moves(h, a)
      BY <2>1, <2>2, <2>5
    <3>2. CASE Moves(h, a) = {}
      BY <3>1, <3>2 DEF Tracked
    <3>3. CASE Moves(h, a) # {}
      <4>1. PICK i \in Moves(h, a) : /\ \A j \in Moves(h, a) : j <= i
                                     /\ g.node[a] # <<>> /\ g.node[a][1].state = h[i].to
        BY <3>3 DEF Tracked
      <4>2. h[i].to = Append(h, e)[i].to
        BY <2>1, <2>3
      <4> QED
        BY <3>1, <3>3, <4>1, <4>2
    <3> QED
      BY <3>2, <3>3
  <2> QED
    BY <2>4, <2>5
<1> QED
  BY <1>1, <1>2, <1>3, <1>4 DEF Tracked

(* More nodes and the same links: every link still has both its ends.      *)
LEMMA LinksStay ==
  ASSUME NEW g, NEW k, OneNodeEach(g), k.edge = g.edge,
         \A a \in Artifact : Len(k.node[a]) <= 1,
         \A a \in Artifact : g.node[a] # <<>> => k.node[a] # <<>>
  PROVE  OneNodeEach(k)
BY DEF OneNodeEach, Link

LEMMA CreationKeeps ==
  ASSUME NEW h, NEW g, Ledger(h, g), NEW e \in Event, Fits(g, e), e.type = ArtifactCreated
  PROVE  Ledger(Append(h, e), ApplyEvent(g, e))
<1> DEFINE k == ApplyEvent(g, e)
<1>0. h \in Seq(Event) /\ g \in Graph
  BY DEF Ledger
<1>1. e.a \in Artifact /\ e.to \in State /\ g.node[e.a] = <<>>
  BY EventFields DEF Fits, FitsCreation
<1>2. k = CreateNode(g, e.a, e.to)
  BY ApplyByType
<1>3. /\ k \in Graph /\ k.edge = g.edge
      /\ k.node = [g.node EXCEPT ![e.a] = Append(g.node[e.a], FreshNode(e.to))]
  <2> HIDE DEF k
  <2>1. /\ CreateNode(g, e.a, e.to) \in Graph /\ CreateNode(g, e.a, e.to).edge = g.edge
        /\ CreateNode(g, e.a, e.to).node =
             [g.node EXCEPT ![e.a] = Append(g.node[e.a], FreshNode(e.to))]
    <3>1. \A a \in Artifact, s \in State :
            /\ CreateNode(g, a, s) \in Graph /\ CreateNode(g, a, s).edge = g.edge
            /\ CreateNode(g, a, s).node = [g.node EXCEPT ![a] = Append(g.node[a], FreshNode(s))]
      BY <1>0, CreateNodeLemma
    <3> QED
      BY <1>1, <3>1, Zenon
  <2> QED
    BY <1>2, <2>1
<1>4. g.node \in [Artifact -> Seq(Node)]
  BY <1>0 DEF Graph
<1>5. /\ k.node[e.a] = <<FreshNode(e.to)>>
      /\ \A a \in Artifact : a # e.a => k.node[a] = g.node[a]
  BY <1>1, <1>3, <1>4
<1>6. Len(k.node[e.a]) = 1 /\ k.node[e.a][1].state = e.to
  BY <1>5 DEF FreshNode
<1>7. e.a \in Task => Moves(h, e.a) = {}
  BY <1>1 DEF Ledger, Tracked
<1>8. e.a \in Task => LegalMove(h, Moves(h, e.a), e)
  BY <1>7 DEF LegalMove
<1> HIDE DEF k
<1>9. /\ \A a \in Artifact : Len(k.node[a]) <= 1
      /\ NodesKnown(Append(h, e), k) /\ Tracked(Append(h, e), k)
      /\ LegalHistory(Append(h, e))
  BY <1>0, <1>3, <1>5, <1>6, <1>8, KindsDiffer, NodeMoves DEF Ledger
<1>10. \A a \in Artifact : g.node[a] # <<>> => k.node[a] # <<>>
  BY <1>1, <1>5
<1>11. OneNodeEach(k)
  BY <1>3, <1>9, <1>10, LinksStay DEF Ledger
<1>12. PairsAcyclic(k)
  BY <1>3, SamePairs DEF Ledger, PairsAcyclic
<1>13. Append(h, e) \in Seq(Event)
  BY <1>0
<1> QED
  BY <1>3, <1>9, <1>11, <1>12, <1>13 DEF Ledger, k

LEMMA MoveKeeps ==
  ASSUME NEW h, NEW g, Ledger(h, g), NEW e \in Event, Fits(g, e), e.type = StateChanged
  PROVE  Ledger(Append(h, e), ApplyEvent(g, e))
<1> DEFINE k == ApplyEvent(g, e)
<1>0. h \in Seq(Event) /\ g \in Graph
  BY DEF Ledger
<1>1. /\ e.a \in Task /\ e.a \in Artifact /\ e.to \in State /\ Len(g.node[e.a]) = 1
      /\ e.was = g.node[e.a][1].state /\ ValidTransition(e.was, e.to)
  BY EventFields DEF Fits, FitsMove, Resolves, StateOf
<1>2. k = ChangeState(g, e.a, e.to)
  BY ApplyByType
<1>3. /\ k \in Graph /\ k.edge = g.edge
      /\ k.node = [g.node EXCEPT ![e.a] =
                     [i \in DOMAIN g.node[e.a] |-> EnterState(g.node[e.a][i], e.to)]]
  BY <1>0, <1>1, <1>2, ChangeStateLemma
<1>4. g.node \in [Artifact -> Seq(Node)] /\ DOMAIN g.node[e.a] = 1..1
  BY <1>0, <1>1, NodeShape DEF Graph
<1>5. /\ k.node[e.a] = [i \in 1..1 |-> EnterState(g.node[e.a][i], e.to)]
      /\ \A a \in Artifact : a # e.a => k.node[a] = g.node[a]
  BY <1>1, <1>3, <1>4
<1>6. Len(k.node[e.a]) = 1 /\ k.node[e.a][1].state = e.to
  BY <1>5 DEF EnterState
<1>7. g.node[e.a] # <<>>
  BY <1>0, <1>1, NodeShape
<1>8. LegalMove(h, Moves(h, e.a), e)
  <2>1. PICK i \in Moves(h, e.a) : /\ \A j \in Moves(h, e.a) : j <= i
                                   /\ g.node[e.a][1].state = h[i].to
    BY <1>1, <1>7 DEF Ledger, Tracked
  <2> QED
    BY <1>1, <2>1 DEF LegalMove
<1> HIDE DEF k
<1>9. /\ \A a \in Artifact : Len(k.node[a]) <= 1
      /\ NodesKnown(Append(h, e), k) /\ Tracked(Append(h, e), k)
      /\ LegalHistory(Append(h, e))
  BY <1>0, <1>3, <1>5, <1>6, <1>7, <1>8, KindsDiffer, NodeMoves DEF Ledger
<1>10. \A a \in Artifact : g.node[a] # <<>> => k.node[a] # <<>>
  BY <1>1, <1>3, <1>5, <1>6, NodeShape
<1>11. OneNodeEach(k)
  BY <1>3, <1>9, <1>10, LinksStay DEF Ledger
<1>12. PairsAcyclic(k)
  BY <1>3, SamePairs DEF Ledger, PairsAcyclic
<1>13. Append(h, e) \in Seq(Event)
  BY <1>0
<1> QED
  BY <1>3, <1>9, <1>11, <1>12, <1>13 DEF Ledger, k

LEMMA UpdateKeeps ==
  ASSUME NEW h, NEW g, Ledger(h, g), NEW e \in Event, e.type = ArtifactUpdated
  PROVE  Ledger(Append(h, e), ApplyEvent(g, e))
<1> DEFINE k == ApplyEvent(g, e)
<1>0. h \in Seq(Event) /\ g \in Graph
  BY DEF Ledger
<1>1. e.a \in Artifact /\ e.set \in Update
  BY EventFields
<1>2. k = UpdateNodes(g, e.a, e.set)
  BY ApplyByType
<1>3. /\ k \in Graph /\ k.edge = g.edge
      /\ k.node = [g.node EXCEPT ![e.a] =
                     [i \in DOMAIN g.node[e.a] |-> SetProperties(g.node[e.a][i], e.set)]]
  BY <1>0, <1>1, <1>2, UpdateNodesLemma
<1>4. g.node \in [Artifact -> Seq(Node)]
  BY <1>0 DEF Graph
<1>5. ASSUME NEW a \in Artifact
      PROVE  /\ Len(k.node[a]) = Len(g.node[a])
             /\ g.node[a] # <<>> => k.node[a][1].state = g.node[a][1].state
  <2>1. CASE a # e.a
    BY <1>3, <1>4, <2>1
  <2>2. CASE a = e.a
    <3>1. k.node[a] = [i \in DOMAIN g.node[a] |-> SetProperties(g.node[a][i], e.set)]
      BY <1>3, <1>4, <2>2
    <3>2. DOMAIN g.node[a] = 1..Len(g.node[a]) /\ Len(g.node[a]) \in Nat
      BY <1>0, NodeShape
    <3>3. Len(k.node[a]) = Len(g.node[a])
      BY <3>1, <3>2
    <3>4. ASSUME g.node[a] # <<>> PROVE k.node[a][1].state = g.node[a][1].state
      <4>1. 1 \in DOMAIN g.node[a]
        BY <1>0, <3>2, <3>4, NodeShape
      <4> QED
        BY <3>1, <4>1 DEF SetProperties
    <3> QED
      BY <3>3, <3>4
  <2> QED
    BY <2>1, <2>2
<1> HIDE DEF k
<1>9. /\ \A a \in Artifact : Len(k.node[a]) <= 1
      /\ NodesKnown(Append(h, e), k) /\ Tracked(Append(h, e), k)
      /\ LegalHistory(Append(h, e))
  BY <1>0, <1>3, <1>5, KindsDiffer, NodesStay DEF Ledger
<1>10. \A a \in Artifact : g.node[a] # <<>> => k.node[a] # <<>>
  BY <1>0, <1>3, <1>5, NodeShape
<1>11. OneNodeEach(k)
  BY <1>3, <1>9, <1>10, LinksStay DEF Ledger
<1>12. PairsAcyclic(k)
  BY <1>3, SamePairs DEF Ledger, PairsAcyclic
<1>13. Append(h, e) \in Seq(Event)
  BY <1>0
<1> QED
  BY <1>3, <1>9, <1>11, <1>12, <1>13 DEF Ledger, k

(* Nodes as they are, and links between nodes that are there.              *)
LEMMA LinkKeeps ==
  ASSUME NEW h, NEW g, Ledger(h, g), NEW e \in Event,
         e.type \in {LinkCreated, LinkRemoved},
         NEW k \in Graph, k.node = g.node,
         \A l \in Link : k.edge[l] > 0 =>
           \/ g.edge[l] > 0
           \/ l = <<e.a, e.rel, e.b>> /\ g.node[e.a] # <<>> /\ g.node[e.b] # <<>>,
         PairsAcyclic(k)
  PROVE  Ledger(Append(h, e), k)
<1>0. h \in Seq(Event) /\ g \in Graph
  BY DEF Ledger
<1>1. /\ \A a \in Artifact : Len(k.node[a]) <= 1
      /\ NodesKnown(Append(h, e), k) /\ Tracked(Append(h, e), k)
      /\ LegalHistory(Append(h, e))
  BY <1>0, KindsDiffer, NodesStay DEF Ledger
<1>2. ASSUME NEW l \in Link, k.edge[l] > 0
      PROVE  k.node[l[1]] # <<>> /\ k.node[l[3]] # <<>>
  <2>1. CASE g.edge[l] > 0
    BY <2>1 DEF Ledger, OneNodeEach
  <2>2. CASE l = <<e.a, e.rel, e.b>> /\ g.node[e.a] # <<>> /\ g.node[e.b] # <<>>
    BY <2>2
  <2> QED
    BY <1>2, <2>1, <2>2
<1>3. Append(h, e) \in Seq(Event)
  BY <1>0
<1> QED
  BY <1>1, <1>2, <1>3 DEF Ledger, OneNodeEach

LEMMA FewerPairs ==
  ASSUME NEW pairs, NEW more, pairs \subseteq more, Finite(more), NoWayBack(more)
  PROVE  Finite(pairs) /\ NoWayBack(pairs)
<1>1. Endpoints(pairs) \subseteq Endpoints(more)
  BY DEF Endpoints
<1>2. Finite(pairs)
  BY <1>1, FS_Subset DEF Finite
<1> QED
  BY <1>2, FewerNoWayBack

LEMMA OneMorePair ==
  ASSUME NEW pairs, Finite(pairs), NEW a, NEW b
  PROVE  Finite(pairs \cup {<<a, b>>})
<1>1. Endpoints(pairs \cup {<<a, b>>}) \subseteq Endpoints(pairs) \cup {a, b}
  <2>1. \A p \in pairs \cup {<<a, b>>} : p \in pairs \/ (p[1] = a /\ p[2] = b)
    OBVIOUS
  <2> QED
    BY <2>1 DEF Endpoints
<1>2. IsFiniteSet({a}) /\ IsFiniteSet({b}) /\ {a, b} = {a} \cup {b}
  BY FS_Singleton
<1>3. IsFiniteSet({a, b})
  BY <1>2, FS_Union
<1> QED
  BY <1>1, <1>3, FS_Union, FS_Subset DEF Finite

LEMMA LinkingKeeps ==
  ASSUME NEW h, NEW g, Ledger(h, g), NEW e \in Event, Fits(g, e), e.type = LinkCreated
  PROVE  Ledger(Append(h, e), ApplyEvent(g, e))
<1> DEFINE k == ApplyEvent(g, e)
           l == <<e.a, e.rel, e.b>>
           P == PrecedesPairs(g)
           Q == P \cup {<<e.a, e.b>>}
<1>0. h \in Seq(Event) /\ g \in Graph
  BY DEF Ledger
<1>1. e.a \in Artifact /\ e.rel \in Rel /\ e.b \in Artifact
  BY EventFields
<1>2. l \in Link
  BY <1>1 DEF Link
<1>3. k = CreateLink(g, l)
  BY ApplyByType
<1> HIDE DEF k
<1>4. k \in Graph /\ k.node = g.node
  BY <1>0, <1>2, <1>3, LinkLemma
<1>5. \A m \in Link : m # l => k.edge[m] = g.edge[m]
  BY <1>0, <1>2, <1>3, LinkLemma
<1>6. k.edge[l] = g.edge[l] + Len(g.node[e.a]) * Len(g.node[e.b])
  <2>1. g = [node |-> g.node, edge |-> g.edge] /\ g.edge \in [Link -> Nat]
    BY <1>0 DEF Graph
  <2>2. k.edge = [g.edge EXCEPT ![l] = g.edge[l] + Len(g.node[l[1]]) * Len(g.node[l[3]])]
    BY <1>3, <2>1 DEF CreateLink
  <2> QED
    BY <1>2, <2>1, <2>2
<1> HIDE DEF l
<1>7. ASSUME NEW m \in Link, k.edge[m] > 0
      PROVE  \/ g.edge[m] > 0
             \/ m = l /\ g.node[e.a] # <<>> /\ g.node[e.b] # <<>>
  <2>1. CASE m # l
    BY <1>5, <1>7, <2>1
  <2>2. CASE m = l /\ (g.node[e.a] = <<>> \/ g.node[e.b] = <<>>)
    <3>1. Len(g.node[e.a]) = 0 \/ Len(g.node[e.b]) = 0
      BY <2>2
    <3>2. Len(g.node[e.a]) \in Nat /\ Len(g.node[e.b]) \in Nat
      BY <1>0, <1>1, NodeShape
    <3>3. Len(g.node[e.a]) * Len(g.node[e.b]) = 0
      <4>1. \A n \in Nat : 0 * n = 0 /\ n * 0 = 0
        OBVIOUS
      <4> QED
        BY <3>1, <3>2, <4>1, Zenon
    <3>4. k.edge[l] = g.edge[l] + 0
      BY <1>6, <3>3, Zenon
    <3>5. g.edge[l] \in Nat
      BY <1>0, <1>2 DEF Graph
    <3>6. k.edge[l] = g.edge[l]
      BY ONLY <3>4, <3>5
    <3> QED
      BY <1>7, <2>2, <3>6
  <2> QED
    BY <2>1, <2>2
<1>8. PairsAcyclic(k)
  <2>1. Finite(P) /\ NoWayBack(P)
    BY DEF Ledger, PairsAcyclic
  <2>2. ASSUME NEW p \in PrecedesPairs(k)
        PROVE  p \in P \/ (/\ p = <<e.a, e.b>> /\ e.rel = "precedes"
                           /\ e.a \in Task /\ e.b \in Task)
    <3>1. p \in Task \X Task /\ k.edge[<<p[1], "precedes", p[2]>>] > 0
      BY <2>2 DEF PrecedesPairs
    <3>2. <<p[1], "precedes", p[2]>> \in Link
      BY <3>1, TaskAssumption DEF Link
    <3>3. CASE g.edge[<<p[1], "precedes", p[2]>>] > 0
      BY <3>1, <3>3 DEF PrecedesPairs
    <3>4. CASE <<p[1], "precedes", p[2]>> = l
      BY <3>1, <3>4 DEF l
    <3> QED
      BY <1>7, <3>1, <3>2, <3>3, <3>4
  <2>3. CASE e.rel = "precedes" /\ e.a \in Task /\ e.b \in Task
    <3>1. ~CycleIfAdded(P, e.a, e.b)
      BY <2>3 DEF Fits, FitsLink
    <3>2. Finite(Q)
      BY <2>1, OneMorePair
    <3>3. NoWayBack(Q)
      BY <2>1, <3>1, <3>2, CheckIsExact
    <3>4. PrecedesPairs(k) \subseteq Q
      BY <2>2
    <3> QED
      BY <3>2, <3>3, <3>4, FewerPairs DEF PairsAcyclic
  <2>4. CASE ~(e.rel = "precedes" /\ e.a \in Task /\ e.b \in Task)
    <3>1. PrecedesPairs(k) \subseteq P
      BY <2>2, <2>4
    <3> QED
      BY <2>1, <3>1, FewerPairs DEF PairsAcyclic
  <2> QED
    BY <2>3, <2>4
<1>9. Ledger(Append(h, e), k)
  BY <1>4, <1>7, <1>8, LinkKeeps DEF l
<1> QED
  BY <1>9 DEF k

LEMMA UnlinkingKeeps ==
  ASSUME NEW h, NEW g, Ledger(h, g), NEW e \in Event, e.type = LinkRemoved
  PROVE  Ledger(Append(h, e), ApplyEvent(g, e))
<1> DEFINE k == ApplyEvent(g, e)
           l == <<e.a, e.rel, e.b>>
           P == PrecedesPairs(g)
<1>0. h \in Seq(Event) /\ g \in Graph
  BY DEF Ledger
<1>1. e.a \in Artifact /\ e.rel \in Rel /\ e.b \in Artifact
  BY EventFields
<1>2. l \in Link
  BY <1>1 DEF Link
<1>3. k = RemoveLink(g, l)
  BY ApplyByType
<1> HIDE DEF k, l
<1>4. k \in Graph /\ k.node = g.node
  BY <1>0, <1>2, <1>3, LinkLemma
<1>5. \A m \in Link : k.edge[m] \in {0, g.edge[m]}
  BY <1>0, <1>2, <1>3, LinkLemma
<1>6. \A m \in Link : k.edge[m] > 0 => g.edge[m] > 0
  BY <1>5
<1>7. ASSUME NEW p \in PrecedesPairs(k) PROVE p \in P
  <2>1. p \in Task \X Task /\ k.edge[<<p[1], "precedes", p[2]>>] > 0
    BY <1>7 DEF PrecedesPairs
  <2>2. <<p[1], "precedes", p[2]>> \in Link
    BY <2>1, TaskAssumption DEF Link
  <2> QED
    BY <1>6, <2>1, <2>2 DEF PrecedesPairs
<1>8. PairsAcyclic(k)
  <2>1. Finite(P) /\ NoWayBack(P)
    BY DEF Ledger, PairsAcyclic
  <2>2. PrecedesPairs(k) \subseteq P
    BY <1>7
  <2> QED
    BY <2>1, <2>2, FewerPairs DEF PairsAcyclic
<1>9. Ledger(Append(h, e), k)
  BY <1>4, <1>6, <1>8, LinkKeeps
<1> QED
  BY <1>9 DEF k

(* One event that fits keeps the ledger as it should be. *)
LEMMA EventKeeps ==
  ASSUME NEW h, NEW g, Ledger(h, g), NEW e \in Event, Fits(g, e)
  PROVE  Ledger(Append(h, e), ApplyEvent(g, e))
BY EventFields, CreationKeeps, MoveKeeps, UpdateKeeps, LinkingKeeps, UnlinkingKeeps

-----------------------------------------------------------------------------
(***************************************************************************)
(* A sequence of events each of which fits the graph the ones before it    *)
(* leave.                                                                  *)
(***************************************************************************)
Run(f, g, s) == f[0] = g /\ \A i \in 1..Len(s) : f[i] = ApplyEvent(f[i - 1], s[i])

AllFit(f, s) == \A i \in 1..Len(s) : Fits(f[i - 1], s[i])

Fitting(g, s) == \E f : Run(f, g, s) /\ AllFit(f, s)

LEMMA RunEnds ==
  ASSUME NEW g, NEW s, Len(s) \in Nat, NEW f, Run(f, g, s)
  PROVE  f[Len(s)] = ApplyAll(g, s)
<1>1. f[0] = g
  BY DEF Run
<1>2. \A i \in 1..Len(s) : f[i] = ApplyEvent(f[i - 1], s[i])
  BY Zenon DEF Run
<1> QED
  BY <1>1, <1>2, RunsAreApplyAll

LEMMA FitsNone ==
  ASSUME NEW g
  PROVE  Fitting(g, <<>>) /\ ApplyAll(g, <<>>) = g
<1> DEFINE f == [i \in {0} |-> g]
<1>1. Run(f, g, <<>>) /\ AllFit(f, <<>>)
  BY DEF Run, AllFit
<1> QED
  BY <1>1, ApplyNothing DEF Fitting

LEMMA FitsOne ==
  ASSUME NEW g, NEW e, Fits(g, e)
  PROVE  Fitting(g, <<e>>) /\ ApplyAll(g, <<e>>) = ApplyEvent(g, e)
<1> DEFINE f == [i \in 0..1 |-> IF i = 0 THEN g ELSE ApplyEvent(g, e)]
           s == <<e>>
<1>1. Len(s) = 1 /\ s[1] = e /\ f[0] = g /\ f[1] = ApplyEvent(g, e)
  OBVIOUS
<1> HIDE DEF f, s
<1>2. ASSUME NEW i \in 1..Len(s)
      PROVE  f[i] = ApplyEvent(f[i - 1], s[i]) /\ Fits(f[i - 1], s[i])
  <2>1. i = 1 /\ i - 1 = 0
    BY <1>1
  <2> QED
    BY <1>1, <2>1
<1>3. Run(f, g, s) /\ AllFit(f, s)
  BY <1>1, <1>2 DEF Run, AllFit
<1>4. f[Len(s)] = ApplyAll(g, s)
  <2>1. Len(s) \in Nat
    BY <1>1
  <2> QED
    BY <1>3, <2>1, RunEnds
<1> QED
  BY <1>1, <1>3, <1>4 DEF Fitting, s

LEMMA FitsThen ==
  ASSUME NEW g, NEW s \in Seq(Event), NEW t \in Seq(Event),
         Fitting(g, s), Fitting(ApplyAll(g, s), t)
  PROVE  Fitting(g, s \o t) /\ ApplyAll(g, s \o t) = ApplyAll(ApplyAll(g, s), t)
<1> DEFINE m == Len(s)
           n == Len(t)
           u == s \o t
<1>1. PICK f : Run(f, g, s) /\ AllFit(f, s)
  BY DEF Fitting
<1>2. PICK h : Run(h, ApplyAll(g, s), t) /\ AllFit(h, t)
  BY DEF Fitting
<1>3. /\ m \in Nat /\ n \in Nat /\ u \in Seq(Event) /\ Len(u) = m + n
      /\ \A i \in 1..m : u[i] = s[i]
      /\ \A i \in 1..n : u[m + i] = t[i]
  BY Joined
<1>4. f[m] = h[0] /\ h[n] = ApplyAll(ApplyAll(g, s), t)
  BY <1>1, <1>2, <1>3, RunEnds DEF Run
<1> DEFINE k == [i \in 0..(m + n) |-> IF i <= m THEN f[i] ELSE h[i - m]]
<1> HIDE DEF m, n, u
<1>5. /\ \A i \in 0..m : k[i] = f[i]
      /\ \A i \in 0..n : k[m + i] = h[i]
  <2>1. \A i \in 0..m : k[i] = f[i]
    BY <1>3
  <2>2. ASSUME NEW i \in 0..n PROVE k[m + i] = h[i]
    <3>1. CASE i = 0
      BY <1>3, <1>4, <3>1
    <3>2. CASE i # 0
      <4>1. m + i \in 0..(m + n) /\ ~(m + i <= m) /\ (m + i) - m = i
        BY <1>3, <3>2
      <4> QED
        BY <4>1
    <3> QED
      BY <3>1, <3>2
  <2> QED
    BY <2>1, <2>2
<1> HIDE DEF k
<1>6. ASSUME NEW i \in 1..Len(u)
      PROVE  k[i] = ApplyEvent(k[i - 1], u[i]) /\ Fits(k[i - 1], u[i])
  <2>1. CASE i <= m
    <3>1. i \in 1..m /\ i \in 0..m /\ i - 1 \in 0..m
      BY <1>3, <2>1
    <3>2. k[i] = f[i] /\ k[i - 1] = f[i - 1] /\ u[i] = s[i]
      BY <1>3, <1>5, <3>1
    <3>3. f[i] = ApplyEvent(f[i - 1], s[i]) /\ Fits(f[i - 1], s[i])
      BY <1>1, <3>1 DEF Run, AllFit, m
    <3> QED
      BY <3>2, <3>3
  <2>2. CASE ~(i <= m)
    <3> DEFINE j == i - m
    <3>1. j \in 1..n /\ j \in 0..n /\ j - 1 \in 0..n /\ i = m + j /\ i - 1 = m + (j - 1)
      BY <1>3, <2>2
    <3> HIDE DEF j
    <3>2. k[i] = h[j] /\ k[i - 1] = h[j - 1] /\ u[i] = t[j]
      BY <1>3, <1>5, <3>1
    <3>3. h[j] = ApplyEvent(h[j - 1], t[j]) /\ Fits(h[j - 1], t[j])
      BY <1>2, <3>1 DEF Run, AllFit, n
    <3> QED
      BY <3>2, <3>3
  <2> QED
    BY <2>1, <2>2
<1>7. k[0] = g
  BY <1>1, <1>3, <1>5 DEF Run
<1>8. Run(k, g, u) /\ AllFit(k, u)
  BY <1>6, <1>7 DEF Run, AllFit
<1>9. Len(u) \in Nat /\ k[Len(u)] = h[n]
  <2>1. n \in 0..n
    BY <1>3
  <2> QED
    BY <1>3, <1>5, <2>1
<1>10. k[Len(u)] = ApplyAll(g, u)
  BY <1>8, <1>9, RunEnds
<1> QED
  BY <1>4, <1>8, <1>9, <1>10 DEF Fitting, u

-----------------------------------------------------------------------------
(***************************************************************************)
(* What a command plans from a graph fits that graph, event by event, and  *)
(* leaves the reasons of every task in agreement with its state.           *)
(***************************************************************************)
ReasonOK(n) ==
  /\ n.prop["block_reason"] # Nil <=> n.state = "blocked"
  /\ n.prop["terminal_reason"] # Nil <=> n.state \in ReasonRequired

LEMMA ReasonsMatchNodes ==
  ASSUME NEW g
  PROVE  ReasonsMatch(g) <=> \A a \in Task : Resolves(g, a) => ReasonOK(g.node[a][1])
BY DEF ReasonsMatch, ReasonOK, PropertyOf, StateOf

(* The machine: no way out of a terminal state, none from a state to       *)
(* itself, and the states of a transition are states.                      *)
LEMMA MachineShape ==
  ASSUME NEW s \in State, NEW t, ValidTransition(s, t)
  PROVE  /\ t \in State /\ s \notin ReasonRequired /\ s \notin {"verified", "rejected"}
         /\ s # t /\ t # "proposed"
<1>1. s \in {"proposed", "accepted", "in_progress", "completed", "blocked", "verified",
            "rejected", "superseded", "withdrawn"}
  BY TaskAssumption
<1>2. t \in ResearchTask[s] /\ t \in State
  BY DEF ValidTransition
<1>3. /\ ResearchTask["proposed"] = {"accepted", "blocked", "rejected", "superseded", "withdrawn"}
      /\ ResearchTask["accepted"] = {"in_progress", "blocked", "superseded", "withdrawn"}
      /\ ResearchTask["in_progress"] = {"completed", "blocked", "superseded", "withdrawn"}
      /\ ResearchTask["completed"] = {"verified"}
      /\ ResearchTask["blocked"] = {"accepted", "in_progress", "superseded", "withdrawn"}
      /\ ResearchTask["verified"] = {} /\ ResearchTask["rejected"] = {}
      /\ ResearchTask["superseded"] = {} /\ ResearchTask["withdrawn"] = {}
  BY DEF ResearchTask
<1> QED
  BY <1>1, <1>2, <1>3 DEF ReasonRequired

(* The properties that ride with a transition. *)
LEMMA RidingProperties ==
  ASSUME NEW g, NEW actor \in Actor, NEW a, NEW s \in State, NEW t, ValidTransition(s, t)
  PROVE  LET u == TransitionProperties(g, actor, a, s, t) IN
           /\ u \in Update
           /\ u["terminal_reason"] = IF t \in ReasonRequired THEN "given" ELSE Keep
           /\ u["block_reason"] =
                IF t = "blocked" THEN "given"
                ELSE IF s = "blocked" /\ PropertyOf(g, a, "block_reason") # Nil THEN Nil
                ELSE Keep
<1> DEFINE u == TransitionProperties(g, actor, a, s, t)
<1>1. Property = {"claimed_by", "block_reason", "terminal_reason"} /\ "given" \in Value
      /\ actor \in Value
  BY TaskAssumption
<1>2. u["terminal_reason"] = IF t \in ReasonRequired THEN "given" ELSE Keep
  BY <1>1 DEF TransitionProperties
<1>3. u["block_reason"] =
        IF t = "blocked" THEN "given"
        ELSE IF s = "blocked" /\ PropertyOf(g, a, "block_reason") # Nil THEN Nil ELSE Keep
  BY <1>1 DEF TransitionProperties
<1>4. u["claimed_by"] \in {actor, Keep}
  BY <1>1 DEF TransitionProperties
<1>5. u = [p \in Property |-> u[p]]
  BY DEF TransitionProperties
<1>6. \A p \in Property : u[p] \in Value \cup {Nil, Keep}
  <2> HIDE DEF u
  <2> QED
    BY <1>1, <1>2, <1>3, <1>4
<1> HIDE DEF u
<1>7. u \in Update
  BY <1>5, <1>6 DEF Update
<1> QED
  BY <1>2, <1>3, <1>7 DEF u

LEMMA ReasonsRide ==
  ASSUME NEW g, NEW actor \in Actor, NEW a, NEW n \in Node, NEW t,
         ValidTransition(n.state, t), ReasonOK(n),
         n.state = "blocked" => PropertyOf(g, a, "block_reason") # Nil
  PROVE  LET u == TransitionProperties(g, actor, a, n.state, t)
         IN  ReasonOK(EnterState(SetProperties(n, u), t))
<1> DEFINE u == TransitionProperties(g, actor, a, n.state, t)
           k == EnterState(SetProperties(n, u), t)
<1>1. n.state \in State /\ n.prop \in [Property -> Value \cup {Nil}]
  BY DEF Node
<1>2. /\ u["terminal_reason"] = IF t \in ReasonRequired THEN "given" ELSE Keep
      /\ u["block_reason"] =
            IF t = "blocked" THEN "given"
            ELSE IF n.state = "blocked" THEN Nil ELSE Keep
  BY <1>1, RidingProperties
<1>3. n.state \notin ReasonRequired /\ t # n.state
  BY <1>1, MachineShape
<1>4. Nil # Keep /\ "given" # Nil /\ "given" # Keep
  BY ProjectionAssumption, TaskAssumption DEF Keep
<1> HIDE DEF u
<1>5. k.state = t /\ \A p \in Property :
                        k.prop[p] = IF u[p] = Keep THEN n.prop[p] ELSE u[p]
  BY DEF EnterState, SetProperties
<1>6. "block_reason" \in Property /\ "terminal_reason" \in Property
  BY TaskAssumption
<1> HIDE DEF k
<1>7. k.prop["block_reason"] # Nil <=> t = "blocked"
  BY <1>2, <1>3, <1>4, <1>5, <1>6 DEF ReasonOK
<1>8. k.prop["terminal_reason"] # Nil <=> t \in ReasonRequired
  BY <1>2, <1>3, <1>4, <1>5, <1>6 DEF ReasonOK
<1> QED
  BY <1>5, <1>7, <1>8 DEF ReasonOK, k, u

(* One property event, or one transition, on the one node of an id. *)
OneNodeNow(g, k, a, n) ==
  /\ k \in Graph /\ k.edge = g.edge /\ k.node[a] = <<n>>
  /\ \A b \in Artifact : b # a => k.node[b] = g.node[b]

LEMMA OneUpdate ==
  ASSUME NEW g \in Graph, NEW a \in Artifact, Resolves(g, a), NEW u \in Update
  PROVE  /\ Updated(a, u) \in Event /\ Fits(g, Updated(a, u))
         /\ OneNodeNow(g, ApplyEvent(g, Updated(a, u)), a, SetProperties(g.node[a][1], u))
<1> DEFINE e == Updated(a, u)
           k == ApplyEvent(g, e)
<1>1. e \in Event /\ e.type = ArtifactUpdated /\ e.a = a /\ e.set = u
  BY PayloadsAreEvents DEF Updated
<1> HIDE DEF e
<1>2. Fits(g, e)
  BY <1>1, KindsDiffer DEF Fits, FitsCreation, FitsMove, FitsLink
<1>3. k = UpdateNodes(g, a, u)
  BY <1>1, ApplyByType
<1> HIDE DEF k
<1>4. /\ k \in Graph /\ k.edge = g.edge
      /\ k.node = [g.node EXCEPT ![a] =
                     [i \in DOMAIN g.node[a] |-> SetProperties(g.node[a][i], u)]]
  BY <1>3, UpdateNodesLemma
<1>5. g.node \in [Artifact -> Seq(Node)] /\ DOMAIN g.node[a] = 1..1
  BY NodeShape DEF Graph, Resolves
<1>6. k.node[a] = [i \in 1..1 |-> SetProperties(g.node[a][i], u)]
  BY <1>4, <1>5
<1>7. k.node[a] = <<SetProperties(g.node[a][1], u)>>
  BY <1>6
<1>8. \A b \in Artifact : b # a => k.node[b] = g.node[b]
  BY <1>4, <1>5
<1> QED
  BY <1>1, <1>2, <1>4, <1>7, <1>8 DEF OneNodeNow, k, e

LEMMA OneMove ==
  ASSUME NEW g \in Graph, NEW a \in Task, Resolves(g, a), NEW s, StateOf(g, a) = s,
         NEW t, ValidTransition(s, t)
  PROVE  /\ Changed(a, s, t) \in Event /\ Fits(g, Changed(a, s, t))
         /\ OneNodeNow(g, ApplyEvent(g, Changed(a, s, t)), a, EnterState(g.node[a][1], t))
<1> DEFINE e == Changed(a, s, t)
           k == ApplyEvent(g, e)
<1>0. a \in Artifact /\ s \in State /\ t \in State
  BY TaskAssumption, ResolvedState DEF ValidTransition
<1>1. e \in Event /\ e.type = StateChanged /\ e.a = a /\ e.was = s /\ e.to = t
  BY <1>0, PayloadsAreEvents DEF Changed
<1> HIDE DEF e
<1>2. Fits(g, e)
  BY <1>1, KindsDiffer DEF Fits, FitsCreation, FitsMove, FitsLink
<1>3. k = ChangeState(g, a, t)
  BY <1>1, ApplyByType
<1> HIDE DEF k
<1>4. /\ k \in Graph /\ k.edge = g.edge
      /\ k.node = [g.node EXCEPT ![a] =
                     [i \in DOMAIN g.node[a] |-> EnterState(g.node[a][i], t)]]
  BY <1>0, <1>3, ChangeStateLemma
<1>5. g.node \in [Artifact -> Seq(Node)] /\ DOMAIN g.node[a] = 1..1
  BY <1>0, NodeShape DEF Graph, Resolves
<1>6. k.node[a] = [i \in 1..1 |-> EnterState(g.node[a][i], t)]
  BY <1>0, <1>4, <1>5
<1>7. k.node[a] = <<EnterState(g.node[a][1], t)>>
  BY <1>6
<1>8. \A b \in Artifact : b # a => k.node[b] = g.node[b]
  BY <1>4, <1>5
<1> QED
  BY <1>1, <1>2, <1>4, <1>7, <1>8 DEF OneNodeNow, k, e

(* A transition with what rides with it, planned from one graph and        *)
(* applied to one in which the task is in the state it leaves.             *)
LEMMA TransitionEffect ==
  ASSUME NEW g0 \in Graph, NEW g \in Graph, NEW actor \in Actor, NEW a \in Task,
         Resolves(g, a), ReasonOK(g.node[a][1]),
         NEW t, ValidTransition(StateOf(g, a), t),
         StateOf(g, a) = "blocked" => PropertyOf(g0, a, "block_reason") # Nil
  PROVE  LET w == TransitionWrites(g0, actor, a, StateOf(g, a), t)
             k == ApplyAll(g, w)
         IN  /\ w \in Seq(Event) /\ Fitting(g, w)
             /\ \E n : OneNodeNow(g, k, a, n) /\ ReasonOK(n) /\ n.state = t
<1> DEFINE s == StateOf(g, a)
           u == TransitionProperties(g0, actor, a, s, t)
           w == TransitionWrites(g0, actor, a, s, t)
           n == g.node[a][1]
<1>1. a \in Artifact /\ s \in State /\ n.state = s
  BY TaskAssumption, ResolvedState DEF StateOf
<1>2. n \in Node
  BY <1>1, NodeShape DEF Resolves
<1>3. u \in Update /\ ReasonOK(EnterState(SetProperties(n, u), t))
  BY <1>1, <1>2, RidingProperties, ReasonsRide
<1>4. EnterState(SetProperties(n, u), t).state = t
  BY DEF EnterState
<1>5. w = IF u = NoUpdate THEN <<Changed(a, s, t)>> ELSE <<Updated(a, u), Changed(a, s, t)>>
  BY DEF TransitionWrites
<1>6. t \in State
  BY DEF ValidTransition
<1>7. w \in Seq(Event)
  BY <1>1, <1>6, TransitionIsSeq
<1> HIDE DEF u, w
<1>8. CASE u = NoUpdate
  <2>1. SetProperties(n, u) = n
    <3>1. n = [state |-> n.state, prop |-> n.prop] /\ n.prop = [p \in Property |-> n.prop[p]]
      BY <1>2 DEF Node
    <3>2. [p \in Property |-> IF u[p] = Keep THEN n.prop[p] ELSE u[p]]
            = [p \in Property |-> n.prop[p]]
      BY <1>8 DEF NoUpdate
    <3> QED
      BY <3>1, <3>2 DEF SetProperties
  <2>2. /\ Fits(g, Changed(a, s, t))
        /\ OneNodeNow(g, ApplyEvent(g, Changed(a, s, t)), a, EnterState(n, t))
    BY OneMove
  <2>3. w = <<Changed(a, s, t)>>
    BY <1>5, <1>8
  <2>4. Fitting(g, w) /\ ApplyAll(g, w) = ApplyEvent(g, Changed(a, s, t))
    BY <2>2, <2>3, FitsOne
  <2>5. OneNodeNow(g, ApplyAll(g, w), a, EnterState(SetProperties(n, u), t))
    BY <2>1, <2>2, <2>4
  <2> QED
    BY <1>3, <1>4, <1>7, <2>4, <2>5 DEF w
<1>9. CASE u # NoUpdate
  <2> DEFINE e1 == Updated(a, u)
             e2 == Changed(a, s, t)
             g1 == ApplyEvent(g, e1)
  <2>1. e1 \in Event /\ Fits(g, e1) /\ OneNodeNow(g, g1, a, SetProperties(n, u))
    BY <1>1, <1>3, OneUpdate
  <2>2. g1 \in Graph /\ g1.node[a] = <<SetProperties(n, u)>>
    BY <2>1 DEF OneNodeNow
  <2>3. Resolves(g1, a) /\ g1.node[a][1] = SetProperties(n, u)
    BY <2>2 DEF Resolves
  <2>4. StateOf(g1, a) = s
    BY <1>1, <2>3 DEF StateOf, SetProperties
  <2> HIDE DEF g1
  <2>5. /\ e2 \in Event /\ Fits(g1, e2)
        /\ OneNodeNow(g1, ApplyEvent(g1, e2), a, EnterState(SetProperties(n, u), t))
    BY <2>2, <2>3, <2>4, OneMove
  <2> HIDE DEF e1, e2, s, n
  <2>6. Fitting(g, <<e1>>) /\ ApplyAll(g, <<e1>>) = g1
    BY <2>1, FitsOne DEF g1
  <2>7. Fitting(g1, <<e2>>) /\ ApplyAll(g1, <<e2>>) = ApplyEvent(g1, e2)
    BY <2>5, FitsOne
  <2>8. <<e1>> \in Seq(Event) /\ <<e2>> \in Seq(Event) /\ w = <<e1>> \o <<e2>>
    BY <1>5, <1>9, <2>1, <2>5 DEF e1, e2, s
  <2>9. Fitting(g, w) /\ ApplyAll(g, w) = ApplyEvent(g1, e2)
    BY <2>6, <2>7, <2>8, FitsThen
  <2>10. OneNodeNow(g, ApplyAll(g, w), a, EnterState(SetProperties(n, u), t))
    BY <2>1, <2>5, <2>9 DEF OneNodeNow
  <2> QED
    BY <1>3, <1>4, <1>7, <2>9, <2>10 DEF w, s, n
<1> QED
  BY <1>8, <1>9

(* Only the node of one id changed, and its reasons agree with its state. *)
LEMMA ReasonsAfter ==
  ASSUME NEW g, ReasonsMatch(g), NEW a \in Artifact, NEW k, NEW n,
         OneNodeNow(g, k, a, n), a \in Task => ReasonOK(n)
  PROVE  ReasonsMatch(k)
<1>1. \A b \in Task : Resolves(g, b) => ReasonOK(g.node[b][1])
  BY ReasonsMatchNodes
<1>2. ASSUME NEW b \in Task, Resolves(k, b) PROVE ReasonOK(k.node[b][1])
  <2>1. CASE b = a
    <3>1. k.node[b][1] = n
      BY <2>1 DEF OneNodeNow
    <3> QED
      BY <2>1, <3>1
  <2>2. CASE b # a
    <3>1. k.node[b] = g.node[b]
      BY <2>2, TaskAssumption DEF OneNodeNow
    <3> QED
      BY <1>1, <1>2, <3>1 DEF Resolves
  <2> QED
    BY <2>1, <2>2
<1> QED
  BY <1>2, ReasonsMatchNodes

LEMMA ReasonsStay ==
  ASSUME NEW g, ReasonsMatch(g), NEW k, k.node = g.node
  PROVE  ReasonsMatch(k)
BY DEF ReasonsMatch, Resolves, PropertyOf, StateOf

(* Links touch no node. *)
LEMMA OneLink ==
  ASSUME NEW g \in Graph, NEW a \in Artifact, NEW r \in Rel, NEW b \in Artifact,
         r = "precedes" /\ a \in Task /\ b \in Task => ~CycleIfAdded(PrecedesPairs(g), a, b)
  PROVE  /\ Linked(a, r, b) \in Event /\ Fits(g, Linked(a, r, b))
         /\ ApplyEvent(g, Linked(a, r, b)) = CreateLink(g, <<a, r, b>>)
         /\ ApplyEvent(g, Linked(a, r, b)) \in Graph
         /\ ApplyEvent(g, Linked(a, r, b)).node = g.node
<1> DEFINE e == Linked(a, r, b)
<1>1. e \in Event /\ e.type = LinkCreated /\ e.a = a /\ e.rel = r /\ e.b = b
  BY PayloadsAreEvents DEF Linked
<1> HIDE DEF e
<1>2. Fits(g, e)
  BY <1>1, KindsDiffer DEF Fits, FitsCreation, FitsMove, FitsLink
<1>3. ApplyEvent(g, e) = CreateLink(g, <<a, r, b>>)
  BY <1>1, ApplyByType
<1>4. <<a, r, b>> \in Link
  BY DEF Link
<1>5. CreateLink(g, <<a, r, b>>) \in Graph /\ CreateLink(g, <<a, r, b>>).node = g.node
  BY <1>4, LinkLemma
<1> QED
  BY <1>1, <1>2, <1>3, <1>5 DEF e

LEMMA OneUnlink ==
  ASSUME NEW g \in Graph, NEW a \in Artifact, NEW r \in Rel, NEW b \in Artifact
  PROVE  /\ Unlinked(a, r, b) \in Event /\ Fits(g, Unlinked(a, r, b))
         /\ ApplyEvent(g, Unlinked(a, r, b)).node = g.node
<1> DEFINE e == Unlinked(a, r, b)
<1>1. e \in Event /\ e.type = LinkRemoved /\ e.a = a /\ e.rel = r /\ e.b = b
  BY PayloadsAreEvents DEF Unlinked
<1> HIDE DEF e
<1>2. Fits(g, e)
  BY <1>1, KindsDiffer DEF Fits, FitsCreation, FitsMove, FitsLink
<1>3. ApplyEvent(g, e) = RemoveLink(g, <<a, r, b>>)
  BY <1>1, ApplyByType
<1>4. <<a, r, b>> \in Link
  BY DEF Link
<1>5. RemoveLink(g, <<a, r, b>>).node = g.node
  BY <1>4, LinkLemma
<1> QED
  BY <1>1, <1>2, <1>3, <1>5 DEF e

LEMMA OneCreation ==
  ASSUME NEW g \in Graph, NEW a \in Artifact, g.node[a] = <<>>
  PROVE  /\ Created(a) \in Event /\ Fits(g, Created(a))
         /\ OneNodeNow(g, ApplyEvent(g, Created(a)), a, FreshNode(InitialState))
         /\ ReasonOK(FreshNode(InitialState))
<1> DEFINE e == Created(a)
           k == ApplyEvent(g, e)
<1>0. InitialState \in State /\ InitialState = "proposed"
  BY ProjectionAssumption, TaskAssumption
<1>1. e \in Event /\ e.type = ArtifactCreated /\ e.a = a /\ e.to = InitialState
  BY PayloadsAreEvents DEF Created
<1> HIDE DEF e
<1>2. Fits(g, e)
  BY <1>1, KindsDiffer DEF Fits, FitsCreation, FitsMove, FitsLink
<1>3. k = CreateNode(g, a, InitialState)
  BY <1>1, ApplyByType
<1> HIDE DEF k
<1>4. /\ k \in Graph /\ k.edge = g.edge
      /\ k.node = [g.node EXCEPT ![a] = Append(g.node[a], FreshNode(InitialState))]
  BY <1>0, <1>3, CreateNodeLemma
<1>5. g.node \in [Artifact -> Seq(Node)]
  BY DEF Graph
<1>6. k.node[a] = <<FreshNode(InitialState)>>
  BY <1>4, <1>5
<1>7. \A b \in Artifact : b # a => k.node[b] = g.node[b]
  BY <1>4, <1>5
<1>8. ReasonOK(FreshNode(InitialState))
  <2>1. "block_reason" \in Property /\ "terminal_reason" \in Property
    BY TaskAssumption
  <2> QED
    BY <1>0, <2>1 DEF ReasonOK, FreshNode, ReasonRequired
<1> QED
  BY <1>1, <1>2, <1>4, <1>6, <1>7, <1>8 DEF OneNodeNow, k, e

-----------------------------------------------------------------------------
(* A sequence that may be written, and after which the reasons agree. *)
Keeps(g, c) == c \in Seq(Event) /\ Fitting(g, c) /\ ReasonsMatch(ApplyAll(g, c))

LEMMA TransitionsKeep ==
  ASSUME NEW g \in Graph, ReasonsMatch(g), NEW actor \in Actor,
         NEW c \in Transitions(g, actor)
  PROVE  Keeps(g, c)
<1>1. PICK a \in Task, t \in State :
        /\ Resolves(g, a) /\ ValidTransition(StateOf(g, a), t)
        /\ c = TransitionWrites(g, actor, a, StateOf(g, a), t)
  BY DEF Transitions
<1>2. a \in Artifact /\ ReasonOK(g.node[a][1])
  BY <1>1, TaskAssumption, ReasonsMatchNodes
<1>3. StateOf(g, a) = "blocked" => PropertyOf(g, a, "block_reason") # Nil
  BY <1>2 DEF ReasonOK, StateOf, PropertyOf
<1>4. /\ c \in Seq(Event) /\ Fitting(g, c)
      /\ \E n : OneNodeNow(g, ApplyAll(g, c), a, n) /\ ReasonOK(n) /\ n.state = t
  BY <1>1, <1>2, <1>3, TransitionEffect
<1>5. ReasonsMatch(ApplyAll(g, c))
  BY <1>2, <1>4, ReasonsAfter
<1> QED
  BY <1>4, <1>5 DEF Keeps

LEMMA SupersessionsKeep ==
  ASSUME NEW g \in Graph, ReasonsMatch(g), NEW actor \in Actor,
         NEW c \in Supersessions(g, actor)
  PROVE  Keeps(g, c)
<1>1. PICK a \in Task, b \in Artifact :
        /\ Resolves(g, a) /\ ValidTransition(StateOf(g, a), "superseded")
        /\ c = TransitionWrites(g, actor, a, StateOf(g, a), "superseded")
                 \o <<Linked(a, "superseded_by", b)>>
  BY DEF Supersessions
<1> DEFINE w == TransitionWrites(g, actor, a, StateOf(g, a), "superseded")
           k == ApplyAll(g, w)
           e == Linked(a, "superseded_by", b)
<1>2. a \in Artifact /\ ReasonOK(g.node[a][1]) /\ "superseded_by" \in Rel
  BY <1>1, TaskAssumption, ReasonsMatchNodes
<1>3. StateOf(g, a) = "blocked" => PropertyOf(g, a, "block_reason") # Nil
  BY <1>2 DEF ReasonOK, StateOf, PropertyOf
<1>4. /\ w \in Seq(Event) /\ Fitting(g, w)
      /\ \E n : OneNodeNow(g, k, a, n) /\ ReasonOK(n) /\ n.state = "superseded"
  BY <1>1, <1>2, <1>3, TransitionEffect
<1> HIDE DEF w
<1>5. ReasonsMatch(k) /\ k \in Graph
  BY <1>2, <1>4, ReasonsAfter DEF OneNodeNow
<1> HIDE DEF k
<1>6. e \in Event /\ Fits(k, e) /\ ApplyEvent(k, e).node = k.node
  BY <1>2, <1>5, OneLink
<1> HIDE DEF e
<1>7. Fitting(k, <<e>>) /\ ApplyAll(k, <<e>>) = ApplyEvent(k, e)
  BY <1>6, FitsOne
<1>8. <<e>> \in Seq(Event) /\ c = w \o <<e>>
  BY <1>1, <1>6 DEF w, e
<1>9. Fitting(g, c) /\ ApplyAll(g, c) = ApplyEvent(k, e)
  BY <1>4, <1>7, <1>8, FitsThen DEF k
<1>10. c \in Seq(Event)
  BY <1>4, <1>8
<1> QED
  BY <1>5, <1>6, <1>9, <1>10, ReasonsStay DEF Keeps

(* A walk: the transitions of one task, one after the other. *)
Walked(g, w, a, s) ==
  /\ w \in Seq(Event) /\ Fitting(g, w)
  /\ \E n : OneNodeNow(g, ApplyAll(g, w), a, n) /\ ReasonOK(n) /\ n.state = s

LEMMA WalkStarts ==
  ASSUME NEW g \in Graph, NEW actor \in Actor, NEW a \in Task, Resolves(g, a),
         ReasonsMatch(g), NEW s, StateOf(g, a) = s, NEW t, ValidTransition(s, t)
  PROVE  Walked(g, TransitionWrites(g, actor, a, s, t), a, t)
<1>1. ReasonOK(g.node[a][1])
  BY ReasonsMatchNodes
<1>2. StateOf(g, a) = "blocked" => PropertyOf(g, a, "block_reason") # Nil
  BY <1>1 DEF ReasonOK, StateOf, PropertyOf
<1> DEFINE w == TransitionWrites(g, actor, a, s, t)
<1>3. /\ w \in Seq(Event) /\ Fitting(g, w)
      /\ \E n : OneNodeNow(g, ApplyAll(g, w), a, n) /\ ReasonOK(n) /\ n.state = t
  BY <1>1, <1>2, TransitionEffect
<1> QED
  BY <1>3 DEF Walked

LEMMA WalkOn ==
  ASSUME NEW g \in Graph, NEW actor \in Actor, NEW a \in Task,
         NEW w, NEW s, Walked(g, w, a, s), s # "blocked", NEW t, ValidTransition(s, t)
  PROVE  Walked(g, w \o TransitionWrites(g, actor, a, s, t), a, t)
<1> DEFINE k == ApplyAll(g, w)
           v == TransitionWrites(g, actor, a, s, t)
<1>1. w \in Seq(Event) /\ Fitting(g, w)
  BY DEF Walked
<1>2. PICK n : OneNodeNow(g, k, a, n) /\ ReasonOK(n) /\ n.state = s
  BY DEF Walked
<1>3. k \in Graph /\ k.node[a] = <<n>>
  BY <1>2 DEF OneNodeNow
<1> HIDE DEF k
<1>4. Resolves(k, a) /\ k.node[a][1] = n /\ StateOf(k, a) = s
  BY <1>2, <1>3 DEF Resolves, StateOf
<1>5. /\ v \in Seq(Event) /\ Fitting(k, v)
      /\ \E m : OneNodeNow(k, ApplyAll(k, v), a, m) /\ ReasonOK(m) /\ m.state = t
  BY <1>2, <1>3, <1>4, TransitionEffect
<1>6. PICK m : OneNodeNow(k, ApplyAll(k, v), a, m) /\ ReasonOK(m) /\ m.state = t
  BY <1>5
<1> HIDE DEF v
<1>7. Fitting(g, w \o v) /\ ApplyAll(g, w \o v) = ApplyAll(k, v)
  BY <1>1, <1>5, FitsThen DEF k
<1>8. OneNodeNow(g, ApplyAll(g, w \o v), a, m)
  BY <1>2, <1>6, <1>7 DEF OneNodeNow
<1>9. w \o v \in Seq(Event)
  BY <1>1, <1>5
<1> QED
  BY <1>6, <1>7, <1>8, <1>9 DEF Walked, v

LEMMA WalksKeep ==
  ASSUME NEW g \in Graph, ReasonsMatch(g), NEW actor \in Actor, NEW c \in Walks(g, actor)
  PROVE  Keeps(g, c)
<1>1. PICK a \in Task :
        /\ Resolves(g, a) /\ c = Walk(g, actor, a)
        /\ StateOf(g, a) \in {"proposed", "accepted", "blocked", "in_progress"}
        /\ {"accepted", "in_progress", "completed"} \subseteq State
  BY DEF Walks
<1> DEFINE Step(s, t) == TransitionWrites(g, actor, a, s, t)
<1>2. /\ ValidTransition("proposed", "accepted") /\ ValidTransition("accepted", "in_progress")
      /\ ValidTransition("blocked", "in_progress") /\ ValidTransition("in_progress", "completed")
  BY <1>1 DEF ValidTransition, ResearchTask
<1>3. c = CASE StateOf(g, a) = "proposed" ->
                 Step("proposed", "accepted") \o Step("accepted", "in_progress")
                   \o Step("in_progress", "completed")
            [] StateOf(g, a) = "accepted" ->
                 Step("accepted", "in_progress") \o Step("in_progress", "completed")
            [] StateOf(g, a) = "blocked"  ->
                 Step("blocked", "in_progress") \o Step("in_progress", "completed")
            [] OTHER -> Step("in_progress", "completed")
  BY <1>1 DEF Walk
<1>4. ASSUME NEW s \in {"proposed", "accepted", "blocked", "in_progress"},
             NEW t, StateOf(g, a) = s, ValidTransition(s, t)
      PROVE  Walked(g, Step(s, t), a, t)
  BY <1>1, <1>4, WalkStarts
<1>5. ASSUME NEW w, NEW s, Walked(g, w, a, s), s # "blocked", NEW t, ValidTransition(s, t)
      PROVE  Walked(g, w \o Step(s, t), a, t)
  BY <1>5, WalkOn
<1> HIDE DEF Step
<1>6. Walked(g, c, a, "completed")
  <2>1. CASE StateOf(g, a) = "proposed"
    <3>1. Walked(g, Step("proposed", "accepted"), a, "accepted")
      BY <1>2, <1>4, <2>1
    <3>2. Walked(g, Step("proposed", "accepted") \o Step("accepted", "in_progress"),
                 a, "in_progress")
      BY <1>2, <1>5, <3>1
    <3>3. Walked(g, Step("proposed", "accepted") \o Step("accepted", "in_progress")
                      \o Step("in_progress", "completed"), a, "completed")
      BY <1>2, <1>5, <3>2
    <3> QED
      BY <1>3, <2>1, <3>3
  <2>2. CASE StateOf(g, a) = "accepted"
    <3>1. Walked(g, Step("accepted", "in_progress"), a, "in_progress")
      BY <1>2, <1>4, <2>2
    <3>2. Walked(g, Step("accepted", "in_progress") \o Step("in_progress", "completed"),
                 a, "completed")
      BY <1>2, <1>5, <3>1
    <3> QED
      BY <1>3, <2>2, <3>2
  <2>3. CASE StateOf(g, a) = "blocked"
    <3>1. Walked(g, Step("blocked", "in_progress"), a, "in_progress")
      BY <1>2, <1>4, <2>3
    <3>2. Walked(g, Step("blocked", "in_progress") \o Step("in_progress", "completed"),
                 a, "completed")
      BY <1>2, <1>5, <3>1
    <3> QED
      BY <1>3, <2>3, <3>2
  <2>4. CASE StateOf(g, a) = "in_progress"
    <3>1. Walked(g, Step("in_progress", "completed"), a, "completed")
      BY <1>2, <1>4, <2>4
    <3> QED
      BY <1>3, <2>4, <3>1
  <2> QED
    BY <1>1, <2>1, <2>2, <2>3, <2>4
<1>7. PICK n : OneNodeNow(g, ApplyAll(g, c), a, n) /\ ReasonOK(n)
  BY <1>6 DEF Walked
<1>8. ReasonsMatch(ApplyAll(g, c))
  BY <1>7, TaskAssumption, ReasonsAfter
<1> QED
  BY <1>6, <1>8 DEF Keeps, Walked

LEMMA BlockReasonsKeep ==
  ASSUME NEW g \in Graph, ReasonsMatch(g), NEW c \in BlockReasons(g)
  PROVE  Keeps(g, c)
<1> DEFINE u == [NoUpdate EXCEPT !["block_reason"] = "given"]
<1>1. PICK a \in Task : /\ Resolves(g, a) /\ StateOf(g, a) = "blocked"
                        /\ c = <<Updated(a, u)>>
  BY DEF BlockReasons
<1>2. /\ a \in Artifact /\ "given" \in Value /\ Nil # "given" /\ "given" # Keep
      /\ Property = {"claimed_by", "block_reason", "terminal_reason"}
  BY TaskAssumption, ProjectionAssumption DEF Keep
<1>3. /\ u = [p \in Property |-> IF p = "block_reason" THEN "given" ELSE Keep]
      /\ u \in Update
  BY <1>2 DEF NoUpdate, Update
<1> DEFINE n == g.node[a][1]
           m == SetProperties(n, u)
           e == Updated(a, u)
<1>4. e \in Event /\ Fits(g, e) /\ OneNodeNow(g, ApplyEvent(g, e), a, m)
  BY <1>1, <1>2, <1>3, OneUpdate
<1>5. ReasonOK(n) /\ n.state = "blocked"
  BY <1>1, ReasonsMatchNodes DEF StateOf
<1>6. /\ m.state = "blocked" /\ m.prop["block_reason"] = "given"
      /\ m.prop["terminal_reason"] = n.prop["terminal_reason"]
  BY <1>2, <1>3, <1>5 DEF SetProperties
<1>7. ReasonOK(m)
  BY <1>2, <1>5, <1>6 DEF ReasonOK
<1> HIDE DEF e, m, u
<1>8. Fitting(g, <<e>>) /\ ApplyAll(g, <<e>>) = ApplyEvent(g, e)
  BY <1>4, FitsOne
<1>9. c = <<e>> /\ c \in Seq(Event)
  BY <1>1, <1>4 DEF e
<1>10. ReasonsMatch(ApplyEvent(g, e))
  BY <1>2, <1>4, <1>7, ReasonsAfter
<1> QED
  BY <1>8, <1>9, <1>10 DEF Keeps

LEMMA CreationsKeep ==
  ASSUME NEW g \in Graph, ReasonsMatch(g), NEW fresh \in SUBSET Artifact,
         \A a \in fresh : g.node[a] = <<>>, NEW c \in Creations(g, fresh)
  PROVE  Keeps(g, c)
<1>1. ASSUME NEW a \in fresh
      PROVE  /\ Created(a) \in Event /\ Fits(g, Created(a))
             /\ ReasonsMatch(ApplyEvent(g, Created(a)))
             /\ ApplyEvent(g, Created(a)) \in Graph
             /\ Fitting(g, <<Created(a)>>)
             /\ ApplyAll(g, <<Created(a)>>) = ApplyEvent(g, Created(a))
  <2>1. /\ Created(a) \in Event /\ Fits(g, Created(a))
        /\ OneNodeNow(g, ApplyEvent(g, Created(a)), a, FreshNode(InitialState))
        /\ ReasonOK(FreshNode(InitialState))
    BY OneCreation
  <2>2. ReasonsMatch(ApplyEvent(g, Created(a)))
    BY <2>1, ReasonsAfter
  <2> QED
    BY <2>1, <2>2, FitsOne DEF OneNodeNow
<1>2. ASSUME NEW a \in fresh, c = <<Created(a)>> PROVE Keeps(g, c)
  BY <1>1, <1>2, ShortSequences DEF Keeps
<1>3. ASSUME NEW a \in fresh, NEW b \in Artifact,
             c = <<Created(a), Linked(a, "blocks", b)>>
      PROVE  Keeps(g, c)
  <2> DEFINE k == ApplyEvent(g, Created(a))
             e == Linked(a, "blocks", b)
  <2>1. k \in Graph /\ ReasonsMatch(k)
    BY <1>1
  <2> HIDE DEF k
  <2>2. e \in Event /\ Fits(k, e) /\ ApplyEvent(k, e).node = k.node
    BY <2>1, TaskAssumption, OneLink
  <2> HIDE DEF e
  <2>3. Fitting(k, <<e>>) /\ ApplyAll(k, <<e>>) = ApplyEvent(k, e)
    BY <2>2, FitsOne
  <2>4. /\ <<Created(a)>> \in Seq(Event) /\ <<e>> \in Seq(Event)
        /\ c = <<Created(a)>> \o <<e>>
    BY <1>1, <1>3, <2>2 DEF e
  <2>5. ApplyAll(g, <<Created(a)>>) = k /\ Fitting(g, <<Created(a)>>)
    BY <1>1 DEF k
  <2>6. Fitting(g, c) /\ ApplyAll(g, c) = ApplyEvent(k, e)
    BY <2>3, <2>4, <2>5, FitsThen
  <2>7. c \in Seq(Event)
    BY <2>4
  <2> QED
    BY <2>1, <2>2, <2>6, <2>7, ReasonsStay DEF Keeps
<1>4. \/ \E a \in fresh : c = <<Created(a)>>
      \/ \E x \in (fresh \cap Task) \X (Artifact \ Task) :
           c = <<Created(x[1]), Linked(x[1], "blocks", x[2])>>
  BY DEF Creations
<1>5. CASE \E a \in fresh : c = <<Created(a)>>
  BY <1>2, <1>5
<1>6. CASE \E x \in (fresh \cap Task) \X (Artifact \ Task) :
             c = <<Created(x[1]), Linked(x[1], "blocks", x[2])>>
  BY <1>3, <1>6
<1> QED
  BY <1>4, <1>5, <1>6

LEMMA PrecedesLinksKeep ==
  ASSUME NEW g \in Graph, ReasonsMatch(g), NEW c \in PrecedesLinks(g)
  PROVE  Keeps(g, c)
<1>1. PICK p \in Task \X Task : /\ c = <<Linked(p[1], "precedes", p[2])>>
                                /\ ~CycleIfAdded(PrecedesPairs(g), p[1], p[2])
  BY DEF PrecedesLinks
<1> DEFINE e == Linked(p[1], "precedes", p[2])
<1>2. p[1] \in Artifact /\ p[2] \in Artifact /\ "precedes" \in Rel
  BY TaskAssumption
<1>3. e \in Event /\ Fits(g, e) /\ ApplyEvent(g, e).node = g.node
  BY <1>1, <1>2, OneLink
<1> HIDE DEF e
<1>4. Fitting(g, <<e>>) /\ ApplyAll(g, <<e>>) = ApplyEvent(g, e)
  BY <1>3, FitsOne
<1>5. c = <<e>> /\ c \in Seq(Event)
  BY <1>1, <1>3 DEF e
<1> QED
  BY <1>3, <1>4, <1>5, ReasonsStay DEF Keeps

LEMMA UnprecedesKeep ==
  ASSUME NEW g \in Graph, ReasonsMatch(g), NEW c \in Unprecedes(g)
  PROVE  Keeps(g, c)
<1>1. PICK p \in PrecedesPairs(g) : c = <<Unlinked(p[1], "precedes", p[2])>>
  BY DEF Unprecedes
<1> DEFINE e == Unlinked(p[1], "precedes", p[2])
<1>2. p[1] \in Artifact /\ p[2] \in Artifact /\ "precedes" \in Rel
  BY TaskAssumption DEF PrecedesPairs
<1>3. e \in Event /\ Fits(g, e) /\ ApplyEvent(g, e).node = g.node
  BY <1>2, OneUnlink
<1> HIDE DEF e
<1>4. Fitting(g, <<e>>) /\ ApplyAll(g, <<e>>) = ApplyEvent(g, e)
  BY <1>3, FitsOne
<1>5. c = <<e>> /\ c \in Seq(Event)
  BY <1>1, <1>3 DEF e
<1> QED
  BY <1>3, <1>4, <1>5, ReasonsStay DEF Keeps

(* One write of a chain: nothing when the link is there, and otherwise one *)
(* that closes no cycle; either way the link is there after it.            *)
ChainWrite(g, x, y) ==
  IF <<x, y>> \in PrecedesPairs(g) THEN <<>> ELSE <<Linked(x, "precedes", y)>>

LEMMA LinkedPairs ==
  ASSUME NEW g \in Graph, NEW x \in Task, NEW y \in Task, Resolves(g, x), Resolves(g, y)
  PROVE  PrecedesPairs(CreateLink(g, <<x, "precedes", y>>)) =
           PrecedesPairs(g) \cup {<<x, y>>}
<1> DEFINE l == <<x, "precedes", y>>
           k == CreateLink(g, l)
<1>1. l \in Link
  BY TaskAssumption DEF Link
<1>2. g = [node |-> g.node, edge |-> g.edge] /\ g.edge \in [Link -> Nat]
  BY DEF Graph
<1>3. k.edge = [g.edge EXCEPT ![l] = g.edge[l] + Len(g.node[l[1]]) * Len(g.node[l[3]])]
  BY <1>2 DEF CreateLink
<1>4. Len(g.node[l[1]]) = 1 /\ Len(g.node[l[3]]) = 1
  BY DEF Resolves
<1>5. k.edge = [g.edge EXCEPT ![l] = g.edge[l] + 1]
  <2>1. Len(g.node[l[1]]) * Len(g.node[l[3]]) = 1
    BY <1>4
  <2> QED
    BY <1>3, <2>1
<1> HIDE DEF k
<1>6. k.edge[l] > 0 /\ \A m \in Link : m # l => k.edge[m] = g.edge[m]
  BY <1>1, <1>2, <1>5
<1>7. \A p \in Task \X Task : <<p[1], "precedes", p[2]>> \in Link
  BY TaskAssumption DEF Link
<1>8. \A p \in Task \X Task :
        k.edge[<<p[1], "precedes", p[2]>>] > 0
          <=> g.edge[<<p[1], "precedes", p[2]>>] > 0 \/ p = <<x, y>>
  <2>1. \A p \in Task \X Task : <<p[1], "precedes", p[2]>> = l <=> p = <<x, y>>
    OBVIOUS
  <2> HIDE DEF l
  <2> QED
    BY <1>6, <1>7, <2>1
<1>9. <<x, y>> \in Task \X Task
  OBVIOUS
<1>10. \A p : p \in PrecedesPairs(k) <=> p \in PrecedesPairs(g) \cup {<<x, y>>}
  BY <1>8, <1>9 DEF PrecedesPairs
<1> QED
  BY <1>10 DEF k

LEMMA ChainsKeep ==
  ASSUME NEW g \in Graph, ReasonsMatch(g), PairsAcyclic(g), NEW c \in Chains(g)
  PROVE  Keeps(g, c)
<1>1. PICK q \in Task \X Task \X Task :
        /\ Resolves(g, q[1]) /\ Resolves(g, q[2]) /\ Resolves(g, q[3])
        /\ ~ChainRefused(PrecedesPairs(g), q[1], q[2], q[3])
        /\ c = ChainWrites(g, q[1], q[2], q[3])
  BY DEF Chains
<1> DEFINE x == q[1]
           y == q[2]
           z == q[3]
           P == PrecedesPairs(g)
<1>2. /\ x \in Task /\ y \in Task /\ z \in Task
      /\ Resolves(g, x) /\ Resolves(g, y) /\ Resolves(g, z)
      /\ ~ChainRefused(P, x, y, z) /\ c = ChainWrite(g, x, y) \o ChainWrite(g, y, z)
  BY <1>1 DEF ChainWrites, ChainWrite
<1> HIDE DEF x, y, z
<1>3. Task \subseteq Artifact /\ "precedes" \in Rel
  BY TaskAssumption
<1>4. /\ ~LinkRefused(P, <<x, y>>) /\ ~LinkRefused(P \cup {<<x, y>>}, <<y, z>>)
  BY <1>2 DEF ChainRefused
<1>5. Finite(P)
  BY DEF PairsAcyclic
<1> HIDE DEF P
<1>6. ASSUME NEW h \in Graph, ReasonsMatch(h), NEW a \in Task, NEW b \in Task,
             Resolves(h, a), Resolves(h, b), ~CycleIfAdded(PrecedesPairs(h), a, b)
      PROVE  LET w == <<Linked(a, "precedes", b)>> IN
             /\ w \in Seq(Event) /\ Fitting(h, w) /\ ApplyAll(h, w) \in Graph
             /\ ApplyAll(h, w).node = h.node
             /\ PrecedesPairs(ApplyAll(h, w)) = PrecedesPairs(h) \cup {<<a, b>>}
  <2> DEFINE e == Linked(a, "precedes", b)
  <2>1. /\ e \in Event /\ Fits(h, e) /\ ApplyEvent(h, e) = CreateLink(h, <<a, "precedes", b>>)
        /\ ApplyEvent(h, e) \in Graph /\ ApplyEvent(h, e).node = h.node
    BY <1>3, <1>6, OneLink
  <2>2. PrecedesPairs(ApplyEvent(h, e)) = PrecedesPairs(h) \cup {<<a, b>>}
    BY <1>6, <2>1, LinkedPairs
  <2> HIDE DEF e
  <2>3. Fitting(h, <<e>>) /\ ApplyAll(h, <<e>>) = ApplyEvent(h, e) /\ <<e>> \in Seq(Event)
    BY <2>1, FitsOne
  <2> QED
    BY <2>1, <2>2, <2>3 DEF e
<1>7. /\ ChainWrite(g, x, y) \in Seq(Event) /\ Fitting(g, ChainWrite(g, x, y))
      /\ ApplyAll(g, ChainWrite(g, x, y)) \in Graph
      /\ ApplyAll(g, ChainWrite(g, x, y)).node = g.node
      /\ PrecedesPairs(ApplyAll(g, ChainWrite(g, x, y))) = P \cup {<<x, y>>}
  <2>1. CASE <<x, y>> \in P
    <3>1. ChainWrite(g, x, y) = <<>> /\ P \cup {<<x, y>>} = P
      BY <2>1 DEF ChainWrite, P
    <3> QED
      BY <3>1, FitsNone, ShortSequences DEF P
  <2>2. CASE <<x, y>> \notin P
    <3>1. ChainWrite(g, x, y) = <<Linked(x, "precedes", y)>>
      BY <2>2 DEF ChainWrite, P
    <3>2. ~CycleIfAdded(PrecedesPairs(g), x, y)
      BY <1>4, <2>2 DEF LinkRefused, P
    <3> QED
      BY <1>2, <1>6, <3>1, <3>2 DEF P
  <2> QED
    BY <2>1, <2>2
<1> DEFINE w == ChainWrite(g, x, y)
           k == ApplyAll(g, w)
           v == ChainWrite(g, y, z)
<1>8. ReasonsMatch(k) /\ Resolves(k, y) /\ Resolves(k, z)
  BY <1>2, <1>7, ReasonsStay DEF Resolves
<1>9. v \in Seq(Event) /\ Fitting(k, v) /\ ApplyAll(k, v).node = k.node
  <2>1. CASE <<y, z>> \in P
    <3>1. v = <<>>
      BY <2>1 DEF ChainWrite, P
    <3> HIDE DEF k, v
    <3> QED
      BY <3>1, FitsNone, ShortSequences
  <2>2. CASE <<y, z>> \notin P
    <3>1. v = <<Linked(y, "precedes", z)>>
      BY <2>2 DEF ChainWrite, P
    <3>2. <<y, z>> \notin P \cup {<<x, y>>}
      <4>1. ASSUME <<y, z>> = <<x, y>> PROVE FALSE
        <5>1. x = y /\ y = z /\ <<x, x>> \notin P
          BY <2>2, <4>1
        <5>2. CycleIfAdded(P, x, x)
          BY <1>5, ReachedIsClosed DEF CycleIfAdded, HasPath
        <5> QED
          BY <1>4, <5>1, <5>2 DEF LinkRefused
      <4> QED
        BY <2>2, <4>1
    <3>3. ~CycleIfAdded(P \cup {<<x, y>>}, y, z)
      BY <1>4, <3>2 DEF LinkRefused
    <3>4. k \in Graph /\ ~CycleIfAdded(PrecedesPairs(k), y, z)
      BY <1>7, <3>3
    <3> HIDE DEF k, v
    <3> QED
      BY <1>2, <1>6, <1>8, <3>1, <3>4
  <2> QED
    BY <2>1, <2>2
<1> HIDE DEF v
<1>10. w \in Seq(Event) /\ Fitting(g, w) /\ c = w \o v
  BY <1>2, <1>7 DEF v
<1> HIDE DEF w
<1>11. Fitting(g, c) /\ ApplyAll(g, c) = ApplyAll(k, v)
  BY <1>9, <1>10, FitsThen
<1>12. c \in Seq(Event)
  BY <1>9, <1>10
<1> HIDE DEF k
<1>13. ReasonsMatch(ApplyAll(k, v))
  BY <1>8, <1>9, ReasonsStay
<1> QED
  BY <1>11, <1>12, <1>13 DEF Keeps

(* A command plans events that fit the graph it read, with fresh ids. *)
LEMMA CommandKeeps ==
  ASSUME NEW g \in Graph, ReasonsMatch(g), PairsAcyclic(g),
         NEW fresh \in SUBSET Artifact, \A a \in fresh : g.node[a] = <<>>,
         NEW actor \in Actor, NEW c \in Commands(g, fresh, actor)
  PROVE  Keeps(g, c)
BY CreationsKeep, TransitionsKeep, SupersessionsKeep, WalksKeep, BlockReasonsKeep,
   PrecedesLinksKeep, ChainsKeep, UnprecedesKeep DEF Commands
=============================================================================
