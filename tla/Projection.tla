----------------------------- MODULE Projection -----------------------------
(***************************************************************************)
(* The event vocabulary of the ledger and what one event does to the graph *)
(* (core/events.py, core/graph.py, core/sync.py:_apply_event).             *)
(*                                                                         *)
(* An event keeps what the projection reads: its type, the artifacts it    *)
(* names, the two states of a transition, the relationship type and the    *)
(* properties it sets.  Identity, time stamps, actor and authority are     *)
(* left out: the projection copies them and no property reads them.        *)
(***************************************************************************)
EXTENDS Naturals, Sequences

CONSTANTS
  Artifact,      \* artifact ids
  Rel,           \* relationship types
  State,         \* lifecycle states
  InitialState,  \* the state `artifact_created` carries
  Property,      \* node properties the model keeps
  Value,         \* their values
  Nil            \* absent field, unset property

(* An `artifact_updated` payload names some properties and leaves the rest *)
(* of the node alone; `Keep` marks the ones it does not name.              *)
Keep == "keep"

ASSUME ProjectionAssumption ==
  /\ InitialState \in State
  /\ Nil \notin Artifact \cup Rel \cup State \cup Value \cup {Keep}

ArtifactCreated == "artifact_created"
ArtifactUpdated == "artifact_updated"
StateChanged    == "artifact_state_changed"
LinkCreated     == "link_created"
LinkRemoved     == "link_removed"

Update == [Property -> Value \cup {Nil, Keep}]

NoUpdate == [p \in Property |-> Keep]

(* The five payloads written by core/artifacts.py. *)
Created(a) ==
  [type |-> ArtifactCreated, a |-> a, b |-> Nil, rel |-> Nil,
   was |-> Nil, to |-> InitialState, set |-> NoUpdate]

Updated(a, u) ==
  [type |-> ArtifactUpdated, a |-> a, b |-> Nil, rel |-> Nil,
   was |-> Nil, to |-> Nil, set |-> u]

Changed(a, s, t) ==
  [type |-> StateChanged, a |-> a, b |-> Nil, rel |-> Nil,
   was |-> s, to |-> t, set |-> NoUpdate]

Linked(a, r, b) ==
  [type |-> LinkCreated, a |-> a, b |-> b, rel |-> r,
   was |-> Nil, to |-> Nil, set |-> NoUpdate]

Unlinked(a, r, b) ==
  [type |-> LinkRemoved, a |-> a, b |-> b, rel |-> r,
   was |-> Nil, to |-> Nil, set |-> NoUpdate]

Event ==
  {Created(a) : a \in Artifact}
    \cup {Updated(a, u) : a \in Artifact, u \in Update}
    \cup {Changed(a, s, t) : a \in Artifact, s \in State, t \in State}
    \cup {Linked(a, r, b) : a \in Artifact, r \in Rel, b \in Artifact}
    \cup {Unlinked(a, r, b) : a \in Artifact, r \in Rel, b \in Artifact}

-----------------------------------------------------------------------------
(* The graph.  CREATE makes a node whatever is already there, so an id may *)
(* have several nodes: node[a] lists them in creation order.  edge counts  *)
(* the parallel relationships of each kind between the nodes of two ids.   *)

Node == [state : State, prop : [Property -> Value \cup {Nil}]]

Link == Artifact \X Rel \X Artifact

Graph == [node : [Artifact -> Seq(Node)], edge : [Link -> Nat]]

EmptyGraph ==
  [node |-> [a \in Artifact |-> <<>>], edge |-> [l \in Link |-> 0]]

FreshNode(s) == [state |-> s, prop |-> [p \in Property |-> Nil]]

SetProperties(n, u) ==
  [state |-> n.state,
   prop |-> [p \in Property |-> IF u[p] = Keep THEN n.prop[p] ELSE u[p]]]

EnterState(n, s) == [state |-> s, prop |-> n.prop]

(* MATCH ... SET touches every node that carries the id. *)
CreateNode(g, a, s) == [g EXCEPT !.node[a] = Append(@, FreshNode(s))]

UpdateNodes(g, a, u) ==
  [g EXCEPT !.node[a] = [i \in DOMAIN @ |-> SetProperties(@[i], u)]]

ChangeState(g, a, s) ==
  [g EXCEPT !.node[a] = [i \in DOMAIN @ |-> EnterState(@[i], s)]]

(* MATCH (a), (b) CREATE: one relationship per pair of matched nodes, none *)
(* when an endpoint is missing.                                            *)
CreateLink(g, l) ==
  [g EXCEPT !.edge[l] = @ + Len(g.node[l[1]]) * Len(g.node[l[3]])]

(* MATCH (a)-[r]->(b) DELETE r: every parallel relationship goes. *)
RemoveLink(g, l) == [g EXCEPT !.edge[l] = 0]

(* core/sync.py:_apply_event, and the `project` callable of the planned    *)
(* write that appended the same event: both call the same graph functions. *)
ApplyEvent(g, e) ==
  CASE e.type = ArtifactCreated -> CreateNode(g, e.a, e.to)
    [] e.type = ArtifactUpdated -> UpdateNodes(g, e.a, e.set)
    [] e.type = StateChanged    -> ChangeState(g, e.a, e.to)
    [] e.type = LinkCreated     -> CreateLink(g, <<e.a, e.rel, e.b>>)
    [] e.type = LinkRemoved     -> RemoveLink(g, <<e.a, e.rel, e.b>>)

(* The events applied to g in order, and the graph a replay builds.        *)
ApplyAll(g, events) ==
  LET after[i \in 0..Len(events)] ==
        IF i = 0 THEN g ELSE ApplyEvent(after[i - 1], events[i])
  IN  after[Len(events)]

Replay(events) == ApplyAll(EmptyGraph, events)

-----------------------------------------------------------------------------
(* The graph says nothing that no event said: every node was created,      *)
(* every state entered, every property set and every relationship linked   *)
(* by one of the events.                                                   *)
NodesBacked(events, g) ==
  \A a \in Artifact : g.node[a] # <<>> =>
    \E e \in events : e.type = ArtifactCreated /\ e.a = a

StatesBacked(events, g) ==
  \A a \in Artifact : \A i \in DOMAIN g.node[a] :
    \E e \in events :
      /\ e.type \in {ArtifactCreated, StateChanged}
      /\ e.a = a /\ e.to = g.node[a][i].state

PropertiesBacked(events, g) ==
  \A a \in Artifact : \A i \in DOMAIN g.node[a] : \A p \in Property :
    g.node[a][i].prop[p] # Nil =>
      \E e \in events :
        e.type = ArtifactUpdated /\ e.a = a /\ e.set[p] = g.node[a][i].prop[p]

LinksBacked(events, g) ==
  \A l \in Link : g.edge[l] # 0 =>
    \E e \in events : e.type = LinkCreated /\ <<e.a, e.rel, e.b>> = l

BackedBy(events, g) ==
  /\ NodesBacked(events, g) /\ StatesBacked(events, g)
  /\ PropertiesBacked(events, g) /\ LinksBacked(events, g)
=============================================================================
