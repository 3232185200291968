---------------------------- MODULE TaskCommands ----------------------------
(***************************************************************************)
(* What a command plans before it writes anything (core/artifacts.py,      *)
(* core/precedence.py): given the graph it read, the events it will append *)
(* in one write.  A command that refuses plans nothing.                    *)
(***************************************************************************)
EXTENDS Projection, Precedence

CONSTANTS
  Task,    \* the ids of type ResearchTask
  Actor    \* who runs commands

ASSUME TaskAssumption ==
  /\ Task \subseteq Artifact
  /\ Actor \subseteq Value
  /\ "given" \in Value
  /\ State \subseteq {"proposed", "accepted", "in_progress", "completed",
       "blocked", "verified", "rejected", "superseded", "withdrawn"}
  /\ InitialState = "proposed"
  /\ Property = {"claimed_by", "block_reason", "terminal_reason"}
  /\ {"precedes", "superseded_by", "blocks"} \subseteq Rel

(* domain/research.yaml, the ResearchTask machine; a run may keep only     *)
(* some of the states (State is its bound).                                *)
ResearchTask ==
  [proposed    |-> {"accepted", "blocked", "rejected", "superseded", "withdrawn"},
   accepted    |-> {"in_progress", "blocked", "superseded", "withdrawn"},
   in_progress |-> {"completed", "blocked", "superseded", "withdrawn"},
   completed   |-> {"verified"},
   blocked     |-> {"accepted", "in_progress", "superseded", "withdrawn"},
   verified    |-> {}, rejected |-> {}, superseded |-> {}, withdrawn |-> {}]

ValidTransition(s, t) == t \in ResearchTask[s] \cap State

ReasonRequired == {"withdrawn", "superseded"}

(* open_states: not terminal, and some way on that is not terminal.        *)
Terminal == {s \in DOMAIN ResearchTask : ResearchTask[s] = {}}

OpenStates ==
  {s \in DOMAIN ResearchTask \ Terminal :
     \E t \in ResearchTask[s] : t \notin Terminal}

-----------------------------------------------------------------------------
(* Reading the graph.  resolve_artifact_id refuses an id that matches no   *)
(* node and one that matches two.                                          *)
Resolves(g, a) == Len(g.node[a]) = 1

StateOf(g, a) == g.node[a][1].state

PropertyOf(g, a, p) == g.node[a][1].prop[p]

PrecedesPairs(g) ==
  {pair \in Task \X Task : g.edge[<<pair[1], "precedes", pair[2]>>] > 0}

-----------------------------------------------------------------------------
\* Mutant: a task that leaves `blocked` keeps its block reason.
TransitionKeepsReason(g, actor, a, s, t) ==
  [p \in Property |->
     CASE p = "terminal_reason" /\ t \in ReasonRequired -> "given"
       [] p = "claimed_by" /\ s = "accepted" /\ t = "in_progress" -> actor
       [] p = "block_reason" /\ t = "blocked" -> "given"
       [] OTHER -> Keep]

(* plan_task_transition from s to t: the properties that ride with it.     *)
(* The claim edge is accepted -> in_progress alone.                        *)
IsClaim(s, t) == s = "accepted" /\ t = "in_progress"

TransitionProperties(g, actor, a, s, t) ==
  [p \in Property |->
     CASE p = "terminal_reason" /\ t \in ReasonRequired -> "given"
       [] p = "claimed_by" /\ IsClaim(s, t) -> actor
       [] p = "block_reason" /\ t = "blocked" -> "given"
       [] /\ p = "block_reason" /\ t # "blocked" /\ s = "blocked"
          /\ PropertyOf(g, a, p) # Nil -> Nil
       [] OTHER -> Keep]

(* The property event comes before the state event, and only when there is *)
(* a property to set.                                                      *)
TransitionWrites(g, actor, a, s, t) ==
  LET u == TransitionProperties(g, actor, a, s, t)
  IN  IF u = NoUpdate THEN <<Changed(a, s, t)>>
      ELSE <<Updated(a, u), Changed(a, s, t)>>

(* transition_task, from the state the caller read. *)
Transitions(g, actor) ==
  {TransitionWrites(g, actor, x[1], StateOf(g, x[1]), x[2]) :
     x \in {y \in Task \X State :
              Resolves(g, y[1]) /\ ValidTransition(StateOf(g, y[1]), y[2])}}

(* ... with --superseded-by: the edge is planned last. *)
Supersessions(g, actor) ==
  {TransitionWrites(g, actor, x[1], StateOf(g, x[1]), "superseded")
      \o <<Linked(x[1], "superseded_by", x[2])>> :
     x \in {y \in Task \X Artifact :
              /\ Resolves(g, y[1]) /\ Resolves(g, y[2])
              /\ ValidTransition(StateOf(g, y[1]), "superseded")}}

\* Mutant: a task closed while blocked is completed in one step.
WalkPastBlocked(g, actor, a) ==
  LET Step(s, t) == TransitionWrites(g, actor, a, s, t)
      last == Step("in_progress", "completed")
  IN  CASE StateOf(g, a) = "proposed" ->
             Step("proposed", "accepted") \o Step("accepted", "in_progress") \o last
        [] StateOf(g, a) = "accepted" -> Step("accepted", "in_progress") \o last
        [] StateOf(g, a) = "blocked"  -> Step("blocked", "completed")
        [] OTHER -> last

(* walk_to_completed: every step is planned before anything is appended;   *)
(* a task closed while blocked goes through in_progress.                   *)
Walk(g, actor, a) ==
  LET Step(s, t) == TransitionWrites(g, actor, a, s, t)
      last == Step("in_progress", "completed")
  IN  CASE StateOf(g, a) = "proposed" ->
             Step("proposed", "accepted") \o Step("accepted", "in_progress") \o last
        [] StateOf(g, a) = "accepted" -> Step("accepted", "in_progress") \o last
        [] StateOf(g, a) = "blocked"  -> Step("blocked", "in_progress") \o last
        [] OTHER -> last

Walks(g, actor) ==
  {Walk(g, actor, a) :
     a \in {b \in Task : /\ Resolves(g, b)
                         /\ StateOf(g, b) \in
                              {"proposed", "accepted", "blocked", "in_progress"}
                         /\ {"accepted", "in_progress", "completed"}
                              \subseteq State}}

(* set_block_reason: only on a blocked task. *)
BlockReasons(g) ==
  {<<Updated(a, [NoUpdate EXCEPT !["block_reason"] = "given"])>> :
     a \in {b \in Task : Resolves(g, b) /\ StateOf(g, b) = "blocked"}}

-----------------------------------------------------------------------------
(* create_artifact and create_task: the id is a fresh uuid4.  A task may   *)
(* carry a link to an artifact that is already there, in the same append.  *)
Creations(g, fresh) ==
  {<<Created(a)>> : a \in fresh}
    \cup {<<Created(x[1]), Linked(x[1], "blocks", x[2])>> :
            x \in {y \in (fresh \cap Task) \X (Artifact \ Task) :
                     Resolves(g, y[2])}}

(* `seldon link create a precedes b`: refused when it would close a cycle, *)
(* but not when the edge is already there.  The ids are looked up as given,*)
(* never resolved.                                                         *)
PrecedesLinks(g) ==
  {<<Linked(pair[1], "precedes", pair[2])>> :
     pair \in {p \in Task \X Task :
                 /\ g.node[p[1]] # <<>> /\ g.node[p[2]] # <<>>
                 /\ ~CycleIfAdded(PrecedesPairs(g), p[1], p[2])}}

(* `seldon task precede a b`, `seldon task chain a b c`. *)
ChainWrites(g, first, second, third) ==
  LET Write(x, y) == IF <<x, y>> \in PrecedesPairs(g) THEN <<>>
                     ELSE <<Linked(x, "precedes", y)>>
  IN  Write(first, second) \o Write(second, third)

Chains(g) ==
  {ChainWrites(g, x[1], x[2], x[3]) :
     x \in {y \in Task \X Task \X Task :
              /\ \A i \in 1..3 : Resolves(g, y[i])
              /\ ~ChainRefused(PrecedesPairs(g), y[1], y[2], y[3])}}

(* `seldon task unprecede`: only an edge that is there. *)
Unprecedes(g) ==
  {<<Unlinked(pair[1], "precedes", pair[2])>> :
     pair \in {p \in PrecedesPairs(g) : Resolves(g, p[1]) /\ Resolves(g, p[2])}}

-----------------------------------------------------------------------------
(* Everything a process may plan from the graph it read.  An empty plan    *)
(* (a chain whose links all exist) writes nothing.                         *)
Commands(g, fresh, actor) ==
  (Creations(g, fresh)
     \cup Transitions(g, actor) \cup Supersessions(g, actor)
     \cup Walks(g, actor) \cup BlockReasons(g)
     \cup PrecedesLinks(g) \cup Chains(g) \cup Unprecedes(g)) \ {<<>>}

-----------------------------------------------------------------------------
(* What the commands are to keep true of a graph and of a history.         *)
OneNodeEach(g) ==
  /\ \A a \in Artifact : Len(g.node[a]) <= 1
  /\ \A l \in Link : g.edge[l] > 0 => g.node[l[1]] # <<>> /\ g.node[l[3]] # <<>>

ReasonsMatch(g) ==
  \A a \in Task : Resolves(g, a) =>
    /\ PropertyOf(g, a, "block_reason") # Nil <=> StateOf(g, a) = "blocked"
    /\ PropertyOf(g, a, "terminal_reason") # Nil <=> StateOf(g, a) \in ReasonRequired

(* The artifacts that exist, or once did. *)
Spent(events) ==
  {events[i].a : i \in {j \in DOMAIN events : events[j].type = ArtifactCreated}}

(* The events that say which state an artifact enters. *)
Moves(events, a) ==
  {i \in DOMAIN events :
     events[i].a = a /\ events[i].type \in {ArtifactCreated, StateChanged}}

(* A task is created once, then each transition starts in the state the    *)
(* one before it entered, and is one the machine allows.                   *)
LegalMove(events, before, e) ==
  IF before = {} THEN e.type = ArtifactCreated
  ELSE /\ e.type = StateChanged /\ ValidTransition(e.was, e.to)
       /\ \E i \in before : (\A k \in before : k <= i) /\ e.was = events[i].to

LegalHistory(events) ==
  \A a \in Task : \A j \in Moves(events, a) :
    LegalMove(events, {i \in Moves(events, a) : i < j}, events[j])
=============================================================================
