------------------------------ MODULE Staleness ------------------------------
(***************************************************************************)
(* How staleness spreads along citations (core/staleness.py:               *)
(* propagate_staleness, called by core/artifacts.py:transition_state and   *)
(* calling it), one state change at a time, while other commands change    *)
(* states too; and which stale artifacts are a recorded decision           *)
(* (decided_not_drifted).                                                  *)
(***************************************************************************)
EXTENDS Naturals, FiniteSets, Sequences

CONSTANTS
  Artifact,
  MaxMoves      \* bound: other commands, and deaths, during the walk

ASSUME StalenessAssumption == IsFiniteSet(Artifact) /\ MaxMoves \in Nat

(* A published artifact stands here with the verified ones: both may go    *)
(* stale.  A stale one may be verified again; a rejected one stays.        *)
Status == {"verified", "stale", "rejected"}

VARIABLES
  cites,       \* the pairs <<downstream, target>>
  status,      \* per artifact, in the graph
  frames,      \* the calls under way: what each read and has yet to look at
  begun,       \* the walk has begun
  walked,      \* history: the artifacts the walk has made stale
  disturbed,   \* history: the artifacts another command verified meanwhile
  cut,         \* history: the walk's process died
  moves,
  supersededBy,  \* per artifact: the artifacts its superseded_by ref names
  withdrawn      \* the artifacts with a reason for their withdrawal

pointers == <<cites, supersededBy, withdrawn>>
staleVars == <<pointers, status, frames, begun, walked, disturbed, cut, moves>>

(* Any citations, with no pointer anywhere, or any pointers (to which a    *)
(* rejected artifact is what a verified one is: not stale).                *)
StaleInit ==
  /\ \/ /\ cites \in SUBSET {p \in Artifact \X Artifact : p[1] # p[2]}
        /\ supersededBy = [a \in Artifact |-> {}] /\ withdrawn = {}
        /\ status \in [Artifact -> Status] /\ begun = FALSE
     \/ /\ cites = {} /\ begun = TRUE
        /\ status \in [Artifact -> {"verified", "stale"}]
        /\ supersededBy \in [Artifact -> SUBSET Artifact] /\ withdrawn \in SUBSET Artifact
  /\ frames = <<>> /\ walked = {} /\ disturbed = {} /\ cut = FALSE /\ moves = 0

(* What a call reads: the artifacts that cite the target, as they are.     *)
Citers(target, states) ==
  {<<d, states[d]>> : d \in {b \in Artifact : <<b, target>> \in cites}}

(* transition_state to stale: the change is committed, then the call that  *)
(* spreads it begins.                                                      *)
MakeStale(a, rest) ==
  LET now == [status EXCEPT ![a] = "stale"] IN
    /\ status' = now
    /\ walked' = walked \cup {a}
    /\ frames' = <<Citers(a, now)>> \o rest

Begin ==
  /\ ~begun /\ begun' = TRUE
  /\ \E a \in Artifact : status[a] = "verified" /\ MakeStale(a, <<>>)
  /\ UNCHANGED <<pointers, disturbed, cut, moves>>

\* Mutant: one generation of citers is made stale, and theirs are not looked at.
VisitShallow ==
  /\ frames # <<>> /\ Head(frames) # {}
  /\ \E r \in Head(frames) :
       /\ status' = IF r[2] = "verified" THEN [status EXCEPT ![r[1]] = "stale"] ELSE status
       /\ walked' = IF r[2] = "verified" THEN walked \cup {r[1]} ELSE walked
       /\ frames' = <<Head(frames) \ {r}>> \o Tail(frames)
  /\ UNCHANGED <<pointers, begun, disturbed, cut, moves>>

\* Mutant: a work list that takes every citer, its state unchecked.
VisitUnchecked ==
  /\ frames # <<>> /\ Head(frames) # {}
  /\ \E r \in Head(frames) : LET now == [status EXCEPT ![r[1]] = "stale"] IN
       /\ status' = now /\ walked' = walked \cup {r[1]}
       /\ frames' = <<(Head(frames) \ {r}) \cup Citers(r[1], now)>> \o Tail(frames)
  /\ UNCHANGED <<pointers, begun, disturbed, cut, moves>>

(* One citer, in the order the graph returned them.  The state that        *)
(* decides is the one that was read when the call began.                   *)
Visit ==
  /\ frames # <<>> /\ Head(frames) # {}
  /\ \E r \in Head(frames) : LET rest == <<Head(frames) \ {r}>> \o Tail(frames) IN
       \/ r[2] = "verified" /\ MakeStale(r[1], rest)
       \/ r[2] # "verified" /\ frames' = rest /\ UNCHANGED <<status, walked>>
  /\ UNCHANGED <<pointers, begun, disturbed, cut, moves>>

Return ==
  /\ frames # <<>> /\ Head(frames) = {}
  /\ frames' = Tail(frames)
  /\ UNCHANGED <<pointers, status, begun, walked, disturbed, cut, moves>>

(* Another command verifies an artifact again. *)
Verify ==
  /\ frames # <<>> /\ moves < MaxMoves /\ moves' = moves + 1
  /\ \E a \in Artifact :
       /\ status[a] = "stale"
       /\ status' = [status EXCEPT ![a] = "verified"] /\ disturbed' = disturbed \cup {a}
  /\ UNCHANGED <<pointers, frames, begun, walked, cut>>

WalkDies ==
  /\ frames # <<>> /\ moves < MaxMoves /\ moves' = moves + 1
  /\ frames' = <<>> /\ cut' = TRUE
  /\ UNCHANGED <<pointers, status, begun, walked, disturbed>>

StaleNext == Begin \/ Visit \/ Return \/ Verify \/ WalkDies

StaleFairness == WF_staleVars(Visit \/ Return)

StaleSpec == StaleInit /\ [][StaleNext]_staleVars /\ StaleFairness

-----------------------------------------------------------------------------
(* _verdict: the reason for a withdrawal, or a superseded_by that names    *)
(* one artifact, which is not stale or is itself a decision; an artifact   *)
(* seen before closes a cycle.  Here: the artifacts with a verdict, when   *)
(* those of `visited` were seen before them.                               *)

\* Mutant: an artifact seen before is taken for a successor that stands.
LandsOnCycle(a, visited) == TRUE

Lands(a, visited) == a \notin visited

Verdict[visited \in SUBSET Artifact] ==
  {a \in Artifact \ visited :
     \/ a \in withdrawn
     \/ \E s \in Artifact :
          /\ supersededBy[a] = {s}
          /\ \/ status[s] # "stale"
             \/ /\ Lands(s, visited \cup {a})
                /\ s \in visited \cup {a} \cup Verdict[visited \cup {a}]}

Decided(a) == a \in Verdict[{}]

(* The walk leaves nobody behind: once it is over, whatever cites an       *)
(* artifact it made stale is stale too or cannot be, unless the walk's     *)
(* process died or somebody verified that artifact meanwhile.              *)
StaleReaches ==
  frames = <<>> /\ ~cut =>
    \A p \in cites : p[2] \in walked => status[p[1]] # "verified" \/ p[1] \in disturbed

(* A stale artifact is reported as decided exactly when a chain of         *)
(* unambiguous pointers leads from it to a withdrawal or to an artifact    *)
(* that is not stale: the decided ones are the least set with that in it.  *)
Anchored(set) ==
  \A a \in Artifact :
    \/ a \in withdrawn
    \/ \E s \in Artifact : supersededBy[a] = {s} /\ (status[s] # "stale" \/ s \in set)
    => a \in set

VerdictIsAnchored ==
  \A a \in Artifact : Decided(a) <=> \A set \in SUBSET Artifact : Anchored(set) => a \in set

(* The walk ends, also when citations go round in a circle. *)
WalkEnds == []<>(frames = <<>>)
=============================================================================
