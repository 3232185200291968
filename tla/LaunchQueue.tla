----------------------------- MODULE LaunchQueue -----------------------------
(***************************************************************************)
(* Which tasks a parallel pass launches (core/dispatch.py:plan_launches,   *)
(* called by commands/dispatch_worktree.py:pass_parallel).  A task says    *)
(* what it touches, or that it is exclusive; a waiting task keeps what it  *)
(* declared from everything filed after it.  A task that finishes makes    *)
(* room for a new one under its name, at the end of the queue.             *)
(***************************************************************************)
EXTENDS Integers, FiniteSets, FiniteSetsExt, SequencesExt

CONSTANTS
  Job,          \* tasks
  Path,         \* what a task may touch: globs and named resources
  MaxParallel   \* dispatch.max_parallel

ASSUME LaunchQueueAssumption ==
  IsFiniteSet(Job) /\ MaxParallel \in Nat \ {0}

VARIABLES
  queue,      \* the tasks that wait or run, in the order they were created
  running,    \* the tasks a claim holds
  exclusive,  \* the tasks that declare themselves exclusive
  touches,    \* per task: the paths it declares
  refused     \* the tasks another criterion refuses

launchVars == <<queue, running, exclusive, touches, refused>>

LaunchInit ==
  /\ queue = <<>> /\ running = {} /\ exclusive = {} /\ refused = {}
  /\ touches = [j \in Job |-> {}]

Waiting == ToSet(queue) \ running

(* touches_overlap; an exclusive task overlaps everything. *)
Conflict(j, k) == j \in exclusive \/ k \in exclusive \/ touches[j] \cap touches[k] # {}

(* Filed: a declaration that parses (c10). *)
FileJob(j) ==
  /\ j \notin running \cup Waiting
  /\ queue' = Append(queue, j)
  /\ \E paths \in SUBSET Path : touches' = [touches EXCEPT ![j] = paths]
  /\ \E alone \in SUBSET {j} : exclusive' = exclusive \cup alone
  /\ UNCHANGED <<running, refused>>

(* fifo: the places of the waiting tasks that every other criterion lets   *)
(* through.                                                                *)
Candidates == {k \in DOMAIN queue : queue[k] \notin running \cup refused}

Before(k) == {i \in Candidates : i < k}

Ahead(k) == {queue[i] : i \in Before(k)}

\* Mutant: only what runs holds its paths.
FitsBesideRunning(k) == \A h \in running : ~Conflict(queue[k], h)

\* Mutant: a waiting exclusive task reserves nothing.
FitsPastExclusive(k) ==
  \A h \in running \cup {j \in Ahead(k) : running = {} \/ j \notin exclusive} : ~Conflict(queue[k], h)

(* Nothing that runs, and nothing ahead in the queue, launched or not,     *)
(* holds what the candidate declares.                                      *)
Fits(k) == \A h \in running \cup Ahead(k) : ~Conflict(queue[k], h)

(* One slot for each task that launches before it. *)
Launches(k) ==
  Fits(k) /\ Cardinality({i \in Before(k) : Fits(i)}) < MaxParallel - Cardinality(running)

Chosen == {k \in Candidates : Launches(k)}

(* A pass launches what is chosen; after the first, only what the disk     *)
(* still has room for (c12, measured again).                               *)
Pass ==
  /\ \E launched \in SUBSET Chosen :
       /\ Chosen # {} /\ Min(Chosen) \in launched
       /\ running' = running \cup {queue[k] : k \in launched}
  /\ UNCHANGED <<queue, exclusive, touches, refused>>

Finish(j) ==
  /\ j \in running /\ running' = running \ {j}
  /\ \E k \in DOMAIN queue : queue[k] = j /\ queue' = RemoveAt(queue, k)
  /\ exclusive' = exclusive \ {j} /\ touches' = [touches EXCEPT ![j] = {}]
  /\ UNCHANGED refused

(* Another criterion (a predecessor, a held premise) comes and goes. *)
Criterion(j) ==
  /\ j \in Waiting
  /\ refused' = (refused \cup {j}) \ (refused \cap {j})
  /\ UNCHANGED <<queue, running, exclusive, touches>>

LaunchNext == (\E j \in Job : FileJob(j) \/ Finish(j) \/ Criterion(j)) \/ Pass

(* The launch agent runs a pass every few minutes; a session is bounded by *)
(* its budget and its time.                                                *)
LaunchFairness == WF_launchVars(Pass) /\ \A j \in Job : WF_launchVars(Finish(j))

LaunchSpec == LaunchInit /\ [][LaunchNext]_launchVars /\ LaunchFairness

-----------------------------------------------------------------------------
(* Tasks that run together touch nothing in common, an exclusive one runs  *)
(* alone, and no more run than the project allows.                         *)
NoConflict ==
  /\ \A j, k \in running : j # k => ~Conflict(j, k)
  /\ Cardinality(running) <= MaxParallel

(* Whatever is filed after it, a task that the other criteria let through  *)
(* does not wait for ever: an exclusive one is not starved by small ones.  *)
EveryJobRuns == \A j \in Job : j \in Waiting ~> j \in refused \cup running
=============================================================================
