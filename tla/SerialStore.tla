----------------------------- MODULE SerialStore -----------------------------
(***************************************************************************)
(* The ledger with one process at work at a time, which may die before or  *)
(* after its append (but not inside it), with a rebuild before the next    *)
(* command when it does: what the commands then keep true.                 *)
(***************************************************************************)
EXTENDS EventStore

(* Halfway through its projection, or with a rebuild outstanding, the      *)
(* graph stands for the one a replay builds.                               *)
SettledGraph == IF Active = {} /\ ~drift THEN graph ELSE Replay(LogView)

(* The ids a uuid4 may still give out. *)
Fresh(history) == Artifact \ Spent(history)

Store == INSTANCE AtomicStore WITH history <- LogView, view <- SettledGraph

(* Every command takes effect as a whole or not at all, computed from the  *)
(* graph of everything before it: commit_writes, "A graph failure after it *)
(* is a projection fault that `seldon rebuild` repairs from the log, not a *)
(* partial command."                                                       *)
CommandsAreAtomic == Store!AtomicSpec

(* core/artifacts.py:plan_state_change stamps the state it read as the     *)
(* event's from_state: in the log every transition starts where the one    *)
(* before it ended, and is one the machine allows.                         *)
LogIsLegal == LegalHistory(LogView)

(* core/precedence.py:validate_precedes_write and add_chain: `precedes`    *)
(* stays acyclic, over chains, single links and removals.                  *)
PrecedesAcyclic == OnCycle(PrecedesPairs(Replay(LogView))) = {}

(* The properties that ride with a transition agree with the state:        *)
(* a task has a block reason exactly while it is blocked, and a terminal   *)
(* reason exactly when it was withdrawn or superseded                      *)
(* (core/artifacts.py:plan_task_transition, set_block_reason).             *)
ReasonsMatchState == Active = {} /\ ~drift => ReasonsMatch(graph)

(* A uuid4 is created once and every command resolves one node: no id ever *)
(* has two (graph.create_artifact is a bare CREATE, so nothing else stops  *)
(* it), and no relationship hangs off an id that has none.                 *)
OneNodePerId == OneNodeEach(graph)
=============================================================================
