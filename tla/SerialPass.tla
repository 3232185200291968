----------------------------- MODULE SerialPass -----------------------------
(***************************************************************************)
(* The dispatcher with max_parallel = 1 (commands/dispatch.py:_pass and    *)
(* _launch_inplace), what it puts back on the queue by itself              *)
(* (core/redrive.py), and the waits on tasks of other projects that hold a *)
(* task or release it (core/cross_project.py).  One pass runs at a time,   *)
(* under the lease, and reads a task's state some time before it uses it;  *)
(* people and sessions give commands meanwhile, and a command reads and    *)
(* appends in one step (EventStore takes it apart).  The other criteria    *)
(* may refuse any task; a merge is done or refused in one step             *)
(* (WorktreeDispatch takes it apart).                                      *)
(***************************************************************************)
EXTENDS Naturals

CONSTANTS
  Own,       \* tasks of this project
  Far,       \* tasks of another project, which this one only reads
  Nothing,   \* no task, no record
  MaxMoves   \* bound: commands, stops, outages and deaths

(* The records a stop is read from, the most specific first.  own: the     *)
(* reason is one of AUTO_REDRIVE_REASONS, a defect of the dispatcher's;    *)
(* auto and hand: the redrives that answer it.                             *)
SessionStop == 1
Huddle == 2
FinishRecord == 3

StopRecord ==
  [kind : SessionStop..FinishRecord, own : BOOLEAN, auto : Nat, hand : BOOLEAN]

ASSUME SerialAssumption ==
  Nothing \notin Own /\ Nothing \notin StopRecord /\ MaxMoves \in Nat

VARIABLES
  state,     \* per task: its state in the graph
  claim,     \* per task: whose marker claimed_by holds
  waits,     \* per task: waits_on_external
  stop,      \* per task: the record a redrive answers
  launched,  \* the tasks with a dispatch_launched
  far,       \* per task of the other project: what its graph says
  dark,      \* that graph cannot be read
  phase,     \* where the pass is
  batch,     \* the redrives it has still to do
  chosen,    \* the task it works on, and the state it has read of it
  late,      \* history: what the task waits on since that row was read
  moves

nodeVars == <<state, claim, waits>>
farVars == <<far, dark>>
passVars == <<phase, batch, chosen, late>>
serialVars == <<nodeVars, stop, launched, farVars, passVars, moves>>

(* Of what is written since the last launch, the latest of the most        *)
(* specific kind counts.                                                   *)
AnsweredStop(t, k, own) ==
  IF stop[t] = Nothing \/ k <= stop[t].kind
  THEN [kind |-> k, own |-> own, auto |-> 0, hand |-> FALSE]
  ELSE stop[t]

NoRow == [task |-> Nothing, from |-> "none"]

SerialInit ==
  /\ state \in [Own -> {"proposed", "accepted"}]
  /\ claim = [t \in Own |-> "none"] /\ waits \in [Own -> SUBSET Far]
  /\ stop = [t \in Own |-> Nothing] /\ launched = {}
  /\ far = [f \in Far |-> "open"] /\ dark = FALSE
  /\ phase = "idle" /\ batch = {} /\ chosen = NoRow /\ late = {} /\ moves = 0

-----------------------------------------------------------------------------
(* domain/research.yaml, with one terminal state for the tasks that ended  *)
(* without the work; `verified` is `completed` here.                       *)
TaskState ==
  {"proposed", "accepted", "in_progress", "blocked", "completed", "dropped"}

Edges ==
  [proposed    |-> {"accepted", "blocked", "dropped"},
   accepted    |-> {"in_progress", "blocked", "dropped"},
   in_progress |-> {"completed", "blocked", "dropped"},
   blocked     |-> {"accepted", "in_progress", "dropped"},
   completed   |-> {}, dropped |-> {}]

Move == moves < MaxMoves /\ moves' = moves + 1

(* A transition by a command; only accepted -> in_progress writes the      *)
(* claim, and nothing but a redrive takes it away.                         *)
Command(t) ==
  /\ Move
  /\ \E to \in Edges[state[t]] :
       /\ state' = [state EXCEPT ![t] = to]
       /\ claim' = [claim EXCEPT ![t] =
            IF state[t] = "accepted" /\ to = "in_progress" THEN "person" ELSE @]
  /\ UNCHANGED <<waits, stop, launched, farVars, passVars>>

(* From the row that was read to the end of its session. *)
Launching(t) == chosen.task = t /\ phase \in {"claim", "launch", "session"}

(* add_wait resolves its target in the other graph; remove_wait does not.  *)
AddWait(t, f) ==
  /\ Move /\ ~dark /\ f \notin waits[t]
  /\ waits' = [waits EXCEPT ![t] = @ \cup {f}]
  /\ late' = IF Launching(t) THEN late \cup {f} ELSE late
  /\ UNCHANGED <<state, claim, stop, launched, farVars, phase, batch, chosen>>

RemoveWait(t, f) ==
  /\ Move /\ f \in waits[t]
  /\ waits' = [waits EXCEPT ![t] = @ \ {f}]
  /\ UNCHANGED <<state, claim, stop, launched, farVars, passVars>>

(* `seldon dispatch stop`, or a station: for the latest launch, over or    *)
(* not.                                                                    *)
WriteStop(t) ==
  /\ Move /\ t \in launched
  /\ stop' = [stop EXCEPT ![t] = AnsweredStop(t, SessionStop, FALSE)]
  /\ UNCHANGED <<nodeVars, launched, farVars, passVars>>

-----------------------------------------------------------------------------
(* The other project.  A wait is satisfied by work that landed; one that   *)
(* was dropped, or is not there any more, never satisfies.                 *)
FarMove(f) ==
  /\ far[f] = "open"
  /\ \E to \in {"completed", "dropped"} : far' = [far EXCEPT ![f] = to]
  /\ UNCHANGED <<nodeVars, stop, launched, dark, passVars, moves>>

Darken ==
  /\ Move /\ ~dark /\ dark' = TRUE
  /\ UNCHANGED <<nodeVars, stop, launched, far, passVars>>

Lighten ==
  /\ dark /\ dark' = FALSE
  /\ UNCHANGED <<nodeVars, stop, launched, far, passVars, moves>>

Landed == {f \in Far : far[f] = "completed"}

\* Mutant: a target that ended satisfies, as AD-029 has it within a graph.
AnyEndSatisfies(t) == waits[t] = {} \/ (~dark /\ \A f \in waits[t] : far[f] # "open")

(* unsatisfied_waits is empty for the task: a graph that cannot be read    *)
(* satisfies nothing.                                                      *)
WaitsMet(t) == waits[t] = {} \/ (~dark /\ waits[t] \subseteq Landed)

-----------------------------------------------------------------------------
(* A redrive. *)

(* `blocked -> accepted`, the claim cleared, the stop answered.            *)
Redriven(t, answered) ==
  /\ state' = [state EXCEPT ![t] = "accepted"]
  /\ claim' = [claim EXCEPT ![t] = "none"]
  /\ stop' = [stop EXCEPT ![t] = answered]
  /\ UNCHANGED waits

(* `seldon dispatch redrive`.  Whether a stop was answered matters of the   *)
(* dispatcher's own only.                                                  *)
HandRedrive(t) ==
  /\ Move /\ state[t] = "blocked"
  /\ Redriven(t, IF stop[t] # Nothing /\ stop[t].own
                 THEN [stop[t] EXCEPT !.hand = TRUE] ELSE stop[t])
  /\ UNCHANGED <<launched, farVars, passVars>>

\* Mutant: whether the stop was answered already is not asked.
OwnDefectAgain(t) ==
  /\ state[t] = "blocked" /\ claim[t] = "dispatcher"
  /\ stop[t] # Nothing /\ stop[t].own

(* auto_redrive: the session was halted by a defect of the dispatcher's,   *)
(* and that stop has not been answered.                                    *)
OwnDefect(t) ==
  /\ state[t] = "blocked" /\ claim[t] = "dispatcher"
  /\ stop[t] # Nothing /\ stop[t].own /\ stop[t].auto = 0 /\ ~stop[t].hand

(* lift_satisfied_waits: a block somebody else than the dispatcher holds,  *)
(* on a task with waits.                                                   *)
DeclaredBlock(t) == state[t] = "blocked" /\ claim[t] # "dispatcher" /\ waits[t] # {}

-----------------------------------------------------------------------------
(* The pass. *)

InFlight(t) == state[t] = "in_progress" /\ claim[t] = "dispatcher"

(* With a claim in flight a pass redrives nothing and launches nothing.    *)
(* Otherwise _auto_redrive reads the blocked tasks and the log.            *)
BeginPass ==
  /\ phase = "idle" /\ \A t \in Own : ~InFlight(t)
  /\ phase' = "redrive"
  /\ batch' = {u \in Own : OwnDefect(u)}
  /\ UNCHANGED <<nodeVars, stop, launched, farVars, chosen, late, moves>>

(* redrive() takes one of them. *)
Take(t) ==
  /\ phase \in {"redrive", "lift"} /\ chosen = NoRow /\ t \in batch
  /\ chosen' = [task |-> t, from |-> "blocked"]
  /\ batch' = batch \ {t}
  /\ UNCHANGED <<nodeVars, stop, launched, farVars, phase, late, moves>>

\* Mutant: its state is not read again.
TakeUnread(t) == Take(t)

TakeBlocked(t) == state[t] = "blocked" /\ Take(t)

(* RedriveRefused: the task is not blocked any more.  It ends the whole of *)
(* auto_redrive, with what was still to do.                                *)
RedriveRefused ==
  /\ phase \in {"redrive", "lift"} /\ chosen = NoRow
  /\ \E t \in batch : state[t] # "blocked"
  /\ batch' = {} /\ phase' = "lift"
  /\ UNCHANGED <<nodeVars, stop, launched, farVars, chosen, late, moves>>

(* It moves the task from `blocked`, whatever its state is now, and        *)
(* answers the stop the pass began with: one written since then is not     *)
(* answered, and a lifted block answers the block itself.                  *)
Redrive ==
  LET t == chosen.task IN
  /\ phase \in {"redrive", "lift"} /\ chosen # NoRow
  /\ Redriven(t, IF phase = "redrive" /\ stop[t].own
                 THEN [stop[t] EXCEPT !.auto = @ + 1] ELSE stop[t])
  /\ chosen' = NoRow
  /\ UNCHANGED <<launched, farVars, phase, batch, late, moves>>

\* Mutant: a declared block is one without any claim.
ReadUnclaimed ==
  /\ phase = "redrive" /\ batch = {} /\ chosen = NoRow /\ phase' = "lift"
  /\ batch' = {u \in Own : DeclaredBlock(u) /\ claim[u] = "none" /\ WaitsMet(u)}
  /\ UNCHANGED <<nodeVars, stop, launched, farVars, chosen, late, moves>>

ReadWaits ==
  /\ phase = "redrive" /\ batch = {} /\ chosen = NoRow /\ phase' = "lift"
  /\ batch' = {u \in Own : DeclaredBlock(u) /\ WaitsMet(u)}
  /\ UNCHANGED <<nodeVars, stop, launched, farVars, chosen, late, moves>>

(* The rows are read and evaluated (c1, c17), and a premise review of the  *)
(* eligible ones picks a task, or none.                                    *)
Eligible(t) == state[t] \in {"proposed", "accepted"} /\ WaitsMet(t)

Evaluate ==
  /\ phase = "lift" /\ batch = {} /\ chosen = NoRow
  /\ \/ phase' = "idle" /\ UNCHANGED chosen
     \/ \E t \in Own : /\ Eligible(t) /\ phase' = "claim"
                      /\ chosen' = [task |-> t, from |-> state[t]]
  /\ late' = {}
  /\ UNCHANGED <<nodeVars, stop, launched, farVars, batch, moves>>

(* _claim, one transition at a time, from the state of the row.            *)
Accept ==
  /\ phase = "claim" /\ chosen.from = "proposed"
  /\ state' = [state EXCEPT ![chosen.task] = "accepted"]
  /\ chosen' = [chosen EXCEPT !.from = "accepted"]
  /\ UNCHANGED <<claim, waits, stop, launched, farVars, phase, batch, late, moves>>

Claim ==
  /\ phase = "claim" /\ chosen.from = "accepted"
  /\ state' = [state EXCEPT ![chosen.task] = "in_progress"]
  /\ claim' = [claim EXCEPT ![chosen.task] = "dispatcher"]
  /\ phase' = "launch"
  /\ UNCHANGED <<waits, stop, launched, farVars, batch, chosen, late, moves>>

(* dispatch_launched is appended and the session starts. *)
StartSession ==
  /\ phase = "launch" /\ phase' = "session"
  /\ stop' = [stop EXCEPT ![chosen.task] = Nothing]
  /\ launched' = launched \cup {chosen.task}
  /\ UNCHANGED <<nodeVars, farVars, batch, chosen, late, moves>>

(* A check that could not run: in the wrong tree, or for another reason.   *)
OpenHuddle ==
  /\ phase = "session"
  /\ \E own \in BOOLEAN :
       stop' = [stop EXCEPT ![chosen.task] = AnsweredStop(chosen.task, Huddle, own)]
  /\ UNCHANGED <<nodeVars, launched, farVars, passVars, moves>>

-----------------------------------------------------------------------------
(* finish_session. *)

Finished ==
  /\ phase' = "idle" /\ chosen' = NoRow /\ late' = {}
  /\ UNCHANGED <<waits, launched, farVars, batch, moves>>

(* It goes on with what it has read of the task, in a later step. *)
GoesOn(next, from) ==
  /\ phase' = next /\ chosen' = [chosen EXCEPT !.from = from] /\ late' = {}
  /\ UNCHANGED <<nodeVars, launched, farVars, batch, moves>>

(* The session was green, and its task in progress or completed: the       *)
(* branch is merged.                                                       *)
Merge ==
  /\ phase = "session" /\ state[chosen.task] \in {"in_progress", "completed"}
  /\ GoesOn("merged", "none")
  /\ UNCHANGED stop

(* The state is read again, the consumer's return is filed, and a task     *)
(* that was read as in progress is completed, whatever it is now.          *)
ReadMerged ==
  /\ phase = "merged" /\ UNCHANGED stop
  /\ IF state[chosen.task] = "in_progress"
     THEN GoesOn("complete", "in_progress")
     ELSE Finished /\ UNCHANGED <<state, claim>>

Complete ==
  /\ phase = "complete" /\ Finished
  /\ state' = [state EXCEPT ![chosen.task] = "completed"]
  /\ UNCHANGED <<claim, stop>>

(* Anything else, a merge that was refused among it: the state is read and *)
(* the finish recorded, and a task that was read as in progress is blocked.*)
Recorded(own) == AnsweredStop(chosen.task, FinishRecord, own)

ReadUnmerged ==
  /\ phase \in {"session", "merged"}
  /\ stop' = [stop EXCEPT ![chosen.task] = Recorded(FALSE)]
  /\ IF state[chosen.task] = "in_progress"
     THEN GoesOn("block", "in_progress")
     ELSE Finished /\ UNCHANGED <<state, claim>>

BlockHalted ==
  /\ phase = "block" /\ Finished
  /\ state' = [state EXCEPT ![chosen.task] = "blocked"]
  /\ UNCHANGED <<claim, stop>>

(* The graph could not be read.  The record goes to the log; the block is  *)
(* written from the state the claim left, whatever it is now, or fails     *)
(* too, and then the claim stays in flight.                                *)
FinishUnreadable ==
  /\ phase = "session" /\ Finished
  /\ stop' = [stop EXCEPT ![chosen.task] = Recorded(TRUE)]
  /\ state' \in {state, [state EXCEPT ![chosen.task] = "blocked"]}
  /\ UNCHANGED claim

(* The CLI ended before its first model turn: the finish is recorded, the  *)
(* task blocked when it was read as in progress, and redriven when it is   *)
(* blocked then, whoever blocked it.                                       *)
ReadUnlaunched ==
  /\ phase = "session"
  /\ stop' = [stop EXCEPT ![chosen.task] = Recorded(FALSE)]
  /\ CASE state[chosen.task] = "in_progress" -> GoesOn("unlaunched", "in_progress")
       [] state[chosen.task] = "blocked" -> GoesOn("requeue", "blocked")
       [] OTHER -> Finished /\ UNCHANGED <<state, claim>>

BlockUnlaunched ==
  /\ phase = "unlaunched" /\ phase' = "requeue"
  /\ state' = [state EXCEPT ![chosen.task] = "blocked"]
  /\ chosen' = [chosen EXCEPT !.from = "blocked"]
  /\ UNCHANGED <<claim, waits, stop, launched, farVars, batch, late, moves>>

(* redrive() refuses a task that is not blocked any more.  Else it reads   *)
(* the log, where a stop may be written after it has, and moves the task   *)
(* from `blocked`, whatever it is by then.                                 *)
Requeue ==
  LET t == chosen.task IN
  /\ phase = "requeue" /\ Finished
  /\ \/ /\ state' = [state EXCEPT ![t] = "accepted"]
        /\ claim' = [claim EXCEPT ![t] = "none"]
        /\ \/ stop' = [stop EXCEPT ![t].auto = @ + 1]
           \/ stop[t].kind = SessionStop /\ UNCHANGED stop
     \/ state[t] # "blocked" /\ UNCHANGED <<state, claim, stop>>

(* The pass dies anywhere; what it held in memory is gone. *)
PassDies ==
  /\ Move /\ phase # "idle"
  /\ phase' = "idle" /\ batch' = {} /\ chosen' = NoRow /\ late' = {}
  /\ UNCHANGED <<nodeVars, stop, launched, farVars>>

-----------------------------------------------------------------------------
SessionEnds ==
  \/ Merge \/ ReadMerged \/ Complete \/ ReadUnmerged \/ BlockHalted
  \/ FinishUnreadable \/ ReadUnlaunched \/ BlockUnlaunched \/ Requeue

PassStep ==
  \/ BeginPass \/ RedriveRefused \/ Redrive \/ ReadWaits \/ Evaluate
  \/ \E t \in Own : TakeBlocked(t)
  \/ Accept \/ Claim \/ StartSession

SerialNext ==
  \/ PassStep \/ OpenHuddle \/ SessionEnds \/ PassDies
  \/ \E t \in Own :
       \/ Command(t) \/ WriteStop(t) \/ HandRedrive(t)
       \/ \E f \in Far : AddWait(t, f) \/ RemoveWait(t, f)
  \/ \E f \in Far : FarMove(f)
  \/ Darken \/ Lighten

(* launchd starts a pass every few minutes, a session ends or is stopped   *)
(* (Stations), and an outage of the other graph does not last for ever.    *)
SerialFairness ==
  /\ WF_serialVars(PassStep) /\ WF_serialVars(SessionEnds) /\ WF_serialVars(Lighten)

SerialSpec == SerialInit /\ [][SerialNext]_serialVars /\ SerialFairness

-----------------------------------------------------------------------------
SerialTypeOK ==
  /\ state \in [Own -> TaskState]
  /\ claim \in [Own -> {"none", "person", "dispatcher"}]
  /\ waits \in [Own -> SUBSET Far]
  /\ stop \in [Own -> {Nothing} \cup StopRecord]
  /\ launched \subseteq Own
  /\ far \in [Far -> {"open", "completed", "dropped"}] /\ dark \in BOOLEAN
  /\ phase \in {"idle", "redrive", "lift", "claim", "launch", "session", "merged",
                "complete", "block", "unlaunched", "requeue"}
  /\ batch \subseteq Own
  /\ chosen \in [task : Own \cup {Nothing},
                 from : {"none", "proposed", "accepted", "blocked", "in_progress"}]
  /\ late \subseteq Far /\ moves \in 0..MaxMoves

(* AD-038-R8: no session works on a task before what it waits for in       *)
(* another project has landed (dropped, gone or unreadable is not landed), *)
(* except for a wait that was added after the queue was read.              *)
LaunchedWaitsMet ==
  \A t \in Own : Launching(t) => waits[t] \ late \subseteq Landed

(* already_redriven, "keeps the automatic redrive to one per stop":        *)
(* however often the task is claimed, blocked and claimed again without a  *)
(* launch, a stop puts it back on the queue by itself at most once.        *)
RedrivenOnce ==
  \A t \in Own : stop[t] # Nothing => stop[t].auto <= 1

(* Someone blocked the task until other work lands, and it has landed.     *)
Waited(t) ==
  /\ state[t] = "blocked" /\ claim[t] # "dispatcher"
  /\ waits[t] # {} /\ waits[t] \subseteq Landed

Liftable(t) == Waited(t) \/ OwnDefect(t)

(* A claim the dispatcher left in progress, which stops every pass (c6).   *)
ClaimLeft == phase = "idle" /\ \E t \in Own : InFlight(t)

(* auto_redrive: a declared block whose waits are satisfied is lifted, and *)
(* a session the dispatcher's own defect halted is put back, however other *)
(* redrives fail and the other graph goes out, unless a claim is left over.*)
(* Nothing tells the tasks apart: one of them stands for all.              *)
BlocksAreLifted ==
  LET t == CHOOSE u \in Own : TRUE
  IN Liftable(t) ~> (~Liftable(t) \/ ClaimLeft)

(* The pass goes on from an older reading of the task as not ended: a row  *)
(* to claim, a block to redrive, the state a finish read.                  *)
ReadOpen(t) ==
  chosen.task = t /\ phase \notin {"launch", "session", "merged"}

Ended(t) == state[t] \in {"completed", "dropped"}

(* What somebody ended is opened again, or ended otherwise, only by a pass *)
(* that had read it before: while the pass does not go on from such a      *)
(* reading a task that ended stays as it is, and the pass does not come to *)
(* one, since the queue, redrive and the finish read the task anew.  The   *)
(* finish that cannot read the graph blocks the task unread.               *)
EndedStays ==
  [][\A t \in Own :
       (Ended(t) /\ ~ReadOpen(t)) =>
         \/ state'[t] = state[t] /\ ~ReadOpen(t)'
         \/ phase = "session" /\ chosen.task = t /\ state'[t] = "blocked"
    ]_serialVars
=============================================================================
