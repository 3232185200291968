-------------------------- MODULE WorktreeDispatch --------------------------
(***************************************************************************)
(* The dispatcher with max_parallel > 1 (commands/dispatch_worktree.py):   *)
(* a pass claims a task and starts a supervisor for it; the supervisor     *)
(* runs a session in a worktree of its own and merges its branch.  The     *)
(* pass and every finish hold the pass lease (Lease.tla, here one step);   *)
(* a supervisor holds the flock of its task's lease file, whose body says  *)
(* which launch works on the task.  A process dies anywhere.  A task runs  *)
(* in a worktree only, gate_record is not declared, and the sweeps, which  *)
(* remove worktrees nobody needs, are left out.  A task's state is read    *)
(* and used in two steps: operators' commands, which read and write in one *)
(* step here, take no lease and may come between.                          *)
(***************************************************************************)
EXTENDS Naturals

CONSTANTS
  Task,
  Launch,         \* bound: one supervisor, one worktree, one branch each
  File,           \* the files that are not housekeeping
  Writes,         \* the sets of files a session may commit
  MergeAttempts,  \* dispatch.merge_attempts
  MaxDeaths,      \* bound: processes that die
  None,
  Pass            \* the holder of the pass lease that is not a supervisor

ASSUME DispatchAssumption ==
  /\ None \notin Launch \cup {Pass} /\ Pass \notin Launch
  /\ MergeAttempts \in Nat \ {0} /\ MaxDeaths \in Nat
  /\ Writes \subseteq SUBSET File /\ {} \in Writes

VARIABLES
  task,    \* per task: its node, its lease file, its last finish record
  job,     \* per launch
  main,    \* the launches whose branch main was fast-forwarded to
  lock,    \* the pass lease
  seen,    \* the state its holder read of the task it finishes
  pass,    \* where the pass is
  found,   \* per task to be looked at for a reap: the lease body the pass read
  now,     \* the launch the pass works on
  todo,    \* the claims in place, then the launches to regate, the tasks to launch
  deaths,
  erased   \* history: launches whose supervising record was written over

passVars == <<pass, found, now, todo>>
vars == <<task, job, main, lock, seen, passVars, deaths, erased>>

NoBody == [launch |-> None, held |-> FALSE, supervising |-> FALSE]

Unused ==
  [task |-> None, pc |-> "unused", child |-> FALSE, writes |-> {},
   leaving |-> FALSE,    \* the supervisor has finished and is about to exit
   arrived |-> {},       \* files main changed since the commit the branch is based on
   failed |-> FALSE,     \* the last regate failed, and main has changed no file since
   ungated |-> {},       \* history: files main changed since the branch was cut or gated
   unchecked |-> {},     \* history: ... or the task's checks ran on it
   attempts |-> 0,
   verdict |-> None]     \* what the session left, until the branch is of no more use

Init ==
  /\ task = [t \in Task |-> [state |-> "accepted", claimed |-> FALSE,
                             flock |-> None, body |-> NoBody, last |-> None]]
  /\ job = [l \in Launch |-> Unused]
  /\ main = {}
  /\ lock = None /\ seen = None
  /\ pass = "idle" /\ found = [t \in Task |-> NoBody] /\ now = None /\ todo = {}
  /\ deaths = 0 /\ erased = {}

-----------------------------------------------------------------------------
(* A pass that merges a kept branch does what the supervisor would, and    *)
(* one whose launch failed finishes it.                                    *)
ByPass(l) == pass \in {"mend", "unlaunched"} /\ now = l

(* The supervisor's process runs. *)
Supervised(l) ==
  job[l].leaving \/ (job[l].pc \notin {"unused", "claimed", "gone"} /\ ~ByPass(l))

(* worktree_holder_alive: the flock decides once the body says so, before  *)
(* that the pid does.                                                      *)
HolderAlive(t, body) ==
  /\ body.held
  /\ IF body.supervising THEN task[t].flock # None ELSE Supervised(body.launch)

(* _claims_in_flight, split by _classify: a lease body names the task, or  *)
(* the claim reads as one in place.                                        *)
InFlight(t) == task[t].state = "in_progress" /\ task[t].claimed
InPlace(t)  == InFlight(t) /\ task[t].body.launch = None

\* Mutant: only a lease that still names a holder is stale.
HeldStale(t) == found[t].held /\ ~HolderAlive(t, found[t])

(* A claim is judged when its turn comes, by the body read at the start.   *)
Stale(t) == found[t].launch # None /\ ~HolderAlive(t, found[t])

(* regate_candidates. *)
KeptForRegate(l) ==
  /\ job[l].verdict = "stop_gate_unpassed" /\ job[l].writes # {}
  /\ task[job[l].task].last = l /\ task[job[l].task].state = "blocked"

(* The branch is there and may still be merged. *)
MayLand(l) ==
  \/ job[l].pc \in {"session", "failing", "checking", "fork", "gating", "ready"}
  \/ job[l].pc = "gone" /\ job[l].writes # {}

(* A commit that changes these files arrives on main, by somebody else     *)
(* than the launch.  (One that changes only housekeeping changes nothing   *)
(* here: it cannot conflict and is rebased over.)                          *)
Arrive(files, others) ==
  [l \in Launch |->
     IF l \in others /\ MayLand(l)
     THEN [job[l] EXCEPT !.arrived = @ \cup files, !.failed = @ /\ files = {},
                         !.ungated = @ \cup files, !.unchecked = @ \cup files]
     ELSE job[l]]

(* What main changed under the launch's branch. *)
Overlap(l) == job[l].arrived \cap job[l].writes

(* The pass lease is there for the caller: a pass holds it already.        *)
LeaseFor(l) == IF ByPass(l) THEN lock = Pass ELSE lock = None

Holder(l) == IF ByPass(l) THEN Pass ELSE l

(* The state is read under the lease, which is kept until it is used.      *)
HasRead(l) == seen # None /\ lock = Holder(l)

(* A launch whose branch nobody will merge: what is left of it are a       *)
(* session that runs on and a supervisor on its way out.                   *)
Over(l) ==
  [Unused EXCEPT !.task = job[l].task, !.pc = "gone",
                 !.child = job[l].child, !.leaving = job[l].leaving]

(* The finish is recorded: the lease is let go and its supervisor leaves,  *)
(* or the pass goes on to the next one.                                    *)
Leave(l, kept) ==
  /\ job' = [job EXCEPT ![l] =
       [IF kept THEN [job[l] EXCEPT !.pc = "gone"] ELSE Over(l)
        EXCEPT !.leaving = job[l].leaving \/ ~ByPass(l)]]
  /\ seen' = None
  /\ IF ByPass(l)
     THEN /\ pass' = IF pass = "mend" THEN "regate" ELSE "launch"
          /\ now' = None /\ UNCHANGED lock
     ELSE lock' = None /\ UNCHANGED <<pass, now>>

(* _block: only a task that was read as in progress is blocked, whatever   *)
(* it is now.                                                              *)
BlockedFrom(state, t) == IF state = "in_progress" THEN "blocked" ELSE task[t].state

(* A body is written over by anyone but its own release.                   *)
WriteOver(t) ==
  erased' = IF task[t].body.supervising THEN erased \cup {task[t].body.launch} ELSE erased

-----------------------------------------------------------------------------
(* The pass. *)

(* It takes the lease and reads the claims in flight, and their lease      *)
(* bodies.                                                                 *)
PassStart ==
  /\ pass = "idle" /\ lock = None
  /\ lock' = Pass /\ pass' = "reap"
  /\ found' = [t \in Task |-> IF InFlight(t) THEN task[t].body ELSE NoBody]
  /\ todo' = {t \in Task : InPlace(t)}
  /\ UNCHANGED <<task, job, main, seen, now, deaths, erased>>

(* _reap_stale, one claim after the other: the session its body leads to   *)
(* is killed, and the task blocked from in progress, unread.               *)
Reap(t) ==
  /\ pass = "reap" /\ Stale(t)
  /\ task' = [task EXCEPT ![t] = [@ EXCEPT !.state = "blocked", !.last = found[t].launch]]
  /\ job' = [job EXCEPT ![found[t].launch] =
       [Over(found[t].launch) EXCEPT !.child = @ /\ ~found[t].supervising]]
  /\ found' = [found EXCEPT ![t] = NoBody]
  /\ UNCHANGED <<main, lock, seen, pass, now, todo, deaths, erased>>

Spare(t) ==
  /\ pass = "reap" /\ found[t].launch # None /\ ~Stale(t)
  /\ found' = [found EXCEPT ![t] = NoBody]
  /\ UNCHANGED <<task, job, main, lock, seen, pass, now, todo, deaths, erased>>

(* A claim in place holds up the rest of the pass. *)
Reaped ==
  /\ pass = "reap" /\ \A t \in Task : found[t].launch = None
  /\ IF todo # {}
     THEN pass' = "launch" /\ todo' = {}
     ELSE pass' = "regate" /\ todo' = {l \in Launch : KeptForRegate(l)}
  /\ UNCHANGED <<task, job, main, lock, seen, found, now, deaths, erased>>

(* regate, of a candidate as the pass found it: nothing, when it failed    *)
(* before and main has changed no file since; else the branch is rebased,  *)
(* which may conflict, and the task's checks start.                        *)
Regate(l) ==
  /\ pass = "regate" /\ l \in todo
  /\ todo' = todo \ {l}
  /\ \/ job[l].failed /\ UNCHANGED <<job, pass, now>>
     \/ /\ ~job[l].failed /\ Overlap(l) # {}
        /\ job' = [job EXCEPT ![l].failed = TRUE]
        /\ UNCHANGED <<pass, now>>
     \/ /\ ~job[l].failed
        /\ job' = [job EXCEPT ![l] = [@ EXCEPT !.arrived = {}, !.pc = "checking"]]
        /\ pass' = "mend" /\ now' = l
  /\ UNCHANGED <<task, main, lock, seen, found, deaths, erased>>

(* They ran for minutes: the task is moved from the state it was in then,  *)
(* and what arrived meanwhile is not in the tree they read.                *)
ChecksPass(l) ==
  /\ ByPass(l) /\ job[l].pc = "checking"
  /\ job' = [job EXCEPT ![l] = [@ EXCEPT !.unchecked = job[l].arrived, !.attempts = 0,
                                          !.pc = "fork"]]
  /\ task' = [task EXCEPT ![job[l].task].state = "in_progress"]
  /\ UNCHANGED <<main, lock, seen, passVars, deaths, erased>>

ChecksFail(l) ==
  /\ ByPass(l) /\ job[l].pc = "checking"
  /\ job' = [job EXCEPT ![l] = [@ EXCEPT !.failed = job[l].arrived = {}, !.pc = "gone"]]
  /\ pass' = "regate" /\ now' = None
  /\ UNCHANGED <<task, main, lock, seen, found, todo, deaths, erased>>

(* The queue is evaluated: some of the dispatchable tasks will launch      *)
(* (which ones, plan_launches and the criteria say).                       *)
Evaluate ==
  /\ pass = "regate" /\ todo = {}
  /\ pass' = "launch"
  /\ todo' \in SUBSET {t \in Task : task[t].state = "accepted"}
  /\ UNCHANGED <<task, job, main, lock, seen, found, now, deaths, erased>>

Fresh == {l \in Launch : job[l].pc = "unused"}

(* _claim walks the task from the state of its row, not from its own.      *)
Claim(t) ==
  /\ pass = "launch" /\ t \in todo /\ Fresh # {}
  /\ LET l == CHOOSE m \in Fresh : TRUE IN
     /\ job' = [job EXCEPT ![l] = [@ EXCEPT !.task = t, !.pc = "claimed"]]
     /\ now' = l
  /\ task' = [task EXCEPT ![t] = [@ EXCEPT !.state = "in_progress", !.claimed = TRUE]]
  /\ pass' = "claimed" /\ todo' = todo \ {t}
  /\ UNCHANGED <<main, lock, seen, found, deaths, erased>>

Popen(l) ==
  /\ pass = "claimed" /\ now = l
  /\ job' = [job EXCEPT ![l].pc = "starting"]
  /\ pass' = "sign"
  /\ UNCHANGED <<task, main, lock, seen, found, now, todo, deaths, erased>>

(* Anything that fails after the claim is finished as a launch_failed, but *)
(* by _finish_unmerged.                                                    *)
LaunchFails(l) ==
  /\ pass = "claimed" /\ now = l
  /\ job' = [job EXCEPT ![l].pc = "refused"]
  /\ pass' = "unlaunched"
  /\ UNCHANGED <<task, main, lock, seen, found, now, todo, deaths, erased>>

(* The lease body is written after the supervisor was started.             *)
Sign(l) ==
  /\ pass = "sign" /\ now = l
  /\ LET t == job[l].task IN
     /\ task' = [task EXCEPT ![t].body = [launch |-> l, held |-> TRUE, supervising |-> FALSE]]
     /\ WriteOver(t)
  /\ pass' = "launch" /\ now' = None
  /\ UNCHANGED <<job, main, lock, seen, found, todo, deaths>>

PassEnd ==
  /\ pass = "launch" /\ (todo = {} \/ Fresh = {})
  /\ pass' = "idle" /\ lock' = None /\ todo' = {}
  /\ UNCHANGED <<task, job, main, seen, found, now, deaths, erased>>

PassDie ==
  /\ pass # "idle" /\ deaths < MaxDeaths
  /\ deaths' = deaths + 1
  /\ pass' = "idle" /\ lock' = None /\ seen' = None /\ now' = None /\ todo' = {}
  /\ found' = [t \in Task |-> NoBody]
  /\ job' = IF pass \in {"claimed", "mend", "unlaunched"}
            THEN [job EXCEPT ![now].pc = "gone"] ELSE job
  /\ UNCHANGED <<task, main, erased>>

-----------------------------------------------------------------------------
(* A supervisor and its session. *)

Starting(l)  == job[l].pc = "starting"
FlockFree(t) == task[t].flock = None

(* dispatch_supervise: the body, then the session, whose CLI cuts the      *)
(* worktree from main.                                                     *)
EnterAs(l, supervising) ==
  LET t == job[l].task IN
  /\ task' = [task EXCEPT ![t] = [@ EXCEPT !.flock = l,
       !.body = [launch |-> l, held |-> TRUE, supervising |-> supervising]]]
  /\ WriteOver(t)
  /\ job' = [job EXCEPT ![l] = [@ EXCEPT !.pc = "session", !.child = TRUE]]
  /\ UNCHANGED <<main, lock, seen, passVars, deaths>>

\* Mutant: the lock is only the body.
EnterUnlocked(l) == Starting(l) /\ EnterAs(l, TRUE)

\* Mutant: the supervisor never says that its flock is the liveness test.
EnterUnrecorded(l) == Starting(l) /\ FlockFree(job[l].task) /\ EnterAs(l, FALSE)

(* "Two supervisors for one worktree is the defect the lease exists for."  *)
Enter(l) == Starting(l) /\ FlockFree(job[l].task) /\ EnterAs(l, TRUE)

Refused(l) ==
  /\ Starting(l) /\ ~FlockFree(job[l].task)
  /\ job' = [job EXCEPT ![l].pc = "gone"]
  /\ UNCHANGED <<task, main, lock, seen, passVars, deaths, erased>>

(* A session may run `seldon cc complete` against its instructions.        *)
SessionCompletes(l) ==
  /\ job[l].child /\ task[job[l].task].state = "in_progress"
  /\ task' = [task EXCEPT ![job[l].task].state = "completed"]
  /\ UNCHANGED <<job, main, lock, seen, passVars, deaths, erased>>

(* finish_session: what the session left, and the task's state as it is    *)
(* read before the pass lease is asked for.                                *)
SessionEnds(l) ==
  /\ job[l].pc = "session"
  /\ \E w \in Writes, o \in {"launch_failed", "stop_gate_unpassed", "session_failed", "green"} :
       /\ o = "launch_failed" => w = {}
       /\ o = "green" => /\ w # {} /\ job[l].child
                         /\ task[job[l].task].state \in {"in_progress", "completed"}
       /\ job' = [job EXCEPT ![l] = [@ EXCEPT !.child = FALSE, !.writes = w, !.verdict = o,
                                               !.pc = IF o = "green" THEN "fork" ELSE "failing"]]
  /\ UNCHANGED <<task, main, lock, seen, passVars, deaths, erased>>

OrphanEnds(l) ==
  /\ job[l].pc = "gone" /\ job[l].child
  /\ job' = [job EXCEPT ![l].child = FALSE]
  /\ UNCHANGED <<task, main, lock, seen, passVars, deaths, erased>>

(* LeaseHeld: the lease did not come free in time; nothing is recorded.    *)
LeaveUnfinished(l) ==
  /\ job[l].pc \in {"failing", "refused", "ready"} /\ ~LeaseFor(l) /\ lock # l
  /\ job' = [job EXCEPT ![l] = [Over(l) EXCEPT !.leaving = TRUE]]
  /\ UNCHANGED <<task, main, lock, seen, passVars, deaths, erased>>

(* Lease.__exit__: the release keeps the launch's own fields.              *)
Exit(l) ==
  /\ job[l].leaving
  /\ task' = [task EXCEPT ![job[l].task] = [@ EXCEPT !.flock = None,
       !.body = [launch |-> l, held |-> FALSE, supervising |-> FALSE]]]
  /\ job' = [job EXCEPT ![l].leaving = FALSE]
  /\ UNCHANGED <<main, lock, seen, passVars, deaths, erased>>

(* The kernel drops what it held; a session runs on. *)
SupervisorDies(l) ==
  /\ Supervised(l) /\ deaths < MaxDeaths
  /\ deaths' = deaths + 1
  /\ job' = [job EXCEPT ![l] = [IF job[l].leaving THEN job[l] ELSE Over(l) EXCEPT !.leaving = FALSE]]
  /\ task' = [task EXCEPT ![job[l].task].flock = IF @ = l THEN None ELSE @]
  /\ IF lock = l THEN lock' = None /\ seen' = None ELSE UNCHANGED <<lock, seen>>
  /\ UNCHANGED <<main, passVars, erased>>

-----------------------------------------------------------------------------
(* The merge (_merge), by the supervisor or by a pass. *)

(* A round: rebase onto main as it is now; gate the branch when main has   *)
(* changed a file it changed.  A rebase may conflict there.                *)
Fork(l) ==
  /\ job[l].pc = "fork"
  /\ \/ /\ Overlap(l) # {}
        /\ job' = [job EXCEPT ![l].pc = "refused"]
     \/ job' = [job EXCEPT ![l] = [@ EXCEPT !.arrived = {}, !.attempts = job[l].attempts + 1,
                                             !.pc = IF Overlap(l) # {} THEN "gating" ELSE "ready"]]
  /\ UNCHANGED <<task, main, lock, seen, passVars, deaths, erased>>

(* The round's other readings refuse: uncommitted changes, an invalid      *)
(* union file, a changed spec, an invalid register.                        *)
Refuse(l) ==
  /\ job[l].pc \in {"fork", "ready"}
  /\ job' = [job EXCEPT ![l].pc = "refused"]
  /\ UNCHANGED <<task, main, lock, seen, passVars, deaths, erased>>

(* gate_command, outside the pass lease. *)
GateGreen(l) ==
  /\ job[l].pc = "gating"
  /\ job' = [job EXCEPT ![l] = [@ EXCEPT !.ungated = job[l].arrived,
                                          !.unchecked = job[l].arrived, !.pc = "ready"]]
  /\ UNCHANGED <<task, main, lock, seen, passVars, deaths, erased>>

GateRed(l) ==
  /\ job[l].pc = "gating"
  /\ job' = [job EXCEPT ![l].pc = "refused"]
  /\ UNCHANGED <<task, main, lock, seen, passVars, deaths, erased>>

(* Under the lease: another round, as long as there is one. *)
AnotherRound(l, exhausted) ==
  /\ job[l].pc = "ready" /\ LeaseFor(l)
  /\ job' = [job EXCEPT ![l].pc = IF job[l].attempts = MergeAttempts THEN exhausted ELSE "fork"]
  /\ UNCHANGED <<task, main, lock, seen, passVars, deaths, erased>>

\* Mutant: exhausted rounds fall through to the finish.
RetryFallsThrough(l) == AnotherRound(l, "landed")

(* Main has really moved, or git refuses to fast-forward. *)
Retry(l) == AnotherRound(l, "refused")

FastForward(l) ==
  /\ job[l].pc = "ready" /\ LeaseFor(l)
  /\ main' = main \cup {l}
  /\ job' = [Arrive(job[l].writes, Launch \ {l}) EXCEPT ![l].pc = "landed"]
  /\ lock' = IF ByPass(l) THEN lock ELSE l
  /\ UNCHANGED <<task, seen, passVars, deaths, erased>>

\* Mutant: what arrived on main while the branch was gated is not read.
LandOverMoves(l) == FastForward(l)

(* Nothing but housekeeping has arrived, and is rebased over in the lease. *)
Land(l) == job[l].arrived = {} /\ FastForward(l)

(* _finish_merged, in the same lease: the state is read, the return, if    *)
(* the task owes one, is filed, which may wait and run git, and only then  *)
(* is the task completed, or blocked with the return that was refused.     *)
ReadMerged(l) ==
  /\ job[l].pc = "landed" /\ seen = None
  /\ seen' = task[job[l].task].state
  /\ UNCHANGED <<task, job, main, lock, passVars, deaths, erased>>

FinishMerged(l) ==
  LET t == job[l].task IN
  /\ job[l].pc = "landed" /\ seen # None
  /\ \E after \in {"completed", "blocked"} :
       task' = [task EXCEPT ![t] = [@ EXCEPT !.last = l,
         !.state = IF seen = "in_progress" THEN after ELSE task[t].state]]
  /\ Leave(l, FALSE)
  /\ UNCHANGED <<main, found, todo, deaths, erased>>

(* _finish_unmerged and _finish_launch_failed, in a lease of their own:    *)
(* the state is read and the finish recorded, and then the task blocked.   *)
ReadFinish(l) ==
  /\ job[l].pc \in {"failing", "refused"} /\ seen = None /\ LeaseFor(l)
  /\ seen' = task[job[l].task].state
  /\ task' = [task EXCEPT ![job[l].task].last = l]
  /\ lock' = Holder(l)
  /\ UNCHANGED <<job, main, passVars, deaths, erased>>

FinishAs(l, state) ==
  LET t == job[l].task
      after == BlockedFrom(state, t)
  IN
  /\ job[l].pc \in {"failing", "refused"} /\ HasRead(l)
  /\ task' = [task EXCEPT ![t].state = after]
  /\ IF job[l].pc = "failing" /\ job[l].verdict = "launch_failed" /\ after = "blocked"
     THEN job' = [job EXCEPT ![l].pc = "requeue"] /\ UNCHANGED <<lock, seen, pass, now>>
     ELSE Leave(l, job[l].pc = "failing" /\ job[l].verdict = "stop_gate_unpassed")
  /\ UNCHANGED <<main, found, todo, deaths, erased>>

\* Mutant: the task is blocked as if nobody else could have moved it.
FinishUnread(l) == FinishAs(l, "in_progress")

Finish(l) == FinishAs(l, seen)

(* A launch that failed is redriven, whoever blocked it: redrive() finds   *)
(* it blocked and moves it from there, or refuses.                         *)
Requeue(l) ==
  LET t == job[l].task IN
  /\ job[l].pc = "requeue"
  /\ \/ task' = [task EXCEPT ![t] = [@ EXCEPT !.state = "accepted", !.claimed = FALSE]]
     \/ task[t].state # "blocked" /\ UNCHANGED task
  /\ Leave(l, FALSE)
  /\ UNCHANGED <<main, found, todo, deaths, erased>>

-----------------------------------------------------------------------------
(* Everybody else: task commands and commits ask for no lease. *)

Withdraw(t) ==
  /\ task[t].state \in {"accepted", "in_progress", "blocked"}
  /\ task' = [task EXCEPT ![t].state = "withdrawn"]
  /\ UNCHANGED <<job, main, lock, seen, passVars, deaths, erased>>

Block(t) ==
  /\ task[t].state = "in_progress"
  /\ task' = [task EXCEPT ![t].state = "blocked"]
  /\ UNCHANGED <<job, main, lock, seen, passVars, deaths, erased>>

Redrive(t) ==
  /\ task[t].state = "blocked"
  /\ task' = [task EXCEPT ![t] = [@ EXCEPT !.state = "accepted", !.claimed = FALSE]]
  /\ UNCHANGED <<job, main, lock, seen, passVars, deaths, erased>>

MainMoves ==
  /\ \E files \in SUBSET File \ {{}} : job' = Arrive(files, Launch)
  /\ UNCHANGED <<task, main, lock, seen, passVars, deaths, erased>>

-----------------------------------------------------------------------------
MergeStep(l) ==
  \/ Fork(l) \/ Refuse(l) \/ GateGreen(l) \/ GateRed(l)
  \/ Retry(l) \/ Land(l) \/ ReadMerged(l) \/ FinishMerged(l)
  \/ ReadFinish(l) \/ Finish(l) \/ Requeue(l)

PassStep ==
  \/ PassStart \/ Reaped \/ Evaluate \/ PassEnd
  \/ \E t \in Task : Reap(t) \/ Spare(t) \/ Claim(t)
  \/ \E l \in Launch :
       \/ Regate(l) \/ ChecksPass(l) \/ ChecksFail(l)
       \/ Popen(l) \/ LaunchFails(l) \/ Sign(l)

SupervisorStep(l) ==
  \/ Enter(l) \/ Refused(l) \/ SessionEnds(l) \/ LeaveUnfinished(l) \/ Exit(l)

Next ==
  \/ PassStep \/ PassDie
  \/ \E l \in Launch :
       \/ SupervisorStep(l) \/ MergeStep(l) \/ SupervisorDies(l)
       \/ SessionCompletes(l) \/ OrphanEnds(l)
  \/ \E t \in Task : Withdraw(t) \/ Block(t) \/ Redrive(t)
  \/ MainMoves

(* launchd starts a pass every few minutes, a pass ends, and whoever has   *)
(* the pass lease goes on to release it.  A session need not end.          *)
Fairness ==
  /\ WF_vars(PassStep)
  /\ WF_vars(\E l \in Launch : ByPass(l) /\ MergeStep(l))
  /\ WF_vars(\E l \in Launch : lock = l /\ MergeStep(l))

Spec == Init /\ [][Next]_vars /\ Fairness

-----------------------------------------------------------------------------
State == {"accepted", "in_progress", "blocked", "completed", "withdrawn"}

Body == [launch : Launch \cup {None}, held : BOOLEAN, supervising : BOOLEAN]

TaskRecord ==
  [state : State, claimed : BOOLEAN, flock : Launch \cup {None},
   last : Launch \cup {None}, body : Body]

Outcome == {"launch_failed", "stop_gate_unpassed", "session_failed", "green"}

JobRecord ==
  [task : Task \cup {None},
   pc : {"unused", "claimed", "starting", "session", "failing", "checking", "fork",
         "gating", "ready", "landed", "refused", "requeue", "gone"},
   child : BOOLEAN, writes : Writes, leaving : BOOLEAN,
   arrived : SUBSET File, failed : BOOLEAN,
   ungated : SUBSET File, unchecked : SUBSET File,
   attempts : 0 .. MergeAttempts, verdict : Outcome \cup {None}]

TypeOK ==
  /\ task \in [Task -> TaskRecord] /\ job \in [Launch -> JobRecord]
  /\ main \subseteq Launch
  /\ lock \in Launch \cup {Pass, None} /\ seen \in State \cup {None}
  /\ pass \in {"idle", "reap", "regate", "mend", "launch", "claimed", "unlaunched", "sign"}
  /\ found \in [Task -> Body] /\ now \in Launch \cup {None}
  /\ todo \subseteq Launch \cup Task
  /\ deaths \in 0 .. MaxDeaths /\ erased \subseteq Launch

(* No branch lands on files that main changed under it unless a check ran  *)
(* on the two together: the project's gate, or, for kept work, the task's  *)
(* own checks.                                                             *)
GatedOrChecked ==
  [][\A l \in main' \ main : job[l].unchecked \cap job[l].writes = {}]_vars

(* _merge's docstring: "rebase onto main, re-gate if main changed the      *)
(* write set": it is the project's gate that ran.                          *)
GatedAgainstOverlap ==
  [][\A l \in main' \ main : job[l].ungated \cap job[l].writes = {}]_vars

(* dispatch_supervise: at most one supervisor works on a task. *)
AtWork(l) == Supervised(l) /\ job[l].pc # "starting"

OneSupervisor ==
  \A l, m \in Launch :
    (AtWork(l) /\ AtWork(m) /\ job[l].task = job[m].task) => l = m

(* AD-034-R9: a session that outlives its supervisor in a claimed task is  *)
(* one the next pass will terminate, unless its record was written over.   *)
OrphanOnRecord ==
  \A l \in Launch :
    (job[l].child /\ ~Supervised(l) /\ InFlight(job[l].task) /\ l \notin erased)
      => task[job[l].task].body = [launch |-> l, held |-> TRUE, supervising |-> TRUE]

(* Whoever holds the lease goes on from an older reading of the task as    *)
(* not withdrawn: a claim in flight, a kept branch, a row of the queue, the *)
(* state a finish read, the block a redrive found.                         *)
ReadOpen(t) ==
  \/ pass = "reap" /\ found[t].launch # None
  \/ pass \in {"regate", "mend"} /\ \E l \in todo : job[l].task = t
  \/ pass \in {"launch", "claimed", "unlaunched", "sign"} /\ t \in todo
  \/ \E l \in Launch :
       /\ job[l].task = t
       /\ \/ job[l].pc \in {"checking", "requeue"}
          \/ job[l].pc \in {"landed", "failing", "refused"}
             /\ HasRead(l) /\ seen = "in_progress"

(* A withdrawal is overtaken by what was read before it and by nothing     *)
(* else: when nobody goes on from such a reading the task stays withdrawn, *)
(* and nobody comes to one, since each of them reads the task anew under   *)
(* the lease.                                                              *)
WithdrawnStays ==
  [][\A t \in Task :
       (task[t].state = "withdrawn" /\ ~ReadOpen(t)) =>
         (task'[t].state = "withdrawn" /\ ~ReadOpen(t)')]_vars

(* A task is completed by one of its own sessions, or once one of its      *)
(* branches is on main.                                                    *)
DoneIsLanded ==
  [][\A t \in Task :
       (task[t].state # "completed" /\ task'[t].state = "completed") =>
         \E l \in Launch : job[l].task = t /\ (job[l].child \/ l \in main)]_vars

(* A claim on whose task no process works any more. *)
Abandoned(t) ==
  /\ InFlight(t) /\ ~InPlace(t)
  /\ \A l \in Launch : job[l].task = t => ~Supervised(l) /\ now # l

(* ... does not stay: a pass finds it ("holder_gone", "released_unfinished").*)
AbandonedIsFound == \A t \in Task : Abandoned(t) ~> ~Abandoned(t)
=============================================================================
