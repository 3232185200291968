------------------------ MODULE WorktreeDispatchProofs ------------------------
(***************************************************************************)
(* WorktreeDispatch, for any tasks, launches, files, rounds and deaths:    *)
(* the types, that a task has one supervisor, that a session it leaves     *)
(* behind is on record, and what a step never does to main and to a task.  *)
(***************************************************************************)
EXTENDS WorktreeDispatch, TLAPS

USE DEF passVars

LEMMA UnusedType == Unused \in JobRecord
BY DispatchAssumption DEF Unused, JobRecord, Outcome

LEMMA OverType ==
  ASSUME job \in [Launch -> JobRecord], NEW l \in Launch
  PROVE  /\ Over(l) \in JobRecord
         /\ Over(l).pc = "gone" /\ Over(l).task = job[l].task
         /\ Over(l).leaving = job[l].leaving /\ Over(l).child = job[l].child
<1>1. /\ job[l].task \in Task \cup {None}
      /\ job[l].leaving \in BOOLEAN /\ job[l].child \in BOOLEAN
  BY DEF JobRecord
<1>2. Over(l) = [Unused EXCEPT !.task = job[l].task, !.pc = "gone",
                               !.child = job[l].child, !.leaving = job[l].leaving]
  BY DEF Over
<1>3. Over(l) \in JobRecord
  BY UnusedType, <1>1, <1>2 DEF JobRecord
<1>4. Over(l).pc = "gone" /\ Over(l).task = job[l].task
  BY UnusedType, <1>2 DEF JobRecord
<1>5. Over(l).leaving = job[l].leaving /\ Over(l).child = job[l].child
  BY UnusedType, <1>2 DEF JobRecord
<1> QED
  BY <1>3, <1>4, <1>5

(* What arrives on main changes nothing but what a launch has to look at. *)
LEMMA ArriveType ==
  ASSUME job \in [Launch -> JobRecord], NEW files \in SUBSET File, NEW others
  PROVE  Arrive(files, others) \in [Launch -> JobRecord]
<1>1. ASSUME NEW l \in Launch
      PROVE  [job[l] EXCEPT !.arrived = @ \cup files, !.failed = @ /\ files = {},
                            !.ungated = @ \cup files, !.unchecked = @ \cup files] \in JobRecord
  <2>1. job[l] \in JobRecord /\ (job[l].failed /\ files = {}) \in BOOLEAN
    OBVIOUS
  <2>2. /\ job[l].arrived \cup files \in SUBSET File
        /\ job[l].ungated \cup files \in SUBSET File
        /\ job[l].unchecked \cup files \in SUBSET File
    BY <2>1 DEF JobRecord
  <2> QED
    BY <2>1, <2>2 DEF JobRecord
<1> QED
  BY <1>1 DEF Arrive

(* All that a commit on main does to a launch. *)
OnlyArrived(m) ==
  /\ job'[m].pc = job[m].pc /\ job'[m].task = job[m].task
  /\ job'[m].leaving = job[m].leaving /\ job'[m].child = job[m].child
  /\ job'[m].attempts = job[m].attempts /\ job'[m].writes = job[m].writes
  /\ job[m].pc \in {"unused", "claimed", "starting"} => job'[m] = job[m]
  /\ \E files \in SUBSET File : /\ job'[m].arrived = job[m].arrived \cup files
                                /\ job'[m].unchecked = job[m].unchecked \cup files

LEMMA ArriveEffect ==
  ASSUME job \in [Launch -> JobRecord], NEW files \in SUBSET File, NEW others, NEW m \in Launch,
         job'[m] = Arrive(files, others)[m]
  PROVE  OnlyArrived(m)
<1>1. job[m] \in JobRecord /\ (job[m].failed /\ files = {}) \in BOOLEAN
  OBVIOUS
<1>2. CASE m \in others /\ MayLand(m)
  <2>1. job'[m] = [job[m] EXCEPT !.arrived = job[m].arrived \cup files,
                                 !.failed = job[m].failed /\ files = {},
                                 !.ungated = job[m].ungated \cup files,
                                 !.unchecked = job[m].unchecked \cup files]
    BY <1>2 DEF Arrive
  <2> QED
    BY <1>1, <1>2, <2>1 DEF MayLand, JobRecord, OnlyArrived
<1>3. CASE ~(m \in others /\ MayLand(m))
  <2>1. job'[m] = job[m]
    BY <1>3 DEF Arrive
  <2>2. job[m].arrived \cup {} = job[m].arrived /\ job[m].unchecked \cup {} = job[m].unchecked
    BY <1>1 DEF JobRecord
  <2> QED
    BY <2>1, <2>2 DEF OnlyArrived
<1> QED
  BY <1>2, <1>3

LEMMA LeaveType ==
  ASSUME TypeOK, NEW l \in Launch, NEW kept \in BOOLEAN, Leave(l, kept)
  PROVE  /\ job' \in [Launch -> JobRecord] /\ pass' \in {pass, "regate", "launch"}
         /\ now' \in {now, None} /\ lock' \in {lock, None} /\ seen' = None
<1>1. Over(l) \in JobRecord /\ job[l] \in JobRecord
  BY OverType DEF TypeOK
<1>2. (job[l].leaving \/ ~ByPass(l)) \in BOOLEAN
  OBVIOUS
<1> DEFINE left == IF kept THEN [job[l] EXCEPT !.pc = "gone"] ELSE Over(l)
<1>3. left \in JobRecord
  BY <1>1 DEF JobRecord
<1>4. [left EXCEPT !.leaving = job[l].leaving \/ ~ByPass(l)] \in JobRecord
  <2> HIDE DEF left
  <2> QED
    BY <1>2, <1>3 DEF JobRecord
<1>5. job' = [job EXCEPT ![l] = [left EXCEPT !.leaving = job[l].leaving \/ ~ByPass(l)]]
  BY DEF Leave
<1> HIDE DEF left
<1> QED
  BY <1>4, <1>5 DEF Leave, TypeOK

-----------------------------------------------------------------------------
Merging == {"fork", "gating", "ready", "landed", "refused"}

(* Who works on a task has the flock of its lease file; a supervisor on    *)
(* its way out does nothing else; a pass that mends a branch does nothing  *)
(* but merge it; whoever has landed, or has a task to put back on the      *)
(* queue, has still the pass lease.                                        *)
Placed(l) ==
  /\ job[l].pc = "unused" => job[l] = Unused
  /\ job[l].pc # "unused" => job[l].task \in Task
  /\ job[l].leaving => job[l].pc = "gone" \/ ByPass(l)
  /\ ByPass(l) => job[l].pc \in Merging \cup {"checking"}
  /\ job[l].pc = "landed" => l \in main /\ lock = Holder(l)
  /\ job[l].pc = "requeue" => ~ByPass(l) /\ lock = l
  /\ AtWork(l) => task[job[l].task].flock = l

(* A round counts, and a session has counted none. *)
Counted(l) ==
  /\ job[l].pc = "fork" => job[l].attempts < MergeAttempts
  /\ job[l].pc \in {"claimed", "starting", "session"} => job[l].attempts = 0

(* What no check has seen beside the branch, a rebase has still to bring.  *)
Rebased(l) ==
  /\ job[l].pc \in {"claimed", "starting"} => job[l].unchecked = {}
  /\ job[l].pc = "session" => job[l].unchecked \subseteq job[l].arrived
  /\ job[l].pc \in {"fork", "ready"} => job[l].unchecked \cap job[l].writes \subseteq job[l].arrived

(* A pass that is under way has the pass lease, and its launch exists. *)
PassPlaced ==
  /\ pass # "idle" => lock = Pass
  /\ pass \in {"mend", "claimed", "unlaunched", "sign"} => now \in Launch
  /\ pass = "claimed" => job[now].pc = "claimed"
  /\ pass = "unlaunched" => job[now].pc = "refused"
  /\ pass = "sign" => job[now].pc # "unused"
  /\ pass \in {"regate", "mend"} => \A l \in todo : l \in Launch /\ job[l].pc # "unused"
  /\ \A t \in Task : found[t].launch \in Launch => job[found[t].launch].pc # "unused"

(* A body names a launch there has been, and a supervisor's names one. *)
Named(t) ==
  /\ task[t].body.supervising => task[t].body.launch \in Launch
  /\ task[t].body.launch \in Launch => job[task[t].body.launch].pc # "unused"

IInv ==
  /\ TypeOK /\ PassPlaced
  /\ \A l \in Launch : Placed(l) /\ Counted(l) /\ Rebased(l)
  /\ \A t \in Task : Named(t)

-----------------------------------------------------------------------------
LEMMA InitType == Init => TypeOK
<1> SUFFICES ASSUME Init PROVE TypeOK
  OBVIOUS
<1>1. NoBody \in Body
  BY DEF NoBody, Body
<1>2. task \in [Task -> TaskRecord]
  BY <1>1 DEF Init, TaskRecord, State
<1>3. found \in [Task -> Body] /\ job \in [Launch -> JobRecord]
  BY UnusedType, <1>1 DEF Init
<1>4. 0 \in 0 .. MaxDeaths
  BY DispatchAssumption
<1>5. /\ lock = None /\ seen = None /\ pass = "idle" /\ now = None /\ main = {} /\ todo = {}
      /\ deaths = 0 /\ erased = {}
  BY DEF Init
<1> QED
  BY <1>2, <1>3, <1>4, <1>5 DEF TypeOK

LEMMA PassTypes ==
  ASSUME IInv, PassStep
  PROVE  TypeOK'
<1> USE DispatchAssumption
<1> TypeOK
  BY DEF IInv
<1>1. ASSUME PassStart PROVE TypeOK'
  <2>1. found' \in [Task -> Body]
    <3>1. \A t \in Task : task[t].body \in Body
      BY DEF TypeOK, TaskRecord
    <3>2. NoBody \in Body
      BY DEF NoBody, Body
    <3> QED
      BY <1>1, <3>1, <3>2 DEF PassStart
  <2>2. todo' \subseteq Task
    BY <1>1 DEF PassStart
  <2> QED
    BY <1>1, <2>1, <2>2 DEF PassStart, TypeOK
<1>11. ASSUME NEW t \in Task, Reap(t) \/ Spare(t) PROVE TypeOK'
  <2>1. /\ task[t] \in TaskRecord /\ found[t] \in Body /\ found[t].launch \in Launch
        /\ NoBody \in Body
    BY <1>11 DEF Reap, Spare, Stale, TypeOK, Body, NoBody
  <2>2. [task[t] EXCEPT !.state = "blocked", !.last = found[t].launch] \in TaskRecord
    BY <2>1 DEF TaskRecord, State
  <2>3. [Over(found[t].launch) EXCEPT !.child = @ /\ ~found[t].supervising] \in JobRecord
    <3>1. PICK l \in Launch : l = found[t].launch
      BY <2>1
    <3>2. Over(l) \in JobRecord /\ (Over(l).child /\ ~found[t].supervising) \in BOOLEAN
      BY OverType DEF TypeOK
    <3> QED
      BY <3>1, <3>2 DEF JobRecord
  <2>4. CASE Reap(t)
    <3>1. task' \in [Task -> TaskRecord]
      BY <2>2, <2>4 DEF Reap, TypeOK
    <3>2. job' \in [Launch -> JobRecord]
      BY <2>3, <2>4 DEF Reap, TypeOK
    <3>3. found' \in [Task -> Body]
      BY <2>1, <2>4 DEF Reap, TypeOK
    <3> QED
      BY <2>4, <3>1, <3>2, <3>3 DEF Reap, TypeOK
  <2>5. CASE Spare(t)
    BY <2>1, <2>5 DEF Spare, TypeOK
  <2> QED
    BY <1>11, <2>4, <2>5
<1>12. ASSUME Reaped PROVE TypeOK'
  <2>1. pass' \in {"launch", "regate"} /\ todo' \subseteq Launch
    BY <1>12 DEF Reaped
  <2> QED
    BY <1>12, <2>1 DEF Reaped, TypeOK
<1>2. ASSUME Evaluate PROVE TypeOK'
  BY <1>2 DEF Evaluate, TypeOK
<1>3. ASSUME PassEnd PROVE TypeOK'
  BY <1>3 DEF PassEnd, TypeOK
<1>4. ASSUME NEW t \in Task, Claim(t) PROVE TypeOK'
  <2>1. (CHOOSE m \in Fresh : TRUE) \in Launch
    BY <1>4 DEF Claim, Fresh
  <2>2. PICK l \in Launch :
          job' = [job EXCEPT ![l] = [job[l] EXCEPT !.task = t, !.pc = "claimed"]] /\ now' = l
    BY <1>4, <2>1 DEF Claim
  <2>3. job[l] \in JobRecord /\ task[t] \in TaskRecord
    BY DEF TypeOK
  <2>4. [job[l] EXCEPT !.task = t, !.pc = "claimed"] \in JobRecord
    BY <2>3 DEF JobRecord
  <2>5. [task[t] EXCEPT !.state = "in_progress", !.claimed = TRUE] \in TaskRecord
    BY <2>3 DEF TaskRecord, State
  <2> QED
    BY <1>4, <2>2, <2>4, <2>5 DEF Claim, TypeOK
<1>5. ASSUME NEW l \in Launch, Regate(l) PROVE TypeOK'
  <2>1. job' \in [Launch -> JobRecord]
    <3>1. job[l] \in JobRecord
      BY DEF TypeOK
    <3>2. [job[l] EXCEPT !.failed = TRUE] \in JobRecord
      BY <3>1 DEF JobRecord
    <3>3. [job[l] EXCEPT !.arrived = {}, !.pc = "checking"] \in JobRecord
      BY <3>1 DEF JobRecord
    <3> QED
      BY <1>5, <3>1, <3>2, <3>3 DEF Regate, TypeOK
  <2> QED
    BY <1>5, <2>1 DEF Regate, TypeOK
<1>6. ASSUME NEW l \in Launch, ChecksPass(l) PROVE TypeOK'
  <2>1. job' \in [Launch -> JobRecord]
    <3>1. job[l] \in JobRecord
      BY DEF TypeOK
    <3>2. [job[l] EXCEPT !.unchecked = job[l].arrived, !.attempts = 0, !.pc = "fork"] \in JobRecord
      <4>1. job[l].arrived \in SUBSET File /\ 0 \in 0 .. MergeAttempts
        BY <3>1 DEF JobRecord
      <4> QED
        BY <3>1, <4>1 DEF JobRecord
    <3> QED
      BY <1>6, <3>1, <3>2 DEF ChecksPass, TypeOK
  <2>2. task' \in [Task -> TaskRecord]
    <3>1. ASSUME job[l].task \in Task PROVE task[job[l].task] \in TaskRecord
      BY <3>1 DEF TypeOK
    <3>2. ASSUME job[l].task \in Task PROVE [task[job[l].task] EXCEPT !.state = "in_progress"] \in TaskRecord
      BY <3>1, <3>2 DEF TaskRecord, State
    <3> QED
      BY <1>6, <3>1, <3>2 DEF ChecksPass, TypeOK
  <2> QED
    BY <1>6, <2>1, <2>2 DEF ChecksPass, TypeOK
<1>7. ASSUME NEW l \in Launch, ChecksFail(l) PROVE TypeOK'
  <2>1. job' \in [Launch -> JobRecord]
    <3>1. job[l] \in JobRecord
      BY DEF TypeOK
    <3>2. [job[l] EXCEPT !.failed = job[l].arrived = {}, !.pc = "gone"] \in JobRecord
      BY <3>1 DEF JobRecord
    <3> QED
      BY <1>7, <3>1, <3>2 DEF ChecksFail, TypeOK
  <2> QED
    BY <1>7, <2>1 DEF ChecksFail, TypeOK
<1>8. ASSUME NEW l \in Launch, Popen(l) PROVE TypeOK'
  <2>1. job' \in [Launch -> JobRecord]
    <3>1. job[l] \in JobRecord
      BY DEF TypeOK
    <3>2. [job[l] EXCEPT !.pc = "starting"] \in JobRecord
      BY <3>1 DEF JobRecord
    <3> QED
      BY <1>8, <3>1, <3>2 DEF Popen, TypeOK
  <2> QED
    BY <1>8, <2>1 DEF Popen, TypeOK
<1>9. ASSUME NEW l \in Launch, LaunchFails(l) PROVE TypeOK'
  <2>1. job[l] \in JobRecord
    BY DEF TypeOK
  <2>2. [job[l] EXCEPT !.pc = "refused"] \in JobRecord
    BY <2>1 DEF JobRecord
  <2> QED
    BY <1>9, <2>2 DEF LaunchFails, TypeOK
<1>10. ASSUME NEW l \in Launch, Sign(l) PROVE TypeOK'
  <2>1. task' \in [Task -> TaskRecord]
    <3>1. ASSUME job[l].task \in Task PROVE task[job[l].task] \in TaskRecord
      BY <3>1 DEF TypeOK
    <3>2. ASSUME job[l].task \in Task PROVE [task[job[l].task] EXCEPT !.body = [launch |-> l, held |-> TRUE, supervising |-> FALSE]] \in TaskRecord
      BY <3>1, <3>2 DEF TaskRecord, Body
    <3> QED
      BY <1>10, <3>1, <3>2 DEF Sign, TypeOK
  <2>2. erased' \subseteq Launch
    <3>1. job[l].task \in Task
      BY <1>10 DEF Sign, IInv, PassPlaced, Placed
    <3> QED
      BY <1>10, <3>1 DEF Sign, WriteOver, TypeOK, IInv, Named
  <2> QED
    BY <1>10, <2>1, <2>2 DEF Sign, TypeOK
<1> QED
  BY <1>1, <1>2, <1>3, <1>4, <1>5, <1>6, <1>7, <1>8, <1>9, <1>10,
     <1>11, <1>12 DEF PassStep

LEMMA SupervisorTypes ==
  ASSUME IInv, NEW l \in Launch, SupervisorStep(l)
  PROVE  TypeOK'
<1> USE DispatchAssumption
<1> TypeOK
  BY DEF IInv
<1>0. job[l] \in JobRecord
  BY DEF TypeOK
<1>1. ASSUME Enter(l) PROVE TypeOK'
  <2>1. job[l].task \in Task /\ task[job[l].task] \in TaskRecord
    BY <1>1 DEF Enter, EnterAs, Starting, IInv, Placed, TypeOK
  <2>2. [job[l] EXCEPT !.pc = "session", !.child = TRUE] \in JobRecord
    BY <1>0 DEF JobRecord
  <2>3. [task[job[l].task] EXCEPT !.flock = l,
         !.body = [launch |-> l, held |-> TRUE, supervising |-> TRUE]] \in TaskRecord
    BY <2>1 DEF TaskRecord, Body
  <2>4. erased' \subseteq Launch
    BY <1>1, <2>1 DEF Enter, EnterAs, Starting, WriteOver, TypeOK, IInv, Named
  <2> QED
    BY <1>1, <2>1, <2>2, <2>3, <2>4 DEF Enter, EnterAs, Starting, TypeOK
<1>2. ASSUME Refused(l) PROVE TypeOK'
  <2>1. [job[l] EXCEPT !.pc = "gone"] \in JobRecord
    BY <1>0 DEF JobRecord
  <2> QED
    BY <1>2, <2>1 DEF Refused, TypeOK
<1>3. ASSUME SessionEnds(l) PROVE TypeOK'
  <2>1. PICK w \in Writes, o \in Outcome :
          job' = [job EXCEPT ![l] = [job[l] EXCEPT !.child = FALSE, !.writes = w, !.verdict = o,
                                       !.pc = IF o = "green" THEN "fork" ELSE "failing"]]
    BY <1>3 DEF SessionEnds, Outcome
  <2>2. [job[l] EXCEPT !.child = FALSE, !.writes = w, !.verdict = o,
                       !.pc = IF o = "green" THEN "fork" ELSE "failing"] \in JobRecord
    BY <1>0 DEF JobRecord
  <2> QED
    BY <1>3, <2>1, <2>2 DEF SessionEnds, TypeOK
<1>4. ASSUME LeaveUnfinished(l) PROVE TypeOK'
  <2>1. Over(l) \in JobRecord
    BY OverType DEF TypeOK
  <2>2. [Over(l) EXCEPT !.leaving = TRUE] \in JobRecord
    BY <2>1 DEF JobRecord
  <2> QED
    BY <1>4, <2>2 DEF LeaveUnfinished, TypeOK
<1>5. ASSUME Exit(l) PROVE TypeOK'
  <2>1. job[l].pc # "unused"
    BY <1>5 DEF Exit, IInv, Placed, Unused
  <2>2. job[l].task \in Task /\ task[job[l].task] \in TaskRecord
    BY <2>1 DEF IInv, Placed, TypeOK
  <2>3. [job[l] EXCEPT !.leaving = FALSE] \in JobRecord
    BY <1>0 DEF JobRecord
  <2>4. [task[job[l].task] EXCEPT !.flock = None,
         !.body = [launch |-> l, held |-> FALSE, supervising |-> FALSE]] \in TaskRecord
    BY <2>2 DEF TaskRecord, Body
  <2> QED
    BY <1>5, <2>3, <2>4 DEF Exit, TypeOK
<1> QED
  BY <1>1, <1>2, <1>3, <1>4, <1>5 DEF SupervisorStep

LEMMA MergeTypes ==
  ASSUME IInv, NEW l \in Launch, MergeStep(l)
  PROVE  TypeOK'
<1> USE DispatchAssumption
<1> TypeOK
  BY DEF IInv
<1>0. job[l] \in JobRecord
  BY DEF TypeOK
<1>1. ASSUME Fork(l) PROVE TypeOK'
  <2>1. job[l].attempts \in 0 .. MergeAttempts /\ job[l].attempts < MergeAttempts
    BY <1>0, <1>1 DEF Fork, IInv, Counted, JobRecord
  <2>2. job[l].attempts + 1 \in 0 .. MergeAttempts
    BY <2>1
  <2>3. [job[l] EXCEPT !.pc = "refused"] \in JobRecord
    BY <1>0 DEF JobRecord
  <2>4. [job[l] EXCEPT !.arrived = {}, !.attempts = job[l].attempts + 1,
                       !.pc = IF Overlap(l) # {} THEN "gating" ELSE "ready"] \in JobRecord
    BY <1>0, <2>2 DEF JobRecord
  <2> QED
    BY <1>1, <2>3, <2>4 DEF Fork, TypeOK
<1>2. ASSUME Refuse(l) PROVE TypeOK'
  <2>1. [job[l] EXCEPT !.pc = "refused"] \in JobRecord
    BY <1>0 DEF JobRecord
  <2> QED
    BY <1>2, <2>1 DEF Refuse, TypeOK
<1>3. ASSUME GateGreen(l) PROVE TypeOK'
  <2>1. job[l].arrived \in SUBSET File
    BY <1>0 DEF JobRecord
  <2>2. [job[l] EXCEPT !.ungated = job[l].arrived,
                       !.unchecked = job[l].arrived, !.pc = "ready"] \in JobRecord
    BY <1>0, <2>1 DEF JobRecord
  <2> QED
    BY <1>3, <2>2 DEF GateGreen, TypeOK
<1>4. ASSUME GateRed(l) PROVE TypeOK'
  <2>1. [job[l] EXCEPT !.pc = "refused"] \in JobRecord
    BY <1>0 DEF JobRecord
  <2> QED
    BY <1>4, <2>1 DEF GateRed, TypeOK
<1>5. ASSUME Retry(l) PROVE TypeOK'
  <2>1. [job[l] EXCEPT !.pc = IF job[l].attempts = MergeAttempts THEN "refused" ELSE "fork"] \in JobRecord
    BY <1>0 DEF JobRecord
  <2> QED
    BY <1>5, <2>1 DEF Retry, AnotherRound, TypeOK
<1>6. ASSUME Land(l) PROVE TypeOK'
  <2>1. job[l].writes \in SUBSET File
    BY <1>0 DEF JobRecord
  <2>2. Arrive(job[l].writes, Launch \ {l}) \in [Launch -> JobRecord]
    BY <2>1, ArriveType DEF TypeOK
  <2>3. ASSUME NEW r \in JobRecord PROVE [r EXCEPT !.pc = "landed"] \in JobRecord
    BY DEF JobRecord
  <2>4. job' \in [Launch -> JobRecord]
    BY <1>6, <2>2, <2>3 DEF Land, FastForward
  <2> QED
    BY <1>6, <2>4 DEF Land, FastForward, TypeOK
<1>7. ASSUME FinishMerged(l) PROVE TypeOK'
  <2>1. job[l].task \in Task /\ task[job[l].task] \in TaskRecord
    BY <1>7 DEF FinishMerged, IInv, Placed, TypeOK
  <2>2. Leave(l, FALSE)
    BY <1>7 DEF FinishMerged
  <2>3. /\ job' \in [Launch -> JobRecord] /\ pass' \in {pass, "regate", "launch"}
        /\ now' \in {now, None} /\ lock' \in {lock, None} /\ seen' = None
    BY <2>2, LeaveType
  <2>4. ASSUME NEW after \in State
        PROVE  [task[job[l].task] EXCEPT !.last = l, !.state = after] \in TaskRecord
    BY <2>1, <2>4 DEF TaskRecord
  <2>5. \A after \in {"completed", "blocked"} :
          (IF seen = "in_progress" THEN after ELSE task[job[l].task].state) \in State
    BY <2>1 DEF TaskRecord, State
  <2>6. task' \in [Task -> TaskRecord]
    <3>1. PICK after \in {"completed", "blocked"} :
            task' = [task EXCEPT ![job[l].task] = [task[job[l].task] EXCEPT !.last = l,
                       !.state = IF seen = "in_progress" THEN after ELSE task[job[l].task].state]]
      BY <1>7 DEF FinishMerged
    <3> QED
      BY <2>4, <2>5, <3>1 DEF TypeOK
  <2> QED
    BY <1>7, <2>3, <2>6 DEF FinishMerged, TypeOK
<1>8. ASSUME Finish(l) PROVE TypeOK'
  <2>1. job[l].task \in Task /\ task[job[l].task] \in TaskRecord
    BY <1>8 DEF Finish, FinishAs, IInv, Placed, TypeOK
  <2>2. /\ job' \in [Launch -> JobRecord] /\ pass' \in {pass, "regate", "launch"}
        /\ now' \in {now, None} /\ lock' \in {lock, None} /\ seen' \in {seen, None}
    <3>1. CASE job' = [job EXCEPT ![l].pc = "requeue"] /\ UNCHANGED <<lock, seen, pass, now>>
      <4>1. [job[l] EXCEPT !.pc = "requeue"] \in JobRecord
        BY <1>0 DEF JobRecord
      <4> QED
        BY <3>1, <4>1 DEF TypeOK
    <3>2. CASE \E kept \in BOOLEAN : Leave(l, kept)
      BY <3>2, LeaveType
    <3> QED
      BY <1>8, <3>1, <3>2 DEF Finish, FinishAs
  <2>3. BlockedFrom(seen, job[l].task) \in State
    BY <2>1 DEF BlockedFrom, TaskRecord, State
  <2>4. [task[job[l].task] EXCEPT !.state = BlockedFrom(seen, job[l].task)] \in TaskRecord
    BY <2>1, <2>3 DEF TaskRecord
  <2>5. task' \in [Task -> TaskRecord]
    BY <1>8, <2>4 DEF Finish, FinishAs, TypeOK
  <2> QED
    BY <1>8, <2>2, <2>5 DEF Finish, FinishAs, TypeOK
<1>9. ASSUME ReadMerged(l) PROVE TypeOK'
  <2>1. task[job[l].task].state \in State
    BY <1>9 DEF ReadMerged, IInv, Placed, TypeOK, TaskRecord
  <2> QED
    BY <1>9, <2>1 DEF ReadMerged, TypeOK
<1>10. ASSUME ReadFinish(l) PROVE TypeOK'
  <2>1. job[l].task \in Task /\ task[job[l].task] \in TaskRecord
    BY <1>10 DEF ReadFinish, IInv, Placed, TypeOK
  <2>2. task[job[l].task].state \in State /\ [task[job[l].task] EXCEPT !.last = l] \in TaskRecord
    BY <2>1 DEF TaskRecord
  <2>3. task' \in [Task -> TaskRecord]
    BY <1>10, <2>2 DEF ReadFinish, TypeOK
  <2> QED
    BY <1>10, <2>2, <2>3 DEF ReadFinish, Holder, TypeOK
<1>11. ASSUME Requeue(l) PROVE TypeOK'
  <2>1. job[l].task \in Task /\ task[job[l].task] \in TaskRecord
    BY <1>11 DEF Requeue, IInv, Placed, TypeOK
  <2>2. /\ job' \in [Launch -> JobRecord] /\ pass' \in {pass, "regate", "launch"}
        /\ now' \in {now, None} /\ lock' \in {lock, None} /\ seen' = None
    BY <1>11, LeaveType DEF Requeue
  <2>3. [task[job[l].task] EXCEPT !.state = "accepted", !.claimed = FALSE] \in TaskRecord
    BY <2>1 DEF TaskRecord, State
  <2>4. task' \in [Task -> TaskRecord]
    BY <1>11, <2>3 DEF Requeue, TypeOK
  <2> QED
    BY <1>11, <2>2, <2>4 DEF Requeue, TypeOK
<1> QED
  BY <1>1, <1>2, <1>3, <1>4, <1>5, <1>6, <1>7, <1>8, <1>9, <1>10, <1>11 DEF MergeStep

LEMMA OtherTypes ==
  ASSUME IInv,
         \/ PassDie \/ MainMoves
         \/ \E l \in Launch : SupervisorDies(l) \/ SessionCompletes(l) \/ OrphanEnds(l)
         \/ \E t \in Task : Withdraw(t) \/ Block(t) \/ Redrive(t)
  PROVE  TypeOK'
<1> USE DispatchAssumption
<1> TypeOK
  BY DEF IInv
<1>1. ASSUME PassDie PROVE TypeOK'
  <2>1. ASSUME NEW l \in Launch PROVE [job[l] EXCEPT !.pc = "gone"] \in JobRecord
    <3>1. job[l] \in JobRecord
      BY DEF TypeOK
    <3> QED
      BY <3>1 DEF JobRecord
  <2>2. job' \in [Launch -> JobRecord]
    <3>1. CASE pass \in {"claimed", "mend", "unlaunched"}
      <4>1. now \in Launch
        BY <3>1 DEF IInv, PassPlaced
      <4> QED
        BY <1>1, <2>1, <3>1, <4>1 DEF PassDie, TypeOK
    <3>2. CASE pass \notin {"claimed", "mend", "unlaunched"}
      BY <1>1, <3>2 DEF PassDie, TypeOK
    <3> QED
      BY <3>1, <3>2
  <2> QED
    BY <1>1, <2>2 DEF PassDie, TypeOK, NoBody, Body
<1>2. ASSUME MainMoves PROVE TypeOK'
  <2>1. PICK files \in SUBSET File : job' = Arrive(files, Launch)
    BY <1>2 DEF MainMoves
  <2>2. job' \in [Launch -> JobRecord]
    BY <2>1, ArriveType DEF TypeOK
  <2> QED
    BY <1>2, <2>2 DEF MainMoves, TypeOK
<1>3. ASSUME NEW l \in Launch, SupervisorDies(l) PROVE TypeOK'
  <2>1. Over(l) \in JobRecord /\ job[l] \in JobRecord
    BY OverType DEF TypeOK
  <2>2. [IF job[l].leaving THEN job[l] ELSE Over(l) EXCEPT !.leaving = FALSE] \in JobRecord
    <3>1. ASSUME NEW r \in JobRecord PROVE [r EXCEPT !.leaving = FALSE] \in JobRecord
      BY DEF JobRecord
    <3> QED
      BY <2>1, <3>1
  <2>3. task' \in [Task -> TaskRecord]
    <3>1. ASSUME NEW t \in Task
          PROVE  [task[t] EXCEPT !.flock = IF task[t].flock = l THEN None ELSE task[t].flock] \in TaskRecord
      <4>1. task[t] \in TaskRecord
        BY DEF TypeOK
      <4> QED
        BY <4>1 DEF TaskRecord, State
    <3> QED
      BY <1>3, <3>1 DEF SupervisorDies, TypeOK
  <2> QED
    BY <1>3, <2>2, <2>3 DEF SupervisorDies, TypeOK
<1>4. ASSUME NEW l \in Launch, SessionCompletes(l) PROVE TypeOK'
  <2>1. ASSUME NEW t \in Task PROVE [task[t] EXCEPT !.state = "completed"] \in TaskRecord
    <3>1. task[t] \in TaskRecord
      BY DEF TypeOK
    <3> QED
      BY <3>1 DEF TaskRecord, State
  <2> QED
    BY <1>4, <2>1 DEF SessionCompletes, TypeOK
<1>5. ASSUME NEW l \in Launch, OrphanEnds(l) PROVE TypeOK'
  <2>1. job[l] \in JobRecord
    BY DEF TypeOK
  <2>2. [job[l] EXCEPT !.child = FALSE] \in JobRecord
    BY <2>1 DEF JobRecord
  <2> QED
    BY <1>5, <2>2 DEF OrphanEnds, TypeOK
<1>6. ASSUME NEW t \in Task, Withdraw(t) \/ Block(t) \/ Redrive(t) PROVE TypeOK'
  <2>1. task[t] \in TaskRecord
    BY DEF TypeOK
  <2>2. /\ [task[t] EXCEPT !.state = "withdrawn"] \in TaskRecord
        /\ [task[t] EXCEPT !.state = "blocked"] \in TaskRecord
        /\ [task[t] EXCEPT !.state = "accepted", !.claimed = FALSE] \in TaskRecord
    BY <2>1 DEF TaskRecord, State
  <2>3. task' \in [Task -> TaskRecord]
    <3>1. CASE Withdraw(t)
      BY <3>1, <2>2 DEF Withdraw, TypeOK
    <3>2. CASE Block(t)
      BY <3>2, <2>2 DEF Block, TypeOK
    <3>3. CASE Redrive(t)
      BY <3>3, <2>2 DEF Redrive, TypeOK
    <3> QED
      BY <1>6, <3>1, <3>2, <3>3
  <2>4. UNCHANGED <<job, main, lock, seen, passVars, deaths, erased>>
    BY <1>6 DEF Withdraw, Block, Redrive
  <2> QED
    BY <2>3, <2>4 DEF TypeOK
<1> QED
  BY <1>1, <1>2, <1>3, <1>4, <1>5, <1>6

LEMMA NextType == ASSUME IInv, [Next]_vars PROVE TypeOK'
<1>1. CASE UNCHANGED vars
  BY <1>1 DEF vars, IInv, TypeOK
<1>2. CASE Next
  BY <1>2, PassTypes, SupervisorTypes, MergeTypes, OtherTypes DEF Next
<1> QED
  BY <1>1, <1>2

-----------------------------------------------------------------------------
LEMMA MergeKeeps1 ==
  ASSUME IInv, TypeOK', NEW l \in Launch, Refuse(l) \/ GateGreen(l) \/ GateRed(l) \/ Retry(l)
  PROVE  IInv'
<1> USE DispatchAssumption
<1>0. /\ TypeOK /\ job[l] \in JobRecord
      /\ job[l].attempts \in 0 .. MergeAttempts
  BY DEF IInv, TypeOK, JobRecord
<1>1. ASSUME Refuse(l) PROVE IInv'
  <2>1. /\ job'[l].pc = "refused"
        /\ job'[l].task = job[l].task /\ job'[l].leaving = job[l].leaving
    BY <1>1, <1>0 DEF Refuse, TypeOK, JobRecord
  <2>2. \A m \in Launch \ {l} : job'[m] = job[m]
    BY <1>1 DEF Refuse, TypeOK
  <2>3. PassPlaced'
    BY <1>1, <2>1, <2>2 DEF Refuse, IInv, PassPlaced, Placed, ByPass
  <2>4. ASSUME NEW m \in Launch PROVE Placed(m)'
    BY <1>1, <1>0, <2>1, <2>2 DEF Refuse, IInv, PassPlaced, Placed, ByPass, Holder, AtWork, Supervised, Merging, TypeOK
  <2>5. ASSUME NEW m \in Launch PROVE Counted(m)' /\ Rebased(m)'
    BY <1>1, <1>0, <2>1, <2>2 DEF Refuse, IInv, PassPlaced, Placed, Counted, Rebased, Unused
  <2>6. ASSUME NEW t \in Task PROVE Named(t)'
    BY <1>1, <1>0, <2>1, <2>2 DEF Refuse, IInv, Placed, Named, TypeOK
  <2> QED
    BY <1>1, <2>3, <2>4, <2>5, <2>6 DEF IInv
<1>2. ASSUME GateGreen(l) PROVE IInv'
  <2>1. /\ job'[l].pc = "ready"
        /\ job'[l].task = job[l].task /\ job'[l].leaving = job[l].leaving
        /\ job'[l].unchecked = job[l].arrived
        /\ job'[l].arrived = job[l].arrived
        /\ job'[l].writes = job[l].writes
    BY <1>2, <1>0 DEF GateGreen, TypeOK, JobRecord
  <2>2. \A m \in Launch \ {l} : job'[m] = job[m]
    BY <1>2 DEF GateGreen, TypeOK
  <2>3. PassPlaced'
    BY <1>2, <2>1, <2>2 DEF GateGreen, IInv, PassPlaced, Placed, ByPass
  <2>4. ASSUME NEW m \in Launch PROVE Placed(m)'
    BY <1>2, <1>0, <2>1, <2>2 DEF GateGreen, IInv, PassPlaced, Placed, ByPass, Holder, AtWork, Supervised, Merging, TypeOK
  <2>5. ASSUME NEW m \in Launch PROVE Counted(m)' /\ Rebased(m)'
    BY <1>2, <1>0, <2>1, <2>2 DEF GateGreen, IInv, PassPlaced, Placed, Counted, Rebased, Unused
  <2>6. ASSUME NEW t \in Task PROVE Named(t)'
    BY <1>2, <1>0, <2>1, <2>2 DEF GateGreen, IInv, Placed, Named, TypeOK
  <2> QED
    BY <1>2, <2>3, <2>4, <2>5, <2>6 DEF IInv
<1>3. ASSUME GateRed(l) PROVE IInv'
  <2>1. /\ job'[l].pc = "refused"
        /\ job'[l].task = job[l].task /\ job'[l].leaving = job[l].leaving
    BY <1>3, <1>0 DEF GateRed, TypeOK, JobRecord
  <2>2. \A m \in Launch \ {l} : job'[m] = job[m]
    BY <1>3 DEF GateRed, TypeOK
  <2>3. PassPlaced'
    BY <1>3, <2>1, <2>2 DEF GateRed, IInv, PassPlaced, Placed, ByPass
  <2>4. ASSUME NEW m \in Launch PROVE Placed(m)'
    BY <1>3, <1>0, <2>1, <2>2 DEF GateRed, IInv, PassPlaced, Placed, ByPass, Holder, AtWork, Supervised, Merging, TypeOK
  <2>5. ASSUME NEW m \in Launch PROVE Counted(m)' /\ Rebased(m)'
    BY <1>3, <1>0, <2>1, <2>2 DEF GateRed, IInv, PassPlaced, Placed, Counted, Rebased, Unused
  <2>6. ASSUME NEW t \in Task PROVE Named(t)'
    BY <1>3, <1>0, <2>1, <2>2 DEF GateRed, IInv, Placed, Named, TypeOK
  <2> QED
    BY <1>3, <2>3, <2>4, <2>5, <2>6 DEF IInv
<1>4. ASSUME Retry(l) PROVE IInv'
  <2>1. /\ job'[l].pc = IF job[l].attempts = MergeAttempts THEN "refused" ELSE "fork"
        /\ job'[l].task = job[l].task /\ job'[l].leaving = job[l].leaving
        /\ job'[l].unchecked = job[l].unchecked
        /\ job'[l].arrived = job[l].arrived
        /\ job'[l].writes = job[l].writes
        /\ job'[l].attempts = job[l].attempts
    BY <1>4, <1>0 DEF Retry, AnotherRound, TypeOK, JobRecord
  <2>2. \A m \in Launch \ {l} : job'[m] = job[m]
    BY <1>4 DEF Retry, AnotherRound, TypeOK
  <2>3. PassPlaced'
    BY <1>4, <2>1, <2>2 DEF Retry, AnotherRound, IInv, PassPlaced, Placed, ByPass
  <2>4. ASSUME NEW m \in Launch PROVE Placed(m)'
    BY <1>4, <1>0, <2>1, <2>2 DEF Retry, AnotherRound, IInv, PassPlaced, Placed, ByPass, Holder, AtWork, Supervised, Merging, TypeOK
  <2>5. ASSUME NEW m \in Launch PROVE Counted(m)' /\ Rebased(m)'
    BY <1>4, <1>0, <2>1, <2>2 DEF Retry, AnotherRound, IInv, PassPlaced, Placed, Counted, Rebased, Unused
  <2>6. ASSUME NEW t \in Task PROVE Named(t)'
    BY <1>4, <1>0, <2>1, <2>2 DEF Retry, AnotherRound, IInv, Placed, Named, TypeOK
  <2> QED
    BY <1>4, <2>3, <2>4, <2>5, <2>6 DEF IInv
<1> QED
  BY <1>1, <1>2, <1>3, <1>4

LEMMA PassKeeps1 ==
  ASSUME IInv, TypeOK', NEW l \in Launch, Regate(l) \/ ChecksPass(l) \/ ChecksFail(l) \/ Popen(l)
  PROVE  IInv'
<1> USE DispatchAssumption
<1>0. /\ TypeOK /\ job[l] \in JobRecord
      /\ job[l].attempts \in 0 .. MergeAttempts
  BY DEF IInv, TypeOK, JobRecord
<1>1. ASSUME Regate(l) PROVE IInv'
  <2>1. /\ job'[l].pc \in {job[l].pc, "checking"}
        /\ job'[l].task = job[l].task /\ job'[l].leaving = job[l].leaving
        /\ job'[l].unchecked = job[l].unchecked
        /\ job'[l].writes = job[l].writes
        /\ job'[l].attempts = job[l].attempts
        /\ job'[l].pc # "checking" => job'[l].arrived = job[l].arrived
    <3>1. CASE job' = job
      BY <1>0, <3>1
    <3>2. CASE job' = [job EXCEPT ![l].failed = TRUE]
      BY <1>0, <3>2 DEF JobRecord, TypeOK
    <3>3. CASE job' = [job EXCEPT ![l] = [job[l] EXCEPT !.arrived = {}, !.pc = "checking"]]
      BY <1>0, <3>3 DEF JobRecord, TypeOK
    <3> QED
      BY <1>1, <3>1, <3>2, <3>3 DEF Regate
  <2>2. \A m \in Launch \ {l} : job'[m] = job[m]
    BY <1>1 DEF Regate, TypeOK
  <2>3. PassPlaced'
    BY <1>1, <2>1, <2>2 DEF Regate, IInv, PassPlaced, Placed, ByPass
  <2>4. ASSUME NEW m \in Launch PROVE Placed(m)'
    <3>1. /\ pass = "regate" /\ job[l].pc # "unused" /\ Placed(m) /\ Placed(l)
          /\ UNCHANGED <<task, main, lock>>
      BY <1>1 DEF Regate, IInv, PassPlaced
    <3>2. \/ pass' = "regate" /\ job'[l].pc = job[l].pc
          \/ pass' = "mend" /\ now' = l /\ job'[l].pc = "checking"
      <4>1. CASE pass' = pass /\ job' = job
        BY <3>1, <4>1
      <4>2. CASE pass' = pass /\ job' = [job EXCEPT ![l].failed = TRUE]
        BY <1>0, <3>1, <4>2 DEF TypeOK, JobRecord
      <4>3. CASE /\ job' = [job EXCEPT ![l] = [job[l] EXCEPT !.arrived = {}, !.pc = "checking"]]
                 /\ pass' = "mend" /\ now' = l
        BY <1>0, <4>3 DEF TypeOK, JobRecord
      <4> QED
        BY <1>1, <4>1, <4>2, <4>3 DEF Regate
    <3>3. CASE m # l
      BY <2>2, <3>1, <3>2, <3>3 DEF Placed, ByPass, Holder, AtWork, Supervised
    <3>4. CASE m = l /\ pass' = "regate"
      BY <2>1, <3>1, <3>2, <3>4 DEF Placed, ByPass, Holder, AtWork, Supervised
    <3>5. CASE m = l /\ pass' = "mend"
      BY <2>1, <3>1, <3>2, <3>5 DEF Placed, ByPass, Holder, AtWork, Supervised
    <3> QED
      BY <3>2, <3>3, <3>4, <3>5
  <2>5. ASSUME NEW m \in Launch PROVE Counted(m)' /\ Rebased(m)'
    BY <1>1, <1>0, <2>1, <2>2 DEF Regate, IInv, PassPlaced, Placed, Counted, Rebased, Unused
  <2>6. ASSUME NEW t \in Task PROVE Named(t)'
    BY <1>1, <1>0, <2>1, <2>2 DEF Regate, IInv, Placed, Named, TypeOK
  <2> QED
    BY <1>1, <2>3, <2>4, <2>5, <2>6 DEF IInv
<1>2. ASSUME ChecksPass(l) PROVE IInv'
  <2>1. /\ job'[l].pc = "fork"
        /\ job'[l].task = job[l].task /\ job'[l].leaving = job[l].leaving
        /\ job'[l].unchecked = job[l].arrived
        /\ job'[l].arrived = job[l].arrived
        /\ job'[l].writes = job[l].writes
        /\ job'[l].attempts = 0
    BY <1>2, <1>0 DEF ChecksPass, TypeOK, JobRecord
  <2>2. \A m \in Launch \ {l} : job'[m] = job[m]
    BY <1>2 DEF ChecksPass, TypeOK
  <2>3. PassPlaced'
    BY <1>2, <2>1, <2>2 DEF ChecksPass, IInv, PassPlaced, Placed, ByPass
  <2>4. ASSUME NEW m \in Launch PROVE Placed(m)'
    BY <1>2, <1>0, <2>1, <2>2 DEF ChecksPass, IInv, PassPlaced, Placed, ByPass, Holder, AtWork, Supervised, Merging, TypeOK
  <2>5. ASSUME NEW m \in Launch PROVE Counted(m)' /\ Rebased(m)'
    BY <1>2, <1>0, <2>1, <2>2 DEF ChecksPass, IInv, PassPlaced, Placed, Counted, Rebased, Unused
  <2>6. ASSUME NEW t \in Task PROVE Named(t)'
    BY <1>2, <1>0, <2>1, <2>2 DEF ChecksPass, IInv, Placed, Named, TypeOK
  <2> QED
    BY <1>2, <2>3, <2>4, <2>5, <2>6 DEF IInv
<1>3. ASSUME ChecksFail(l) PROVE IInv'
  <2>1. /\ job'[l].pc = "gone"
        /\ job'[l].task = job[l].task /\ job'[l].leaving = job[l].leaving
    <3>1. (job[l].arrived = {}) \in BOOLEAN
      OBVIOUS
    <3> DEFINE b == job[l].arrived = {}
    <3>2. job' = [job EXCEPT ![l] = [job[l] EXCEPT !.failed = b, !.pc = "gone"]]
      BY <1>3 DEF ChecksFail
    <3> HIDE DEF b
    <3> QED
      BY <1>0, <3>2 DEF TypeOK, JobRecord
  <2>2. \A m \in Launch \ {l} : job'[m] = job[m]
    BY <1>3 DEF ChecksFail, TypeOK
  <2>3. PassPlaced'
    BY <1>3, <2>1, <2>2 DEF ChecksFail, IInv, PassPlaced, Placed, ByPass
  <2>4. ASSUME NEW m \in Launch PROVE Placed(m)'
    BY <1>3, <1>0, <2>1, <2>2 DEF ChecksFail, IInv, PassPlaced, Placed, ByPass, Holder, AtWork, Supervised, Merging, TypeOK
  <2>5. ASSUME NEW m \in Launch PROVE Counted(m)' /\ Rebased(m)'
    BY <1>3, <1>0, <2>1, <2>2 DEF ChecksFail, IInv, PassPlaced, Placed, Counted, Rebased, Unused
  <2>6. ASSUME NEW t \in Task PROVE Named(t)'
    BY <1>3, <1>0, <2>1, <2>2 DEF ChecksFail, IInv, Placed, Named, TypeOK
  <2> QED
    BY <1>3, <2>3, <2>4, <2>5, <2>6 DEF IInv
<1>4. ASSUME Popen(l) PROVE IInv'
  <2>1. /\ job'[l].pc = "starting"
        /\ job'[l].task = job[l].task /\ job'[l].leaving = job[l].leaving
        /\ job'[l].unchecked = job[l].unchecked
        /\ job'[l].arrived = job[l].arrived
        /\ job'[l].writes = job[l].writes
        /\ job'[l].attempts = job[l].attempts
    BY <1>4, <1>0 DEF Popen, TypeOK, JobRecord
  <2>2. \A m \in Launch \ {l} : job'[m] = job[m]
    BY <1>4 DEF Popen, TypeOK
  <2>3. PassPlaced'
    BY <1>4, <2>1, <2>2 DEF Popen, IInv, PassPlaced, Placed, ByPass
  <2>4. ASSUME NEW m \in Launch PROVE Placed(m)'
    BY <1>4, <1>0, <2>1, <2>2 DEF Popen, IInv, PassPlaced, Placed, ByPass, Holder, AtWork, Supervised, Merging, TypeOK
  <2>5. ASSUME NEW m \in Launch PROVE Counted(m)' /\ Rebased(m)'
    BY <1>4, <1>0, <2>1, <2>2 DEF Popen, IInv, PassPlaced, Placed, Counted, Rebased, Unused
  <2>6. ASSUME NEW t \in Task PROVE Named(t)'
    BY <1>4, <1>0, <2>1, <2>2 DEF Popen, IInv, Placed, Named, TypeOK
  <2> QED
    BY <1>4, <2>3, <2>4, <2>5, <2>6 DEF IInv
<1> QED
  BY <1>1, <1>2, <1>3, <1>4

LEMMA SupervisorKeeps ==
  ASSUME IInv, TypeOK', NEW l \in Launch, SupervisorStep(l)
  PROVE  IInv'
<1> USE DispatchAssumption
<1>0. /\ TypeOK /\ job[l] \in JobRecord
      /\ job[l].attempts \in 0 .. MergeAttempts
  BY DEF IInv, TypeOK, JobRecord
<1>1. ASSUME Enter(l) PROVE IInv'
  <2>0. job[l].task \in Task /\ job[l].pc # "unused"
    BY <1>1 DEF Enter, EnterAs, Starting, FlockFree, IInv, Placed, Unused
  <2>1. /\ job'[l].pc = "session"
        /\ job'[l].task = job[l].task /\ job'[l].leaving = job[l].leaving
        /\ job'[l].unchecked = job[l].unchecked
        /\ job'[l].arrived = job[l].arrived
        /\ job'[l].writes = job[l].writes
        /\ job'[l].attempts = job[l].attempts
    BY <1>1, <1>0 DEF Enter, EnterAs, Starting, FlockFree, TypeOK, JobRecord
  <2>2. \A m \in Launch \ {l} : job'[m] = job[m]
    BY <1>1 DEF Enter, EnterAs, Starting, FlockFree, TypeOK
  <2>7. /\ task[job[l].task].flock = None
        /\ task'[job[l].task].flock = l
        /\ task'[job[l].task].body.launch = l
        /\ \A t \in Task \ {job[l].task} : task'[t].flock = task[t].flock /\ task'[t].body = task[t].body
    BY <1>1, <1>0, <2>0 DEF Enter, EnterAs, Starting, FlockFree, TypeOK, TaskRecord
  <2>3. PassPlaced'
    BY <1>1, <1>0, <2>1, <2>2 DEF Enter, EnterAs, Starting, FlockFree, IInv, PassPlaced, Placed, ByPass
  <2>4. ASSUME NEW m \in Launch PROVE Placed(m)'
    <3>1. Placed(m) /\ Placed(l) /\ m \in Launch /\ job[m] \in JobRecord
      BY DEF IInv, TypeOK
    <3>2. CASE m = l
      BY <1>1, <1>0, <2>0, <2>1, <2>7, <3>1, <3>2 DEF Enter, EnterAs, Starting, FlockFree, IInv, PassPlaced, Placed, ByPass, Holder, AtWork, Supervised, Merging
    <3>3. CASE m # l
      BY <1>1, <1>0, <2>0, <2>2, <2>7, <3>1, <3>3 DEF Enter, EnterAs, Starting, FlockFree, IInv, PassPlaced, Placed, ByPass, Holder, AtWork, Supervised, Merging
    <3> QED
      BY <3>2, <3>3
  <2>5. ASSUME NEW m \in Launch PROVE Counted(m)' /\ Rebased(m)'
    BY <1>1, <1>0, <2>1, <2>2 DEF Enter, EnterAs, Starting, FlockFree, IInv, PassPlaced, Placed, Counted, Rebased, Unused
  <2>6. ASSUME NEW t \in Task PROVE Named(t)'
    <3>1. Named(t)
      BY DEF IInv
    <3>2. \A k \in Launch : job[k].pc # "unused" => job'[k].pc # "unused"
      BY <2>0, <2>1, <2>2
    <3>3. CASE t = job[l].task
      BY <2>0, <2>7, <3>1, <3>2, <3>3 DEF Named
    <3>4. CASE t # job[l].task
      BY <2>7, <3>1, <3>2, <3>4 DEF Named
    <3> QED
      BY <3>3, <3>4
  <2> QED
    BY <2>3, <2>4, <2>5, <2>6 DEF IInv
<1>2. ASSUME Refused(l) PROVE IInv'
  <2>1. /\ job'[l].pc = "gone"
        /\ job'[l].task = job[l].task /\ job'[l].leaving = job[l].leaving
    BY <1>2, <1>0 DEF Refused, Starting, TypeOK, JobRecord
  <2>2. \A m \in Launch \ {l} : job'[m] = job[m]
    BY <1>2 DEF Refused, Starting, TypeOK
  <2>3. PassPlaced'
    BY <1>2, <2>1, <2>2 DEF Refused, Starting, IInv, PassPlaced, Placed, ByPass
  <2>4. ASSUME NEW m \in Launch PROVE Placed(m)'
    BY <1>2, <1>0, <2>1, <2>2 DEF Refused, Starting, IInv, PassPlaced, Placed, ByPass, Holder, AtWork, Supervised, Merging, TypeOK
  <2>5. ASSUME NEW m \in Launch PROVE Counted(m)' /\ Rebased(m)'
    BY <1>2, <1>0, <2>1, <2>2 DEF Refused, Starting, IInv, PassPlaced, Placed, Counted, Rebased, Unused
  <2>6. ASSUME NEW t \in Task PROVE Named(t)'
    BY <1>2, <1>0, <2>1, <2>2 DEF Refused, Starting, IInv, Placed, Named, TypeOK
  <2> QED
    BY <1>2, <2>3, <2>4, <2>5, <2>6 DEF IInv
<1>3. ASSUME SessionEnds(l) PROVE IInv'
  <2>1. /\ job'[l].pc \in {"fork", "failing"}
        /\ job'[l].task = job[l].task /\ job'[l].leaving = job[l].leaving
        /\ job'[l].unchecked = job[l].unchecked
        /\ job'[l].arrived = job[l].arrived
        /\ job'[l].attempts = job[l].attempts
    BY <1>3, <1>0 DEF SessionEnds, TypeOK, JobRecord
  <2>2. \A m \in Launch \ {l} : job'[m] = job[m]
    BY <1>3 DEF SessionEnds, TypeOK
  <2>3. PassPlaced'
    BY <1>3, <2>1, <2>2 DEF SessionEnds, IInv, PassPlaced, Placed, ByPass
  <2>4. ASSUME NEW m \in Launch PROVE Placed(m)'
    BY <1>3, <1>0, <2>1, <2>2 DEF SessionEnds, IInv, PassPlaced, Placed, ByPass, Holder, AtWork, Supervised, Merging, TypeOK
  <2>5. ASSUME NEW m \in Launch PROVE Counted(m)' /\ Rebased(m)'
    BY <1>3, <1>0, <2>1, <2>2 DEF SessionEnds, IInv, PassPlaced, Placed, Counted, Rebased, Unused
  <2>6. ASSUME NEW t \in Task PROVE Named(t)'
    BY <1>3, <1>0, <2>1, <2>2 DEF SessionEnds, IInv, Placed, Named, TypeOK
  <2> QED
    BY <1>3, <2>3, <2>4, <2>5, <2>6 DEF IInv
<1>4. ASSUME LeaveUnfinished(l) PROVE IInv'
  <2>0. job[l].task \in Task /\ job[l].pc # "unused"
    BY <1>4 DEF LeaveUnfinished, LeaseFor, IInv, Placed, Unused
  <2>1. /\ job'[l].pc = "gone"
        /\ job'[l].task = job[l].task /\ job'[l].leaving = TRUE
    <3>1. job' = [job EXCEPT ![l] = [Over(l) EXCEPT !.leaving = TRUE]]
      BY <1>4 DEF LeaveUnfinished
    <3>2. Over(l) \in JobRecord /\ Over(l).pc = "gone" /\ Over(l).task = job[l].task
      BY <1>0, OverType DEF TypeOK
    <3> QED
      BY <1>0, <3>1, <3>2 DEF TypeOK, JobRecord
  <2>2. \A m \in Launch \ {l} : job'[m] = job[m]
    BY <1>4 DEF LeaveUnfinished, LeaseFor, TypeOK
  <2>7. /\ \A t \in Task : task'[t].flock = task[t].flock /\ task'[t].body = task[t].body
    BY <1>4, <1>0, <2>0 DEF LeaveUnfinished, LeaseFor, TypeOK, TaskRecord
  <2>3. PassPlaced'
    BY <1>4, <1>0, <2>1, <2>2 DEF LeaveUnfinished, LeaseFor, IInv, PassPlaced, Placed, ByPass
  <2>4. ASSUME NEW m \in Launch PROVE Placed(m)'
    <3>1. Placed(m) /\ Placed(l) /\ m \in Launch /\ job[m] \in JobRecord
      BY DEF IInv, TypeOK
    <3>2. CASE m = l
      BY <1>4, <1>0, <2>0, <2>1, <2>7, <3>1, <3>2 DEF LeaveUnfinished, LeaseFor, IInv, PassPlaced, Placed, ByPass, Holder, AtWork, Supervised, Merging
    <3>3. CASE m # l
      BY <1>4, <1>0, <2>0, <2>2, <2>7, <3>1, <3>3 DEF LeaveUnfinished, LeaseFor, IInv, PassPlaced, Placed, ByPass, Holder, AtWork, Supervised, Merging
    <3> QED
      BY <3>2, <3>3
  <2>5. ASSUME NEW m \in Launch PROVE Counted(m)' /\ Rebased(m)'
    BY <1>4, <1>0, <2>1, <2>2 DEF LeaveUnfinished, LeaseFor, IInv, PassPlaced, Placed, Counted, Rebased, Unused
  <2>6. ASSUME NEW t \in Task PROVE Named(t)'
    <3>1. Named(t)
      BY DEF IInv
    <3>2. \A k \in Launch : job[k].pc # "unused" => job'[k].pc # "unused"
      BY <2>0, <2>1, <2>2
    <3>3. CASE t = job[l].task
      BY <2>0, <2>7, <3>1, <3>2, <3>3 DEF Named
    <3>4. CASE t # job[l].task
      BY <2>7, <3>1, <3>2, <3>4 DEF Named
    <3> QED
      BY <3>3, <3>4
  <2> QED
    BY <2>3, <2>4, <2>5, <2>6 DEF IInv
<1>5. ASSUME Exit(l) PROVE IInv'
  <2>0. job[l].task \in Task /\ job[l].pc # "unused"
    BY <1>5 DEF Exit, IInv, Placed, Unused
  <2>1. /\ job'[l].pc = job[l].pc /\ job'[l].task = job[l].task /\ job'[l].leaving = FALSE
        /\ job'[l].unchecked = job[l].unchecked
        /\ job'[l].arrived = job[l].arrived
        /\ job'[l].writes = job[l].writes
        /\ job'[l].attempts = job[l].attempts
    BY <1>5, <1>0 DEF Exit, TypeOK, JobRecord
  <2>2. \A m \in Launch \ {l} : job'[m] = job[m]
    BY <1>5 DEF Exit, TypeOK
  <2>7. /\ task[job[l].task].flock = l
        /\ task'[job[l].task].body.supervising = FALSE
        /\ task'[job[l].task].flock = None
        /\ task'[job[l].task].body.launch = l
        /\ \A t \in Task \ {job[l].task} : task'[t].flock = task[t].flock /\ task'[t].body = task[t].body
    BY <1>5, <1>0, <2>0 DEF Exit, IInv, Placed, AtWork, Supervised, ByPass, Merging, TypeOK, TaskRecord
  <2>3. PassPlaced'
    BY <1>5, <1>0, <2>1, <2>2 DEF Exit, IInv, PassPlaced, Placed, ByPass
  <2>4. ASSUME NEW m \in Launch PROVE Placed(m)'
    <3>1. Placed(m) /\ Placed(l) /\ m \in Launch /\ job[m] \in JobRecord
      BY DEF IInv, TypeOK
    <3>2. CASE m = l
      BY <1>5, <1>0, <2>0, <2>1, <2>7, <3>1, <3>2 DEF Exit, IInv, PassPlaced, Placed, ByPass, Holder, AtWork, Supervised, Merging
    <3>3. CASE m # l
      BY <1>5, <1>0, <2>0, <2>2, <2>7, <3>1, <3>3 DEF Exit, IInv, PassPlaced, Placed, ByPass, Holder, AtWork, Supervised, Merging
    <3> QED
      BY <3>2, <3>3
  <2>5. ASSUME NEW m \in Launch PROVE Counted(m)' /\ Rebased(m)'
    BY <1>5, <1>0, <2>1, <2>2 DEF Exit, IInv, PassPlaced, Placed, Counted, Rebased, Unused
  <2>6. ASSUME NEW t \in Task PROVE Named(t)'
    <3>1. Named(t)
      BY DEF IInv
    <3>2. \A k \in Launch : job[k].pc # "unused" => job'[k].pc # "unused"
      BY <2>0, <2>1, <2>2
    <3>3. CASE t = job[l].task
      BY <2>0, <2>7, <3>1, <3>2, <3>3 DEF Named
    <3>4. CASE t # job[l].task
      BY <2>7, <3>1, <3>2, <3>4 DEF Named
    <3> QED
      BY <3>3, <3>4
  <2> QED
    BY <2>3, <2>4, <2>5, <2>6 DEF IInv
<1> QED
  BY <1>1, <1>2, <1>3, <1>4, <1>5 DEF SupervisorStep

LEMMA DeathKeeps ==
  ASSUME IInv, TypeOK', NEW l \in Launch, SupervisorDies(l) \/ OrphanEnds(l) \/ SessionCompletes(l)
  PROVE  IInv'
<1> USE DispatchAssumption
<1>0. /\ TypeOK /\ job[l] \in JobRecord
      /\ job[l].attempts \in 0 .. MergeAttempts
  BY DEF IInv, TypeOK, JobRecord
<1>1. ASSUME SupervisorDies(l) PROVE IInv'
  <2>0. job[l].task \in Task /\ job[l].pc # "unused"
    BY <1>1 DEF SupervisorDies, Supervised, IInv, Placed, Unused
  <2>1. /\ job'[l].pc \in {job[l].pc, "gone"}
        /\ job'[l].pc = job[l].pc => job[l].leaving \/ job[l].pc = "gone"
        /\ job'[l].task = job[l].task /\ job'[l].leaving = FALSE
        /\ job'[l].pc = job[l].pc => /\ job'[l].unchecked = job[l].unchecked /\ job'[l].arrived = job[l].arrived
                                     /\ job'[l].writes = job[l].writes /\ job'[l].attempts = job[l].attempts
    <3>1. Over(l) \in JobRecord /\ Over(l).pc = "gone" /\ Over(l).task = job[l].task
      BY <1>0, OverType DEF TypeOK
    <3>2. CASE job[l].leaving
      <4>1. job' = [job EXCEPT ![l] = [job[l] EXCEPT !.leaving = FALSE]]
        BY <1>1, <3>2 DEF SupervisorDies
      <4> QED
        BY <1>0, <3>2, <4>1 DEF TypeOK, JobRecord
    <3>3. CASE ~job[l].leaving
      <4>1. job' = [job EXCEPT ![l] = [Over(l) EXCEPT !.leaving = FALSE]]
        BY <1>1, <3>3 DEF SupervisorDies
      <4>2. job'[l].pc = "gone" /\ job'[l].task = job[l].task /\ job'[l].leaving = FALSE
        BY <1>0, <3>1, <4>1 DEF TypeOK, JobRecord
      <4>3. job[l].pc # "gone"
        BY <1>1, <3>3 DEF SupervisorDies, Supervised
      <4> QED
        BY <4>2, <4>3
    <3> QED
      BY <3>2, <3>3
  <2>2. \A m \in Launch \ {l} : job'[m] = job[m]
    BY <1>1 DEF SupervisorDies, Supervised, TypeOK
  <2>7. /\ \A t \in Task : task'[t].body = task[t].body
        /\ \A t \in Task : task'[t].flock = task[t].flock \/ task[t].flock = l
    BY <1>1, <1>0, <2>0 DEF SupervisorDies, Supervised, TypeOK, TaskRecord
  <2>3. PassPlaced'
    BY <1>1, <1>0, <2>1, <2>2 DEF SupervisorDies, Supervised, IInv, PassPlaced, Placed, ByPass
  <2>4. ASSUME NEW m \in Launch PROVE Placed(m)'
    <3>1. Placed(m) /\ Placed(l) /\ m \in Launch /\ job[m] \in JobRecord
      BY DEF IInv, TypeOK
    <3>2. CASE m = l
      BY <1>1, <1>0, <2>0, <2>1, <2>7, <3>1, <3>2 DEF SupervisorDies, Supervised, IInv, PassPlaced, Placed, ByPass, Holder, AtWork, Supervised, Merging
    <3>3. CASE m # l
      BY <1>1, <1>0, <2>0, <2>2, <2>7, <3>1, <3>3 DEF SupervisorDies, Supervised, IInv, PassPlaced, Placed, ByPass, Holder, AtWork, Supervised, Merging
    <3> QED
      BY <3>2, <3>3
  <2>5. ASSUME NEW m \in Launch PROVE Counted(m)' /\ Rebased(m)'
    BY <1>1, <1>0, <2>1, <2>2 DEF SupervisorDies, Supervised, IInv, PassPlaced, Placed, Counted, Rebased, Unused
  <2>6. ASSUME NEW t \in Task PROVE Named(t)'
    <3>1. Named(t)
      BY DEF IInv
    <3>2. \A k \in Launch : job[k].pc # "unused" => job'[k].pc # "unused"
      BY <2>0, <2>1, <2>2
    <3>3. CASE t = job[l].task
      BY <2>0, <2>7, <3>1, <3>2, <3>3 DEF Named
    <3>4. CASE t # job[l].task
      BY <2>7, <3>1, <3>2, <3>4 DEF Named
    <3> QED
      BY <3>3, <3>4
  <2> QED
    BY <2>3, <2>4, <2>5, <2>6 DEF IInv
<1>2. ASSUME OrphanEnds(l) PROVE IInv'
  <2>1. /\ job'[l].pc = job[l].pc
        /\ job'[l].task = job[l].task /\ job'[l].leaving = job[l].leaving
        /\ job'[l].unchecked = job[l].unchecked
        /\ job'[l].arrived = job[l].arrived
        /\ job'[l].writes = job[l].writes
        /\ job'[l].attempts = job[l].attempts
    BY <1>2, <1>0 DEF OrphanEnds, TypeOK, JobRecord
  <2>2. \A m \in Launch \ {l} : job'[m] = job[m]
    BY <1>2 DEF OrphanEnds, TypeOK
  <2>3. PassPlaced'
    BY <1>2, <2>1, <2>2 DEF OrphanEnds, IInv, PassPlaced, Placed, ByPass
  <2>4. ASSUME NEW m \in Launch PROVE Placed(m)'
    BY <1>2, <1>0, <2>1, <2>2 DEF OrphanEnds, IInv, PassPlaced, Placed, ByPass, Holder, AtWork, Supervised, Merging, TypeOK
  <2>5. ASSUME NEW m \in Launch PROVE Counted(m)' /\ Rebased(m)'
    BY <1>2, <1>0, <2>1, <2>2 DEF OrphanEnds, IInv, PassPlaced, Placed, Counted, Rebased, Unused
  <2>6. ASSUME NEW t \in Task PROVE Named(t)'
    BY <1>2, <1>0, <2>1, <2>2 DEF OrphanEnds, IInv, Placed, Named, TypeOK
  <2> QED
    BY <1>2, <2>3, <2>4, <2>5, <2>6 DEF IInv
<1>3. ASSUME SessionCompletes(l) PROVE IInv'
  <2>0. job[l].task \in Task /\ job[l].pc # "unused"
    BY <1>3 DEF SessionCompletes, IInv, Placed, Unused
  <2>1. /\ job' = job
    BY <1>3, <1>0 DEF SessionCompletes, TypeOK, JobRecord
  <2>2. \A m \in Launch \ {l} : job'[m] = job[m]
    BY <1>3 DEF SessionCompletes, TypeOK
  <2>7. /\ \A t \in Task : task'[t].flock = task[t].flock /\ task'[t].body = task[t].body
    BY <1>3, <1>0, <2>0 DEF SessionCompletes, TypeOK, TaskRecord
  <2>3. PassPlaced'
    BY <1>3, <1>0, <2>1, <2>2 DEF SessionCompletes, IInv, PassPlaced, Placed, ByPass
  <2>4. ASSUME NEW m \in Launch PROVE Placed(m)'
    <3>1. Placed(m) /\ Placed(l) /\ m \in Launch /\ job[m] \in JobRecord
      BY DEF IInv, TypeOK
    <3>2. CASE m = l
      BY <1>3, <1>0, <2>0, <2>1, <2>7, <3>1, <3>2 DEF SessionCompletes, IInv, PassPlaced, Placed, ByPass, Holder, AtWork, Supervised, Merging
    <3>3. CASE m # l
      BY <1>3, <1>0, <2>0, <2>2, <2>7, <3>1, <3>3 DEF SessionCompletes, IInv, PassPlaced, Placed, ByPass, Holder, AtWork, Supervised, Merging
    <3> QED
      BY <3>2, <3>3
  <2>5. ASSUME NEW m \in Launch PROVE Counted(m)' /\ Rebased(m)'
    BY <1>3, <1>0, <2>1, <2>2 DEF SessionCompletes, IInv, PassPlaced, Placed, Counted, Rebased, Unused
  <2>6. ASSUME NEW t \in Task PROVE Named(t)'
    <3>1. Named(t)
      BY DEF IInv
    <3>2. \A k \in Launch : job[k].pc # "unused" => job'[k].pc # "unused"
      BY <2>0, <2>1, <2>2
    <3>3. CASE t = job[l].task
      BY <2>0, <2>7, <3>1, <3>2, <3>3 DEF Named
    <3>4. CASE t # job[l].task
      BY <2>7, <3>1, <3>2, <3>4 DEF Named
    <3> QED
      BY <3>3, <3>4
  <2> QED
    BY <2>3, <2>4, <2>5, <2>6 DEF IInv
<1> QED
  BY <1>1, <1>2, <1>3

(* The end of a finish, by whoever has the pass lease for it. *)
LEMMA LeaveKeeps ==
  ASSUME IInv, TypeOK', NEW l \in Launch, NEW kept \in BOOLEAN, Leave(l, kept),
         job[l].pc \in {"failing", "refused", "landed", "requeue"}, lock = Holder(l),
         UNCHANGED <<main, found, todo>>,
         \A t \in Task : task'[t].flock = task[t].flock /\ task'[t].body = task[t].body
  PROVE  IInv'
<1> USE DispatchAssumption
<1>0. TypeOK /\ job[l] \in JobRecord
  BY DEF IInv, TypeOK
<1>1. job[l].task \in Task /\ job[l].pc # "unused"
  BY DEF IInv, Placed
<1>2. /\ job'[l].pc = "gone"
      /\ job'[l].task = job[l].task
      /\ job'[l].leaving => job[l].leaving \/ ~ByPass(l)
  <2>1. Over(l) \in JobRecord /\ Over(l).pc = "gone" /\ Over(l).task = job[l].task
    BY <1>0, OverType DEF TypeOK
  <2>2. [job[l] EXCEPT !.pc = "gone"] \in JobRecord
    BY <1>0 DEF JobRecord
  <2> DEFINE left == IF kept THEN [job[l] EXCEPT !.pc = "gone"] ELSE Over(l)
  <2>3. left \in JobRecord /\ left.pc = "gone" /\ left.task = job[l].task
    BY <1>0, <2>1, <2>2 DEF JobRecord
  <2>4. job' = [job EXCEPT ![l] = [left EXCEPT !.leaving = job[l].leaving \/ ~ByPass(l)]]
    BY DEF Leave
  <2> HIDE DEF left
  <2>5. job'[l] = [left EXCEPT !.leaving = job[l].leaving \/ ~ByPass(l)]
    BY <1>0, <2>4 DEF TypeOK
  <2>6. (job[l].leaving \/ ~ByPass(l)) \in BOOLEAN
    OBVIOUS
  <2> QED
    BY <2>3, <2>5, <2>6 DEF JobRecord
<1>3. \A m \in Launch \ {l} : job'[m] = job[m]
  BY DEF Leave, TypeOK
<1>4. \A m \in Launch : job[m].pc # "unused" => job'[m].pc # "unused"
  BY <1>2, <1>3
<1>5. \/ /\ ByPass(l) /\ lock = Pass /\ lock' = lock /\ now' = None
         /\ pass' = IF pass = "mend" THEN "regate" ELSE "launch"
      \/ /\ ~ByPass(l) /\ lock = l /\ lock' = None /\ pass = "idle" /\ UNCHANGED <<pass, now>>
  BY DEF Leave, Holder, IInv, PassPlaced
<1>6. ~ByPass(l)' /\ \A m \in Launch \ {l} : ~ByPass(m) /\ ~ByPass(m)'
  BY <1>5 DEF ByPass
<1>7. PassPlaced'
  BY <1>4, <1>5 DEF IInv, PassPlaced, ByPass, TypeOK
<1>8. ASSUME NEW m \in Launch PROVE Placed(m)'
  <2>1. Placed(m) /\ Placed(l)
    BY DEF IInv
  <2>2. CASE m = l
    <3>1. AtWork(l)' => AtWork(l)
      BY <1>2, <1>6 DEF AtWork, Supervised
    <3> QED
      BY <1>1, <1>2, <1>6, <2>1, <2>2, <3>1 DEF Placed
  <2>3. CASE m # l
    <3>1. job'[m] = job[m] /\ ~ByPass(m) /\ ~ByPass(m)' /\ lock # m
      BY <1>3, <1>5, <1>6, <2>3
    <3>2. job[m].pc \notin {"landed", "requeue"}
      BY <2>1, <3>1 DEF Placed, Holder
    <3>3. AtWork(m)' => AtWork(m)
      BY <3>1 DEF AtWork, Supervised
    <3>4. AtWork(m) => job[m].task \in Task
      BY <2>1 DEF AtWork, Supervised, Placed, Unused
    <3> QED
      BY <2>1, <3>1, <3>2, <3>3, <3>4 DEF Placed
  <2> QED
    BY <2>2, <2>3
<1>9. ASSUME NEW m \in Launch PROVE Counted(m)' /\ Rebased(m)'
  BY <1>2, <1>3 DEF IInv, Counted, Rebased
<1>10. ASSUME NEW t \in Task PROVE Named(t)'
  BY <1>4 DEF IInv, Named
<1> QED
  BY <1>7, <1>8, <1>9, <1>10 DEF IInv

LEMMA MergeKeeps2 ==
  ASSUME IInv, TypeOK', NEW l \in Launch,
         \/ Fork(l) \/ Land(l) \/ ReadMerged(l) \/ FinishMerged(l)
         \/ ReadFinish(l) \/ Finish(l) \/ Requeue(l)
  PROVE  IInv'
<1> USE DispatchAssumption
<1>0. /\ TypeOK /\ job[l] \in JobRecord
      /\ job[l].attempts \in 0 .. MergeAttempts
  BY DEF IInv, TypeOK, JobRecord
<1>1. ASSUME Fork(l) PROVE IInv'
  <2>1. /\ job'[l].pc \in {"refused", "gating", "ready"}
        /\ job'[l].task = job[l].task /\ job'[l].leaving = job[l].leaving
        /\ job'[l].unchecked = job[l].unchecked
        /\ job'[l].writes = job[l].writes
        /\ job'[l].pc = "ready" => job[l].arrived \cap job[l].writes = {}
    <3>1. CASE job' = [job EXCEPT ![l].pc = "refused"]
      BY <1>0, <3>1 DEF TypeOK, JobRecord
    <3>2. CASE job' = [job EXCEPT ![l] = [job[l] EXCEPT !.arrived = {}, !.attempts = job[l].attempts + 1,
                         !.pc = IF Overlap(l) # {} THEN "gating" ELSE "ready"]]
      <4>1. Overlap(l) = {} => job[l].arrived \cap job[l].writes = {}
        BY DEF Overlap
      <4> DEFINE next == IF Overlap(l) # {} THEN "gating" ELSE "ready"
      <4>2. next \in {"gating", "ready"} /\ (next = "ready" => Overlap(l) = {})
        OBVIOUS
      <4>3. job' = [job EXCEPT ![l] = [job[l] EXCEPT !.arrived = {}, !.attempts = job[l].attempts + 1,
                                                     !.pc = next]]
        BY <3>2
      <4> HIDE DEF next
      <4>4. /\ job'[l].pc = next /\ job'[l].task = job[l].task /\ job'[l].leaving = job[l].leaving
            /\ job'[l].unchecked = job[l].unchecked /\ job'[l].writes = job[l].writes
        BY <1>0, <4>3 DEF TypeOK, JobRecord
      <4> QED
        BY <4>1, <4>2, <4>4
    <3> QED
      BY <1>1, <3>1, <3>2 DEF Fork
  <2>2. \A m \in Launch \ {l} : job'[m] = job[m]
    BY <1>1 DEF Fork, TypeOK
  <2>3. PassPlaced'
    <3>1. job[l].pc = "fork" /\ UNCHANGED <<lock, passVars>> /\ PassPlaced
      BY <1>1 DEF Fork, IInv
    <3> QED
      BY <2>1, <2>2, <3>1 DEF PassPlaced
  <2>4. ASSUME NEW m \in Launch PROVE Placed(m)'
    BY <1>1, <1>0, <2>1, <2>2 DEF Fork, IInv, PassPlaced, Placed, ByPass, Holder, AtWork, Supervised, Merging, TypeOK
  <2>5. ASSUME NEW m \in Launch PROVE Counted(m)' /\ Rebased(m)'
    BY <1>1, <1>0, <2>1, <2>2 DEF Fork, IInv, PassPlaced, Placed, Counted, Rebased, Unused
  <2>6. ASSUME NEW t \in Task PROVE Named(t)'
    BY <1>1, <1>0, <2>1, <2>2 DEF Fork, IInv, Placed, Named, TypeOK
  <2> QED
    BY <1>1, <2>3, <2>4, <2>5, <2>6 DEF IInv
<1>2. ASSUME Land(l) PROVE IInv'
  <2>0. job[l].task \in Task /\ job[l].pc # "unused"
    BY <1>2 DEF Land, FastForward, LeaseFor, IInv, Placed, Unused
  <2>1. /\ job'[l].pc = "landed"
        /\ job'[l].task = job[l].task /\ job'[l].leaving = job[l].leaving
    <3>1. job[l].writes \in SUBSET File
      BY <1>0 DEF JobRecord
    <3> DEFINE others == Arrive(job[l].writes, Launch \ {l})
    <3>2. others \in [Launch -> JobRecord]
      BY <1>0, <3>1, ArriveType DEF TypeOK
    <3>3. others[l] = job[l]
      BY DEF Arrive
    <3>4. job' = [others EXCEPT ![l].pc = "landed"]
      BY <1>2 DEF Land, FastForward
    <3> HIDE DEF others
    <3> QED
      BY <1>0, <3>2, <3>3, <3>4 DEF JobRecord
  <2>2. ASSUME NEW m \in Launch \ {l} PROVE OnlyArrived(m)
    <3>1. job[l].writes \in SUBSET File
      BY <1>0 DEF JobRecord
    <3> DEFINE others == Arrive(job[l].writes, Launch \ {l})
    <3>2. others \in [Launch -> JobRecord]
      BY <1>0, <3>1, ArriveType DEF TypeOK
    <3>3. job' = [others EXCEPT ![l].pc = "landed"]
      BY <1>2 DEF Land, FastForward
    <3>4. job'[m] = others[m]
      <4> HIDE DEF others
      <4> QED
        BY <3>2, <3>3
    <3> QED
      BY <1>0, <3>1, <3>4, ArriveEffect DEF TypeOK
  <2>7. /\ UNCHANGED task
    BY <1>2, <1>0, <2>0 DEF Land, FastForward, LeaseFor, TypeOK, TaskRecord
  <2>3. PassPlaced'
    <3>1. pass # "idle" => ByPass(l) /\ lock' = lock
      BY <1>2 DEF Land, FastForward, LeaseFor, IInv, PassPlaced
    <3>2. job'[l].pc # "unused" /\ \A m \in Launch : job[m].pc # "unused" => job'[m].pc # "unused"
      BY <2>1, <2>2 DEF OnlyArrived
    <3>3. PassPlaced
      BY DEF IInv
    <3>4. pass \notin {"claimed", "sign", "unlaunched"}
      BY <1>2, <3>1, <3>3 DEF ByPass, PassPlaced, Land, FastForward
    <3>5. UNCHANGED passVars
      BY <1>2 DEF Land, FastForward
    <3> QED
      BY <3>1, <3>2, <3>3, <3>4, <3>5 DEF PassPlaced, ByPass
  <2>4. ASSUME NEW m \in Launch PROVE Placed(m)'
    <3>1. Placed(m) /\ Placed(l) /\ m \in Launch /\ job[m] \in JobRecord
      BY DEF IInv, TypeOK
    <3>2. /\ UNCHANGED <<task, pass, now>> /\ main' = main \cup {l}
          /\ lock' = IF ByPass(l) THEN lock ELSE l
          /\ job[l].pc = "ready" /\ (ByPass(l) \/ lock = None)
      BY <1>2 DEF Land, FastForward, LeaseFor
    <3>3. CASE m = l
      <4>1. ByPass(m)' = ByPass(m) /\ Holder(m)' = Holder(m) /\ (AtWork(m)' => AtWork(m))
        BY <2>1, <3>2, <3>3 DEF ByPass, Holder, AtWork, Supervised
      <4>2. lock' = Holder(l)
        BY <1>2 DEF Land, FastForward, LeaseFor, Holder
      <4> QED
        BY <2>0, <2>1, <3>1, <3>2, <3>3, <4>1, <4>2 DEF Placed, Merging
    <3>4. CASE m # l
      <4>1. OnlyArrived(m)
        BY <2>2, <3>4
      <4>2. job[m].pc \in {"landed", "requeue"} => lock' = lock
        BY <3>1, <3>2 DEF Placed, Holder
      <4> QED
        BY <3>1, <3>2, <4>1, <4>2 DEF Placed, ByPass, Holder, AtWork, Supervised, OnlyArrived, Unused
    <3> QED
      BY <3>3, <3>4
  <2>5. ASSUME NEW m \in Launch PROVE Counted(m)' /\ Rebased(m)'
    <3>1. Placed(m) /\ Counted(m) /\ Rebased(m)
      BY DEF IInv
    <3>2. CASE m = l
      BY <2>1, <3>2 DEF Counted, Rebased
    <3>3. CASE m # l
      BY <2>2, <3>1, <3>3 DEF Counted, Rebased, OnlyArrived
    <3> QED
      BY <3>2, <3>3
  <2>6. ASSUME NEW t \in Task PROVE Named(t)'
    <3>1. Named(t)
      BY DEF IInv
    <3>2. \A k \in Launch : job[k].pc # "unused" => job'[k].pc # "unused"
      BY <2>0, <2>1, <2>2 DEF OnlyArrived
    <3>3. CASE t = job[l].task
      BY <2>0, <2>7, <3>1, <3>2, <3>3 DEF Named
    <3>4. CASE t # job[l].task
      BY <2>7, <3>1, <3>2, <3>4 DEF Named
    <3> QED
      BY <3>3, <3>4
  <2> QED
    BY <2>3, <2>4, <2>5, <2>6 DEF IInv
<1>3. ASSUME FinishMerged(l) PROVE IInv'
  <2>1. lock = Holder(l) /\ job[l].task \in Task
    BY <1>3 DEF FinishMerged, IInv, Placed
  <2>2. PICK state : task' = [task EXCEPT ![job[l].task] =
                                [task[job[l].task] EXCEPT !.last = l, !.state = state]]
    BY <1>3 DEF FinishMerged
  <2>3. \A t \in Task : task'[t].flock = task[t].flock /\ task'[t].body = task[t].body
    BY <1>0, <2>1, <2>2 DEF TypeOK, TaskRecord
  <2> QED
    BY <1>3, <2>1, <2>3, LeaveKeeps DEF FinishMerged
<1>4. ASSUME Finish(l) PROVE IInv'
  <2>1. lock = Holder(l) /\ job[l].task \in Task /\ job[l].pc \in {"failing", "refused"}
    BY <1>4 DEF Finish, FinishAs, HasRead, IInv, Placed
  <2>2. \A t \in Task : task'[t].flock = task[t].flock /\ task'[t].body = task[t].body
    BY <1>0, <1>4, <2>1 DEF Finish, FinishAs, TypeOK, TaskRecord
  <2>3. CASE \E kept \in BOOLEAN : Leave(l, kept)
    BY <1>4, <2>1, <2>2, <2>3, LeaveKeeps DEF Finish, FinishAs
  <2>4. CASE job[l].pc = "failing" /\ job' = [job EXCEPT ![l].pc = "requeue"] /\ UNCHANGED <<lock, pass, now>>
    <3>1. /\ job'[l].pc = "requeue" /\ job'[l].task = job[l].task
          /\ job'[l].leaving = job[l].leaving
      BY <1>0, <2>4 DEF TypeOK, JobRecord
    <3>2. \A m \in Launch \ {l} : job'[m] = job[m]
      BY <2>4 DEF TypeOK
    <3>3. ~ByPass(l) /\ lock = l
      BY <2>1, <2>4 DEF IInv, Placed, Merging, Holder
    <3>4. UNCHANGED <<main, found, todo>>
      BY <1>4 DEF Finish, FinishAs
    <3>5. PassPlaced'
      BY <2>4, <3>1, <3>2, <3>4 DEF IInv, PassPlaced
    <3>6. ASSUME NEW m \in Launch PROVE Placed(m)'
      <4>1. Placed(m)
        BY DEF IInv
      <4>2. ByPass(m)' = ByPass(m) /\ Holder(m)' = Holder(m)
        BY <2>4 DEF ByPass, Holder
      <4>3. AtWork(m)' = AtWork(m)
        BY <2>4, <3>1, <3>2, <4>2 DEF AtWork, Supervised
      <4>4. AtWork(m) => job[m].task \in Task
        BY <4>1 DEF AtWork, Supervised, Placed, Unused
      <4> QED
        BY <2>1, <2>2, <2>4, <3>1, <3>2, <3>3, <3>4, <4>1, <4>2, <4>3, <4>4 DEF Placed
    <3>7. ASSUME NEW m \in Launch PROVE Counted(m)' /\ Rebased(m)'
      BY <3>1, <3>2 DEF IInv, Counted, Rebased
    <3>8. ASSUME NEW t \in Task PROVE Named(t)'
      BY <2>2, <3>1, <3>2 DEF IInv, Named
    <3> QED
      BY <3>5, <3>6, <3>7, <3>8 DEF IInv
  <2> QED
    BY <1>4, <2>3, <2>4 DEF Finish, FinishAs
<1>5. ASSUME Requeue(l) PROVE IInv'
  <2>1. lock = Holder(l) /\ job[l].task \in Task
    BY <1>5 DEF Requeue, IInv, Placed, Holder
  <2>2. \A t \in Task : task'[t].flock = task[t].flock /\ task'[t].body = task[t].body
    <3>1. CASE task' = [task EXCEPT ![job[l].task] =
                          [task[job[l].task] EXCEPT !.state = "accepted", !.claimed = FALSE]]
      BY <1>0, <2>1, <3>1 DEF TypeOK, TaskRecord
    <3>2. CASE task' = task
      BY <3>2
    <3> QED
      BY <1>5, <3>1, <3>2 DEF Requeue
  <2> QED
    BY <1>5, <2>1, <2>2, LeaveKeeps DEF Requeue
<1>6. ASSUME ReadMerged(l) PROVE IInv'
  <2>1. UNCHANGED <<task, job, main, lock, passVars>>
    BY <1>6 DEF ReadMerged
  <2>2. ASSUME NEW m \in Launch PROVE Placed(m)' /\ Counted(m)' /\ Rebased(m)'
    BY <2>1 DEF IInv, Placed, Counted, Rebased, AtWork, Supervised, ByPass, Holder
  <2> QED
    BY <2>1, <2>2 DEF IInv, PassPlaced, Named
<1>7. ASSUME ReadFinish(l) PROVE IInv'
  <2>1. /\ UNCHANGED <<job, main, passVars>> /\ lock' = Holder(l) /\ LeaseFor(l)
        /\ job[l].pc \in {"failing", "refused"}
    BY <1>7 DEF ReadFinish
  <2>2. job[l].task \in Task
    BY <2>1 DEF IInv, Placed
  <2>3. \A t \in Task : task'[t].flock = task[t].flock /\ task'[t].body = task[t].body
    BY <1>0, <1>7, <2>2 DEF ReadFinish, TypeOK, TaskRecord
  <2>4. PassPlaced /\ (lock' = lock \/ (lock = None /\ pass = "idle"))
    BY <2>1 DEF LeaseFor, Holder, IInv, PassPlaced
  <2>5. ASSUME NEW m \in Launch PROVE Placed(m)'
    <3>1. Placed(m)
      BY DEF IInv
    <3>2. ByPass(m)' = ByPass(m) /\ Holder(m)' = Holder(m) /\ AtWork(m)' = AtWork(m)
      BY <2>1 DEF ByPass, Holder, AtWork, Supervised
    <3>3. AtWork(m) => job[m].task \in Task
      BY <3>1 DEF AtWork, Supervised, Placed, Unused
    <3>4. lock = None => job[m].pc \notin {"landed", "requeue"}
      BY <3>1 DEF Placed, Holder
    <3> QED
      BY <2>1, <2>3, <2>4, <3>1, <3>2, <3>3, <3>4 DEF Placed
  <2>6. ASSUME NEW m \in Launch PROVE Counted(m)' /\ Rebased(m)'
    BY <2>1 DEF IInv, Counted, Rebased
  <2>7. PassPlaced' /\ \A t \in Task : Named(t)'
    BY <2>1, <2>3, <2>4 DEF IInv, PassPlaced, Named
  <2> QED
    BY <2>5, <2>6, <2>7 DEF IInv
<1> QED
  BY <1>1, <1>2, <1>3, <1>4, <1>5, <1>6, <1>7

LEMMA PassKeeps2 ==
  ASSUME IInv, TypeOK', NEW l \in Launch, LaunchFails(l) \/ Sign(l)
  PROVE  IInv'
<1> USE DispatchAssumption
<1>0. /\ TypeOK /\ job[l] \in JobRecord
      /\ job[l].attempts \in 0 .. MergeAttempts
  BY DEF IInv, TypeOK, JobRecord
<1>1. ASSUME LaunchFails(l) PROVE IInv'
  <2>0. job[l].task \in Task /\ job[l].pc # "unused"
    BY <1>1 DEF LaunchFails, PassPlaced, IInv, Placed, Unused
  <2>1. /\ job'[l].pc = "refused"
        /\ job'[l].task = job[l].task /\ job'[l].leaving = job[l].leaving
    BY <1>0, <1>1 DEF LaunchFails, TypeOK, JobRecord
  <2>2. \A m \in Launch \ {l} : job'[m] = job[m]
    BY <1>1 DEF LaunchFails, PassPlaced, TypeOK
  <2>7. /\ \A t \in Task : task'[t].flock = task[t].flock /\ task'[t].body = task[t].body
    BY <1>1, <1>0, <2>0 DEF LaunchFails, PassPlaced, TypeOK, TaskRecord
  <2>3. PassPlaced'
    BY <1>1, <1>0, <2>1, <2>2 DEF LaunchFails, PassPlaced, IInv, PassPlaced, Placed, ByPass
  <2>4. ASSUME NEW m \in Launch PROVE Placed(m)'
    <3>1. Placed(m) /\ Placed(l) /\ m \in Launch /\ job[m] \in JobRecord
      BY DEF IInv, TypeOK
    <3>2. CASE m = l
      BY <1>1, <1>0, <2>0, <2>1, <2>7, <3>1, <3>2 DEF LaunchFails, PassPlaced, IInv, PassPlaced, Placed, ByPass, Holder, AtWork, Supervised, Merging
    <3>3. CASE m # l
      BY <1>1, <1>0, <2>0, <2>2, <2>7, <3>1, <3>3 DEF LaunchFails, PassPlaced, IInv, PassPlaced, Placed, ByPass, Holder, AtWork, Supervised, Merging
    <3> QED
      BY <3>2, <3>3
  <2>5. ASSUME NEW m \in Launch PROVE Counted(m)' /\ Rebased(m)'
    BY <1>1, <1>0, <2>1, <2>2 DEF LaunchFails, PassPlaced, IInv, PassPlaced, Placed, Counted, Rebased, Unused
  <2>6. ASSUME NEW t \in Task PROVE Named(t)'
    <3>1. Named(t)
      BY DEF IInv
    <3>2. \A k \in Launch : job[k].pc # "unused" => job'[k].pc # "unused"
      BY <2>0, <2>1, <2>2
    <3>3. CASE t = job[l].task
      BY <2>0, <2>7, <3>1, <3>2, <3>3 DEF Named
    <3>4. CASE t # job[l].task
      BY <2>7, <3>1, <3>2, <3>4 DEF Named
    <3> QED
      BY <3>3, <3>4
  <2> QED
    BY <2>3, <2>4, <2>5, <2>6 DEF IInv
<1>2. ASSUME Sign(l) PROVE IInv'
  <2>0. job[l].task \in Task /\ job[l].pc # "unused"
    BY <1>2 DEF Sign, PassPlaced, IInv, Placed, Unused
  <2>1. /\ job' = job
    BY <1>2, <1>0 DEF Sign, PassPlaced, TypeOK, JobRecord
  <2>2. \A m \in Launch \ {l} : job'[m] = job[m]
    BY <1>2 DEF Sign, PassPlaced, TypeOK
  <2>7. /\ \A t \in Task : task'[t].flock = task[t].flock
        /\ task'[job[l].task].body.supervising = FALSE
        /\ task'[job[l].task].body.launch = l
        /\ \A t \in Task \ {job[l].task} : task'[t].body = task[t].body
    BY <1>2, <1>0, <2>0 DEF Sign, PassPlaced, TypeOK, TaskRecord
  <2>3. PassPlaced'
    BY <1>2, <1>0, <2>1, <2>2 DEF Sign, PassPlaced, IInv, PassPlaced, Placed, ByPass
  <2>4. ASSUME NEW m \in Launch PROVE Placed(m)'
    <3>1. Placed(m) /\ Placed(l) /\ m \in Launch /\ job[m] \in JobRecord
      BY DEF IInv, TypeOK
    <3>2. CASE m = l
      BY <1>2, <1>0, <2>0, <2>1, <2>7, <3>1, <3>2 DEF Sign, PassPlaced, IInv, PassPlaced, Placed, ByPass, Holder, AtWork, Supervised, Merging
    <3>3. CASE m # l
      BY <1>2, <1>0, <2>0, <2>2, <2>7, <3>1, <3>3 DEF Sign, PassPlaced, IInv, PassPlaced, Placed, ByPass, Holder, AtWork, Supervised, Merging
    <3> QED
      BY <3>2, <3>3
  <2>5. ASSUME NEW m \in Launch PROVE Counted(m)' /\ Rebased(m)'
    BY <1>2, <1>0, <2>1, <2>2 DEF Sign, PassPlaced, IInv, PassPlaced, Placed, Counted, Rebased, Unused
  <2>6. ASSUME NEW t \in Task PROVE Named(t)'
    <3>1. Named(t)
      BY DEF IInv
    <3>2. \A k \in Launch : job[k].pc # "unused" => job'[k].pc # "unused"
      BY <2>0, <2>1, <2>2
    <3>3. CASE t = job[l].task
      BY <2>0, <2>7, <3>1, <3>2, <3>3 DEF Named
    <3>4. CASE t # job[l].task
      BY <2>7, <3>1, <3>2, <3>4 DEF Named
    <3> QED
      BY <3>3, <3>4
  <2> QED
    BY <2>3, <2>4, <2>5, <2>6 DEF IInv
<1> QED
  BY <1>1, <1>2

LEMMA PassKeeps3 ==
  ASSUME IInv, TypeOK',
         \/ PassStart \/ Reaped \/ Evaluate \/ PassEnd \/ PassDie
         \/ \E t \in Task : Reap(t) \/ Spare(t)
  PROVE  IInv'
<1> USE DispatchAssumption
<1>0. TypeOK
  BY DEF IInv
<1>1. ASSUME PassStart PROVE IInv'
  <2>1. pass = "idle" /\ pass' = "reap" /\ lock = None /\ lock' = Pass /\ UNCHANGED <<task, job, main, now>>
    BY <1>1 DEF PassStart
  <2>2. ASSUME NEW m \in Launch PROVE Placed(m)' /\ Counted(m)' /\ Rebased(m)'
    <3>1. job[m].pc \notin {"landed", "requeue"}
      BY <2>1 DEF IInv, Placed, Holder, ByPass
    <3> QED
      BY <2>1, <3>1 DEF IInv, Placed, Counted, Rebased, AtWork, Supervised, ByPass, Holder
  <2>3. ASSUME NEW t \in Task, found'[t].launch \in Launch PROVE job'[found'[t].launch].pc # "unused"
    <3>1. found'[t] = task[t].body
      BY <1>1, <2>3 DEF PassStart, NoBody
    <3>2. Named(t) /\ task[t].body.launch \in Launch \cup {None}
      BY <1>0 DEF IInv, TypeOK, TaskRecord, Body
    <3> QED
      BY <2>1, <2>3, <3>1, <3>2 DEF Named
  <2>4. PassPlaced'
    BY <2>1, <2>3 DEF PassPlaced
  <2>5. ASSUME NEW t \in Task PROVE Named(t)'
    BY <2>1 DEF Named, IInv
  <2> QED
    BY <2>2, <2>4, <2>5 DEF IInv
<1>5. ASSUME NEW t \in Task, Reap(t) PROVE IInv'
  <2>1. PICK l \in Launch : l = found[t].launch
    BY <1>0, <1>5 DEF Reap, Stale, TypeOK, Body
  <2>2. /\ pass = "reap" /\ lock = Pass /\ job[l].pc # "unused"
        /\ UNCHANGED <<main, lock, pass, now, todo>>
    BY <1>5, <2>1 DEF Reap, Stale, IInv, PassPlaced
  <2>3. job'[l].pc = "gone" /\ job'[l].task = job[l].task /\ job'[l].leaving = job[l].leaving
    <3>1. /\ Over(l) \in JobRecord /\ Over(l).pc = "gone" /\ Over(l).task = job[l].task
          /\ Over(l).leaving = job[l].leaving /\ (Over(l).child /\ ~found[t].supervising) \in BOOLEAN
      BY <1>0, OverType DEF TypeOK
    <3>2. job'[l] = [Over(l) EXCEPT !.child = Over(l).child /\ ~found[t].supervising]
      BY <1>0, <1>5, <2>1 DEF Reap, TypeOK
    <3> QED
      BY <3>1, <3>2 DEF JobRecord
  <2>4. \A m \in Launch \ {l} : job'[m] = job[m]
    BY <1>0, <1>5, <2>1 DEF Reap, TypeOK
  <2>5. ASSUME NEW u \in Task PROVE task'[u].flock = task[u].flock /\ task'[u].body = task[u].body
    <3>1. task[u] \in TaskRecord /\ task \in [Task -> TaskRecord]
      BY <1>0 DEF TypeOK
    <3> QED
      BY <1>5, <3>1 DEF Reap, TaskRecord
  <2>6. ASSUME NEW m \in Launch PROVE Placed(m)'
    <3>1. Placed(m) /\ ~ByPass(m) /\ ~ByPass(m)'
      BY <2>2 DEF IInv, ByPass
    <3>2. job[m].pc \notin {"landed", "requeue"}
      BY <2>2, <3>1 DEF Placed, Holder
    <3>3. CASE m = l
      BY <2>2, <2>3, <2>5, <3>1, <3>3 DEF Placed, AtWork, Supervised
    <3>4. CASE m # l
      BY <2>2, <2>4, <2>5, <3>1, <3>2, <3>4 DEF Placed, AtWork, Supervised, Unused
    <3> QED
      BY <3>3, <3>4
  <2>7. ASSUME NEW m \in Launch PROVE Counted(m)' /\ Rebased(m)'
    BY <2>3, <2>4 DEF IInv, Counted, Rebased
  <2>8. \A m \in Launch : job[m].pc # "unused" => job'[m].pc # "unused"
    BY <2>3, <2>4
  <2>9. ASSUME NEW u \in Task PROVE Named(u)'
    BY <2>5, <2>8 DEF IInv, Named
  <2>10. ASSUME NEW u \in Task, found'[u].launch \in Launch PROVE job'[found'[u].launch].pc # "unused"
    <3>1. found'[u] = found[u] /\ found[u].launch \in Launch
      BY <1>0, <1>5, <2>10 DEF Reap, NoBody, TypeOK, Body
    <3> QED
      BY <2>8, <2>10, <3>1 DEF IInv, PassPlaced
  <2>11. PassPlaced'
    BY <2>2, <2>10 DEF PassPlaced
  <2> QED
    BY <2>6, <2>7, <2>9, <2>11 DEF IInv
<1>6. ASSUME NEW t \in Task, Spare(t) PROVE IInv'
  <2>1. UNCHANGED <<task, job, main, lock, pass, now, todo>> /\ pass = "reap"
    BY <1>6 DEF Spare
  <2>2. ASSUME NEW m \in Launch PROVE Placed(m)' /\ Counted(m)' /\ Rebased(m)'
    BY <2>1 DEF IInv, Placed, Counted, Rebased, AtWork, Supervised, ByPass, Holder
  <2>3. ASSUME NEW u \in Task, found'[u].launch \in Launch PROVE job'[found'[u].launch].pc # "unused"
    <3>1. found'[u] = found[u]
      BY <1>0, <1>6, <2>3 DEF Spare, NoBody, TypeOK
    <3> QED
      BY <2>1, <2>3, <3>1 DEF IInv, PassPlaced
  <2>4. PassPlaced' /\ \A u \in Task : Named(u)'
    BY <2>1, <2>3 DEF PassPlaced, IInv, Named
  <2> QED
    BY <2>2, <2>4 DEF IInv
<1>7. ASSUME Reaped PROVE IInv'
  <2>1. pass = "reap" /\ pass' \in {"launch", "regate"} /\ UNCHANGED <<task, job, main, lock, found, now>>
    BY <1>7 DEF Reaped
  <2>2. ASSUME NEW m \in Launch PROVE Placed(m)' /\ Counted(m)' /\ Rebased(m)'
    BY <2>1 DEF IInv, Placed, Counted, Rebased, AtWork, Supervised, ByPass, Holder
  <2>3. ASSUME NEW l \in todo', pass' = "regate" PROVE l \in Launch /\ job'[l].pc # "unused"
    <3>1. l \in Launch /\ KeptForRegate(l)
      BY <1>7, <2>3 DEF Reaped
    <3>2. Placed(l)
      BY <3>1 DEF IInv
    <3> QED
      BY <2>1, <3>1, <3>2 DEF KeptForRegate, Placed, Unused
  <2>4. PassPlaced' /\ \A t \in Task : Named(t)'
    BY <2>1, <2>3 DEF PassPlaced, IInv, Named
  <2> QED
    BY <2>2, <2>4 DEF IInv
<1>2. ASSUME Evaluate PROVE IInv'
  <2>1. pass = "regate" /\ pass' = "launch" /\ UNCHANGED <<task, job, main, lock, found, now>>
    BY <1>2 DEF Evaluate
  <2>2. ASSUME NEW m \in Launch PROVE Placed(m)' /\ Counted(m)' /\ Rebased(m)'
    BY <2>1 DEF IInv, Placed, Counted, Rebased, AtWork, Supervised, ByPass, Holder
  <2>3. PassPlaced' /\ \A t \in Task : Named(t)'
    BY <2>1 DEF PassPlaced, IInv, Named
  <2> QED
    BY <2>2, <2>3 DEF IInv
<1>3. ASSUME PassEnd PROVE IInv'
  <2>1. pass = "launch" /\ pass' = "idle" /\ UNCHANGED <<task, job, main, found, now>> /\ lock = Pass
    BY <1>3 DEF PassEnd, IInv, PassPlaced
  <2>2. ASSUME NEW m \in Launch PROVE Placed(m)' /\ Counted(m)' /\ Rebased(m)'
    BY <2>1 DEF IInv, Placed, Counted, Rebased, AtWork, Supervised, ByPass, Holder
  <2>3. PassPlaced' /\ \A t \in Task : Named(t)'
    BY <2>1 DEF PassPlaced, IInv, Named
  <2> QED
    BY <2>2, <2>3 DEF IInv
<1>4. ASSUME PassDie PROVE IInv'
  <2>1. pass # "idle" /\ pass' = "idle" /\ lock = Pass /\ UNCHANGED <<task, main>>
    BY <1>4 DEF PassDie, IInv, PassPlaced
  <2>2. ASSUME NEW m \in Launch
        PROVE  \/ job'[m] = job[m] /\ ~(m = now /\ pass \in {"claimed", "mend", "unlaunched"})
               \/ /\ m = now /\ pass \in {"claimed", "mend", "unlaunched"} /\ job'[m].pc = "gone"
                  /\ job'[m].task = job[m].task /\ job'[m].leaving = job[m].leaving
    <3>1. job[m] \in JobRecord
      BY <1>0 DEF TypeOK
    <3>2. CASE pass \in {"claimed", "mend", "unlaunched"}
      <4>1. job' = [job EXCEPT ![now].pc = "gone"]
        BY <1>4, <3>2 DEF PassDie
      <4> QED
        BY <1>0, <3>1, <3>2, <4>1 DEF TypeOK, JobRecord
    <3>3. CASE pass \notin {"claimed", "mend", "unlaunched"}
      BY <1>4, <3>3 DEF PassDie
    <3> QED
      BY <3>2, <3>3
  <2>3. ASSUME NEW m \in Launch PROVE Placed(m)'
    <3>1. Placed(m)
      BY DEF IInv
    <3>2. ~(ByPass(m))'
      BY <2>1 DEF ByPass
    <3>3. CASE job'[m] = job[m] /\ ~(m = now /\ pass \in {"claimed", "mend", "unlaunched"})
      <4>1. ~ByPass(m)
        BY <3>3 DEF ByPass
      <4>2. job[m].pc \notin {"landed", "requeue"}
        BY <2>1, <3>1, <4>1 DEF Placed, Holder
      <4> QED
        BY <2>1, <3>1, <3>2, <3>3, <4>1, <4>2 DEF Placed, AtWork, Supervised
    <3>4. CASE /\ m = now /\ pass \in {"claimed", "mend", "unlaunched"} /\ job'[m].pc = "gone"
               /\ job'[m].task = job[m].task /\ job'[m].leaving = job[m].leaving
      <4>1. job[m].pc # "unused" /\ (job[m].leaving => AtWork(m))
        BY <3>1, <3>4 DEF IInv, PassPlaced, Placed, ByPass, Merging, AtWork, Supervised
      <4> QED
        BY <2>1, <3>1, <3>2, <3>4, <4>1 DEF Placed, AtWork, Supervised
    <3> QED
      BY <2>2, <3>3, <3>4
  <2>4. ASSUME NEW m \in Launch PROVE Counted(m)' /\ Rebased(m)'
    BY <2>2 DEF IInv, Counted, Rebased
  <2>5. PassPlaced' /\ \A t \in Task : Named(t)'
    <3>1. \A m \in Launch : job[m].pc # "unused" => job'[m].pc # "unused"
      BY <2>2
    <3>2. \A t \in Task : found'[t].launch = None
      BY <1>4 DEF PassDie, NoBody
    <3> QED
      BY <2>1, <3>1, <3>2 DEF PassPlaced, IInv, Named
  <2> QED
    BY <2>3, <2>4, <2>5 DEF IInv
<1> QED
  BY <1>1, <1>2, <1>3, <1>4, <1>5, <1>6, <1>7

LEMMA ClaimKeeps ==
  ASSUME IInv, TypeOK', NEW t \in Task, Claim(t)
  PROVE  IInv'
<1> USE DispatchAssumption
<1>0. TypeOK
  BY DEF IInv
<1>1. (CHOOSE m \in Fresh : TRUE) \in Fresh
  BY DEF Claim
<1>2. PICK l \in Fresh :
        job' = [job EXCEPT ![l] = [job[l] EXCEPT !.task = t, !.pc = "claimed"]] /\ now' = l
  BY <1>1 DEF Claim
<1>3. l \in Launch /\ job[l].pc = "unused" /\ job[l] = Unused
  BY <1>2 DEF Fresh, IInv, Placed
<1>4. job'[l] = [Unused EXCEPT !.task = t, !.pc = "claimed"]
  BY <1>0, <1>2, <1>3 DEF TypeOK
<1>5. /\ job'[l].pc = "claimed" /\ job'[l].task = t /\ job'[l].leaving = FALSE
      /\ job'[l].attempts = 0 /\ job'[l].unchecked = {}
  BY <1>4 DEF Unused
<1>6. \A m \in Launch \ {l} : job'[m] = job[m]
  BY <1>0, <1>2, <1>3 DEF TypeOK
<1>7. \A u \in Task : task'[u].flock = task[u].flock /\ task'[u].body = task[u].body
  <2>1. task' = [task EXCEPT ![t] = [task[t] EXCEPT !.state = "in_progress", !.claimed = TRUE]]
    BY DEF Claim
  <2>2. task[t] \in TaskRecord
    BY <1>0 DEF TypeOK
  <2> QED
    BY <1>0, <2>1, <2>2 DEF TypeOK, TaskRecord
<1>8. pass = "launch" /\ pass' = "claimed" /\ UNCHANGED <<main, lock, found>>
  BY DEF Claim
<1>9. ASSUME NEW m \in Launch PROVE Placed(m)'
  <2>1. Placed(m)
    BY DEF IInv
  <2>2. CASE m = l
    BY <1>5, <1>8, <2>2 DEF Placed, ByPass, Holder, AtWork, Supervised
  <2>3. CASE m # l
    BY <1>6, <1>7, <1>8, <2>1, <2>3 DEF Placed, ByPass, Holder, AtWork, Supervised, Unused
  <2> QED
    BY <2>2, <2>3
<1>10. ASSUME NEW m \in Launch PROVE Counted(m)' /\ Rebased(m)'
  BY <1>5, <1>6 DEF IInv, Counted, Rebased
<1>11. ASSUME NEW u \in Task PROVE Named(u)'
  <2>1. Named(u) /\ \A k \in Launch : job[k].pc # "unused" => job'[k].pc # "unused"
    BY <1>5, <1>6 DEF IInv
  <2> QED
    BY <1>7, <2>1 DEF Named
<1>12. PassPlaced'
  <2>1. PassPlaced /\ \A k \in Launch : job[k].pc # "unused" => job'[k].pc # "unused"
    BY <1>5, <1>6 DEF IInv
  <2> QED
    BY <1>2, <1>3, <1>5, <1>8, <2>1 DEF PassPlaced
<1> QED
  BY <1>9, <1>10, <1>11, <1>12 DEF IInv

LEMMA OthersKeep ==
  ASSUME IInv, TypeOK', MainMoves \/ \E t \in Task : Withdraw(t) \/ Block(t) \/ Redrive(t)
  PROVE  IInv'
<1> USE DispatchAssumption
<1>0. TypeOK
  BY DEF IInv
<1>1. ASSUME MainMoves PROVE IInv'
  <2>1. PICK files \in SUBSET File : job' = Arrive(files, Launch)
    BY <1>1 DEF MainMoves
  <2>2. ASSUME NEW m \in Launch PROVE OnlyArrived(m)
    BY <1>0, <2>1, ArriveEffect DEF TypeOK
  <2>3. UNCHANGED <<task, main, lock, seen, passVars>>
    BY <1>1 DEF MainMoves
  <2>4. ASSUME NEW m \in Launch PROVE Placed(m)'
    <3>1. Placed(m) /\ OnlyArrived(m)
      BY <2>2 DEF IInv
    <3> QED
      BY <2>3, <3>1 DEF Placed, ByPass, Holder, AtWork, Supervised, OnlyArrived
  <2>5. ASSUME NEW m \in Launch PROVE Counted(m)' /\ Rebased(m)'
    <3>1. Counted(m) /\ Rebased(m) /\ OnlyArrived(m)
      BY <2>2 DEF IInv
    <3> QED
      BY <3>1 DEF Counted, Rebased, OnlyArrived
  <2>6. PassPlaced' /\ \A t \in Task : Named(t)'
    <3>1. \A m \in Launch : job'[m].pc = job[m].pc
      BY <2>2 DEF OnlyArrived
    <3> QED
      BY <2>3, <3>1 DEF PassPlaced, IInv, Named
  <2> QED
    BY <2>4, <2>5, <2>6 DEF IInv
<1>2. ASSUME NEW t \in Task, Withdraw(t) \/ Block(t) \/ Redrive(t) PROVE IInv'
  <2>1. UNCHANGED <<job, main, lock, seen, passVars>>
    BY <1>2 DEF Withdraw, Block, Redrive
  <2>2. ASSUME NEW u \in Task
        PROVE  task'[u].flock = task[u].flock /\ task'[u].body = task[u].body
    <3>1. task[t] \in TaskRecord
      BY <1>0 DEF TypeOK
    <3>2. CASE Withdraw(t)
      BY <1>0, <3>1, <3>2 DEF Withdraw, TypeOK, TaskRecord
    <3>3. CASE Block(t)
      BY <1>0, <3>1, <3>3 DEF Block, TypeOK, TaskRecord
    <3>4. CASE Redrive(t)
      BY <1>0, <3>1, <3>4 DEF Redrive, TypeOK, TaskRecord
    <3> QED
      BY <1>2, <3>2, <3>3, <3>4
  <2>3. ASSUME NEW m \in Launch PROVE Placed(m)' /\ Counted(m)' /\ Rebased(m)'
    <3>1. Placed(m) /\ Counted(m) /\ Rebased(m)
      BY <1>0 DEF IInv
    <3>2. job[m].pc # "unused" => job[m].task \in Task
      BY <1>0, <3>1 DEF IInv, TypeOK, Placed, JobRecord
    <3>3. AtWork(m)' = AtWork(m) /\ ByPass(m)' = ByPass(m) /\ Holder(m)' = Holder(m)
      BY <2>1 DEF AtWork, Supervised, ByPass, Holder
    <3>4. AtWork(m) => job[m].pc # "unused"
      BY <3>1 DEF AtWork, Supervised, Placed, ByPass, Unused, Merging
    <3>5. Placed(m)'
      BY <2>1, <2>2, <3>1, <3>2, <3>3, <3>4 DEF Placed
    <3>6. Counted(m)' /\ Rebased(m)'
      BY <2>1, <3>1 DEF Counted, Rebased
    <3> QED
      BY <3>5, <3>6
  <2>4. PassPlaced' /\ \A u \in Task : Named(u)'
    BY <2>1, <2>2 DEF IInv, PassPlaced, Named
  <2> QED
    BY <2>3, <2>4 DEF IInv
<1> QED
  BY <1>1, <1>2

LEMMA Initially == Init => IInv
<1> SUFFICES ASSUME Init PROVE IInv
  OBVIOUS
<1>1. TypeOK
  BY InitType
<1>2. ASSUME NEW l \in Launch PROVE Placed(l) /\ Counted(l) /\ Rebased(l)
  <2>1. job[l] = Unused /\ Unused.pc = "unused" /\ ~Unused.leaving /\ pass = "idle"
    BY DEF Init, Unused
  <2> QED
    BY <2>1 DEF Placed, Counted, Rebased, ByPass, Holder, AtWork, Supervised
<1>3. PassPlaced /\ \A t \in Task : Named(t)
  BY DispatchAssumption DEF Init, PassPlaced, Named, NoBody
<1> QED
  BY <1>1, <1>2, <1>3 DEF IInv

LEMMA Inductive == ASSUME IInv, [Next]_vars PROVE IInv'
<1>1. TypeOK'
  BY NextType
<1>2. CASE UNCHANGED vars
  BY <1>2 DEF vars, IInv, TypeOK, PassPlaced, Placed, Counted, Rebased, Named, ByPass, Holder, AtWork,
              Supervised, Merging
<1>3. CASE PassStep
  BY <1>1, <1>3, PassKeeps1, PassKeeps2, PassKeeps3, ClaimKeeps DEF PassStep
<1>4. ASSUME NEW l \in Launch, SupervisorStep(l) \/ MergeStep(l) PROVE IInv'
  BY <1>1, <1>4, SupervisorKeeps, MergeKeeps1, MergeKeeps2 DEF MergeStep
<1>5. ASSUME NEW l \in Launch, SupervisorDies(l) \/ SessionCompletes(l) \/ OrphanEnds(l) PROVE IInv'
  BY <1>1, <1>5, DeathKeeps
<1>6. CASE PassDie \/ MainMoves \/ \E t \in Task : Withdraw(t) \/ Block(t) \/ Redrive(t)
  BY <1>1, <1>6, PassKeeps3, OthersKeep
<1> QED
  BY <1>2, <1>3, <1>4, <1>5, <1>6 DEF Next

-----------------------------------------------------------------------------
(* The types. *)
THEOREM DispatchTypes == Spec => []TypeOK
<1>1. IInv => TypeOK
  BY DEF IInv
<1> QED
  BY <1>1, Initially, Inductive, PTL DEF Spec

(* dispatch_supervise: "Two supervisors for one worktree is the defect the *)
(* lease exists for." There are never two, whoever dies or is redriven.    *)
THEOREM NeverTwoSupervisors == Spec => []OneSupervisor
<1>1. IInv => OneSupervisor
  BY DEF IInv, Placed, OneSupervisor
<1> QED
  BY <1>1, Initially, Inductive, PTL DEF Spec

LEMMA OnlyLandMovesMain ==
  ASSUME [Next]_vars, NEW l, l \in main' \ main
  PROVE  l \in Launch /\ Land(l)
<1>1. CASE UNCHANGED vars
  BY <1>1 DEF vars
<1>2. CASE PassStep
  BY <1>2 DEF PassStep, PassStart, Reap, Spare, Reaped, Evaluate, PassEnd, Claim, Regate,
              ChecksPass, ChecksFail, Popen, LaunchFails, Sign
<1>3. ASSUME NEW m \in Launch, SupervisorStep(m) PROVE main' = main
  BY <1>3 DEF SupervisorStep, Enter, EnterAs, Refused, SessionEnds, LeaveUnfinished, Exit
<1>4. ASSUME NEW m \in Launch, MergeStep(m), ~Land(m) PROVE main' = main
  BY <1>4 DEF MergeStep, Fork, Refuse, GateGreen, GateRed, Retry, AnotherRound, ReadMerged,
              FinishMerged, ReadFinish, Finish, FinishAs, Requeue
<1>5. ASSUME NEW m \in Launch, Land(m) PROVE l = m
  BY <1>5 DEF Land, FastForward
<1>6. ASSUME NEW m \in Launch, SupervisorDies(m) \/ SessionCompletes(m) \/ OrphanEnds(m)
      PROVE  main' = main
  BY <1>6 DEF SupervisorDies, SessionCompletes, OrphanEnds
<1>7. ASSUME PassDie \/ MainMoves \/ \E t \in Task : Withdraw(t) \/ Block(t) \/ Redrive(t)
      PROVE  main' = main
  BY <1>7 DEF PassDie, MainMoves, Withdraw, Block, Redrive
<1> QED
  BY <1>1, <1>2, <1>3, <1>4, <1>5, <1>6, <1>7 DEF Next

(* _merge and regate: for any number of rounds and of launches, nothing    *)
(* lands on files that main changed under it unchecked.                    *)
THEOREM NothingLandsUnchecked == Spec => GatedOrChecked
<1>1. ASSUME IInv, [Next]_vars, NEW l \in main' \ main
      PROVE  job[l].unchecked \cap job[l].writes = {}
  <2>1. l \in Launch /\ Land(l)
    BY <1>1, OnlyLandMovesMain
  <2>2. job[l].pc = "ready" /\ job[l].arrived = {}
    BY <2>1 DEF Land, FastForward
  <2> QED
    BY <1>1, <2>1, <2>2 DEF IInv, Rebased
<1>2. IInv /\ [Next]_vars => [\A l \in main' \ main : job[l].unchecked \cap job[l].writes = {}]_vars
  BY <1>1
<1> QED
  BY <1>2, Initially, Inductive, PTL DEF Spec, GatedOrChecked

-----------------------------------------------------------------------------
(* A task is completed only by what may complete it. *)
CompletedTrue(t) ==
  (task[t].state # "completed" /\ task'[t].state = "completed") =>
    \E l \in Launch : job[l].task = t /\ (job[l].child \/ l \in main)

LEMMA StateMoves ==
  ASSUME IInv, [Next]_vars, NEW t \in Task
  PROVE  CompletedTrue(t)
<1>0. task[t] \in TaskRecord /\ task \in [Task -> TaskRecord]
  BY DEF IInv, TypeOK
<1>1. CASE task' = task
  BY <1>1 DEF CompletedTrue
<1>2. UNCHANGED vars \/ PassDie \/ MainMoves \/ PassStart \/ Reaped \/ Evaluate \/ PassEnd => task' = task
  BY DEF vars, PassDie, MainMoves, PassStart, Reaped, Evaluate, PassEnd
<1>3. ASSUME NEW u \in Task, Withdraw(u) \/ Block(u) \/ Redrive(u) \/ Reap(u) \/ Spare(u) \/ Claim(u)
      PROVE  CompletedTrue(t)
  <2>1. \/ task'[t].state = task[t].state
        \/ task'[t].state \in {"withdrawn", "blocked", "accepted", "in_progress"}
    <3>1. Spare(u) => task'[t].state = task[t].state
      BY DEF Spare
    <3>2. Withdraw(u) => task'[t].state \in {task[t].state, "withdrawn"}
      BY <1>0 DEF Withdraw, TaskRecord
    <3>3. Block(u) => task'[t].state \in {task[t].state, "blocked"}
      BY <1>0 DEF Block, TaskRecord
    <3>4. Redrive(u) => task'[t].state \in {task[t].state, "accepted"}
      BY <1>0 DEF Redrive, TaskRecord
    <3>5. Reap(u) => task'[t].state \in {task[t].state, "blocked"}
      BY <1>0 DEF Reap, TaskRecord
    <3>6. Claim(u) => task'[t].state \in {task[t].state, "in_progress"}
      BY <1>0 DEF Claim, TaskRecord
    <3> QED
      BY <1>3, <3>1, <3>2, <3>3, <3>4, <3>5, <3>6
  <2> QED
    BY <2>1 DEF CompletedTrue
<1>4. ASSUME NEW l \in Launch,
             \/ Regate(l) \/ ChecksFail(l) \/ Popen(l) \/ LaunchFails(l) \/ Refused(l) \/ SessionEnds(l)
             \/ LeaveUnfinished(l) \/ OrphanEnds(l) \/ Fork(l) \/ Refuse(l) \/ GateGreen(l) \/ GateRed(l)
             \/ Retry(l) \/ Land(l) \/ ReadMerged(l)
      PROVE  task' = task
  BY <1>4 DEF Regate, ChecksFail, Popen, LaunchFails, Refused, SessionEnds, LeaveUnfinished, OrphanEnds,
              Fork, Refuse, GateGreen, GateRed, Retry, AnotherRound, Land, FastForward, ReadMerged
<1>5. ASSUME NEW l \in Launch,
             \/ ChecksPass(l) \/ Sign(l) \/ Enter(l) \/ Exit(l) \/ SupervisorDies(l) \/ ReadFinish(l)
             \/ Finish(l) \/ Requeue(l)
      PROVE  CompletedTrue(t)
  <2>1. ChecksPass(l) => task'[t].state \in {task[t].state, "in_progress"}
    BY <1>0 DEF ChecksPass, TaskRecord
  <2>2. Sign(l) => task'[t].state = task[t].state
    BY <1>0 DEF Sign, TaskRecord
  <2>3. Enter(l) => task'[t].state = task[t].state
    BY <1>0 DEF Enter, EnterAs, TaskRecord
  <2>4. Exit(l) => task'[t].state = task[t].state
    BY <1>0 DEF Exit, TaskRecord
  <2>5. SupervisorDies(l) => task'[t].state = task[t].state
    BY <1>0 DEF SupervisorDies, TaskRecord
  <2>6. ReadFinish(l) => task'[t].state = task[t].state
    BY <1>0 DEF ReadFinish, TaskRecord
  <2>7. Finish(l) => task'[t].state \in {task[t].state, "blocked"}
    BY <1>0 DEF Finish, FinishAs, BlockedFrom, TaskRecord
  <2>8. Requeue(l) => task'[t].state \in {task[t].state, "accepted"}
    <3>1. ASSUME task' = [task EXCEPT ![job[l].task] =
                            [@ EXCEPT !.state = "accepted", !.claimed = FALSE]]
          PROVE  task'[t].state \in {task[t].state, "accepted"}
      <4>1. CASE t = job[l].task
        <5>1. task'[t] = [task[t] EXCEPT !.state = "accepted", !.claimed = FALSE]
          BY <1>0, <3>1, <4>1
        <5> QED
          BY <1>0, <5>1 DEF TaskRecord
      <4>2. CASE t # job[l].task
        BY <1>0, <3>1, <4>2
      <4> QED
        BY <4>1, <4>2
    <3>2. Requeue(l) => \/ task' = task
                        \/ task' = [task EXCEPT ![job[l].task] =
                                      [@ EXCEPT !.state = "accepted", !.claimed = FALSE]]
      BY DEF Requeue
    <3> QED
      BY <3>1, <3>2
  <2>9. task'[t].state \in {task[t].state, "in_progress", "blocked", "accepted"}
    BY <1>5, <2>1, <2>2, <2>3, <2>4, <2>5, <2>6, <2>7, <2>8
  <2> QED
    BY <2>9 DEF CompletedTrue
<1>6. ASSUME NEW l \in Launch, SessionCompletes(l) PROVE CompletedTrue(t)
  BY <1>0, <1>6 DEF SessionCompletes, CompletedTrue, TaskRecord
<1>7. ASSUME NEW l \in Launch, FinishMerged(l) PROVE CompletedTrue(t)
  <2>1. l \in main
    BY <1>7 DEF FinishMerged, IInv, Placed
  <2>2. task'[t] = task[t] \/ job[l].task = t
    BY <1>0, <1>7 DEF FinishMerged
  <2> QED
    BY <2>1, <2>2 DEF CompletedTrue
<1> QED
  BY <1>1, <1>2, <1>3, <1>4, <1>5, <1>6, <1>7 DEF Next, PassStep, SupervisorStep, MergeStep

-----------------------------------------------------------------------------
Finishing == {"landed", "failing", "refused", "requeue"}

(* A state that was read is used by who read it, and has the lease still.  *)
SInv == seen # None => \E l \in Launch : lock = Holder(l) /\ job[l].pc \in Finishing

LEMMA HoldersDiffer ==
  ASSUME NEW l \in Launch, NEW m \in Launch, Holder(l) = Holder(m)
  PROVE  l = m
BY DispatchAssumption DEF Holder, ByPass

LEMMA ReaderFinishes ==
  ASSUME SInv, NEW l \in Launch, HasRead(l)
  PROVE  job[l].pc \in Finishing
BY HoldersDiffer DEF SInv, HasRead

(* Whoever may take the lease, or has it for something else, has read      *)
(* nothing, and nobody else has.                                           *)
LEMMA NothingRead ==
  ASSUME IInv, SInv
  PROVE  /\ lock = None => seen = None
         /\ pass \notin {"idle", "mend", "unlaunched"} => seen = None
         /\ \A l \in Launch : lock = Holder(l) /\ job[l].pc \notin Finishing => seen = None
<1>1. \A l \in Launch : Holder(l) # None
  BY DispatchAssumption DEF Holder
<1>2. \A l \in Launch : Holder(l) = Pass => pass \in {"mend", "unlaunched"}
  BY DispatchAssumption DEF Holder, ByPass
<1>3. pass # "idle" => lock = Pass
  BY DEF IInv, PassPlaced
<1>4. \A l \in Launch : lock = Holder(l) /\ job[l].pc \notin Finishing => seen = None
  BY ReaderFinishes DEF HasRead
<1> QED
  BY <1>1, <1>2, <1>3, <1>4 DEF SInv

(* The two halves of an older reading: the pass's, and a finish's. *)
PassOpen(t) ==
  \/ pass = "reap" /\ found[t].launch # None
  \/ pass \in {"regate", "mend"} /\ \E l \in todo : job[l].task = t
  \/ pass \in {"launch", "claimed", "unlaunched", "sign"} /\ t \in todo

LaunchOpen(l, t) ==
  /\ job[l].task = t
  /\ \/ job[l].pc \in {"checking", "requeue"}
     \/ job[l].pc \in {"landed", "failing", "refused"} /\ HasRead(l) /\ seen = "in_progress"

LEMMA OpenParts ==
  ASSUME NEW t \in Task
  PROVE  /\ ReadOpen(t) <=> (PassOpen(t) \/ \E l \in Launch : LaunchOpen(l, t))
         /\ ReadOpen(t)' <=> (PassOpen(t)' \/ \E l \in Launch : LaunchOpen(l, t)')
BY DEF ReadOpen, PassOpen, LaunchOpen

(* A step of somebody who has not the lease reads nothing. *)
LEMMA QuietStep ==
  ASSUME IInv, SInv, NEW t \in Task, ~ReadOpen(t), UNCHANGED <<lock, seen, passVars>>,
         \A m \in Launch :
           /\ job'[m].task = job[m].task
           /\ \/ job'[m].pc = job[m].pc
              \/ job[m].pc \notin Finishing /\ job'[m].pc \notin {"checking", "requeue"}
              \/ job'[m].pc \notin Finishing \cup {"checking"}
  PROVE  ~ReadOpen(t)'
<1>1. ~PassOpen(t)'
  <2>1. pass \in {"regate", "mend"} => todo \subseteq Launch
    BY DEF IInv, PassPlaced
  <2>2. ~PassOpen(t)
    BY OpenParts
  <2> QED
    BY <2>1, <2>2 DEF PassOpen
<1>2. ASSUME NEW m \in Launch PROVE ~LaunchOpen(m, t)'
  <2>1. ~LaunchOpen(m, t)
    BY OpenParts
  <2>2. HasRead(m)' = HasRead(m)
    BY DEF HasRead, Holder, ByPass
  <2>3. HasRead(m) => job[m].pc \in Finishing
    BY ReaderFinishes
  <2> QED
    BY <2>1, <2>2, <2>3 DEF LaunchOpen, Finishing
<1> QED
  BY <1>1, <1>2, OpenParts

(* Nor does one after which nobody has read anything. *)
LEMMA UnreadStep ==
  ASSUME NEW t \in Task, ~ReadOpen(t), seen' = None, ~PassOpen(t)',
         \A m \in Launch :
           (job'[m].pc \in {"checking", "requeue"} /\ job'[m].task = t)
             => job[m].pc \in {"checking", "requeue"} /\ job[m].task = t
  PROVE  ~ReadOpen(t)'
<1>1. ASSUME NEW m \in Launch PROVE ~LaunchOpen(m, t)'
  <2>1. ~LaunchOpen(m, t)
    BY OpenParts
  <2>2. ~HasRead(m)'
    BY DEF HasRead
  <2> QED
    BY <2>1, <2>2 DEF LaunchOpen
<1> QED
  BY <1>1, OpenParts

(* What a withdrawal nobody read around is after a step. *)
Stands(t) == task'[t].state = "withdrawn" /\ ~ReadOpen(t)'

LEMMA PassStands ==
  ASSUME IInv, SInv, NEW t \in Task, task[t].state = "withdrawn", ~ReadOpen(t), PassStep
  PROVE  Stands(t)
<1>0. /\ task[t] \in TaskRecord /\ task \in [Task -> TaskRecord]
      /\ job \in [Launch -> JobRecord] /\ found \in [Task -> Body]
      /\ PassPlaced /\ ~PassOpen(t) /\ \A m \in Launch : ~LaunchOpen(m, t)
  BY OpenParts DEF IInv, TypeOK
<1>1. CASE PassStart
  <2>1. seen' = None
    BY <1>1, NothingRead DEF PassStart
  <2>2. ~PassOpen(t)'
    BY <1>0, <1>1 DEF PassStart, PassOpen, InFlight, NoBody
  <2> QED
    BY <1>1, <2>1, <2>2, UnreadStep DEF PassStart, Stands
<1>2. ASSUME NEW u \in Task, Reap(u) PROVE Stands(t)
  <2>1. pass = "reap" /\ u # t /\ found[u].launch \in Launch
    BY <1>0, <1>2 DEF Reap, Stale, PassOpen, Body
  <2>2. seen' = None /\ ~PassOpen(t)'
    BY <1>0, <1>2, <2>1, NothingRead DEF Reap, PassOpen
  <2>3. Over(found[u].launch).pc = "gone" /\ Over(found[u].launch) \in JobRecord
    BY <1>0, <2>1, OverType
  <2>4. job'[found[u].launch].pc = "gone"
    BY <1>0, <1>2, <2>1, <2>3 DEF Reap, JobRecord
  <2>5. \A m \in Launch \ {found[u].launch} : job'[m] = job[m]
    BY <1>0, <1>2 DEF Reap
  <2>6. ~ReadOpen(t)'
    BY <2>2, <2>4, <2>5, UnreadStep
  <2> QED
    BY <1>0, <1>2, <2>1, <2>6 DEF Reap, Stands
<1>3. ASSUME NEW u \in Task, Spare(u) PROVE Stands(t)
  <2>1. pass = "reap" /\ seen' = None /\ UNCHANGED <<task, job, pass>>
    BY <1>3, NothingRead DEF Spare
  <2>2. ~PassOpen(t)'
    BY <1>0, <1>3, <2>1 DEF Spare, PassOpen, NoBody
  <2> QED
    BY <2>1, <2>2, UnreadStep DEF Stands
<1>4. CASE Reaped
  <2>1. pass = "reap" /\ seen' = None /\ UNCHANGED <<task, job>>
    BY <1>4, NothingRead DEF Reaped
  <2>2. ~PassOpen(t)'
    BY <1>4 DEF Reaped, PassOpen, KeptForRegate
  <2> QED
    BY <2>1, <2>2, UnreadStep DEF Stands
<1>5. ASSUME NEW l \in Launch, Regate(l) PROVE Stands(t)
  <2>1. pass = "regate" /\ seen' = None /\ UNCHANGED task /\ job[l].task # t
    BY <1>0, <1>5, NothingRead DEF Regate, PassOpen
  <2>2. /\ \A m \in Launch : job'[m].task = job[m].task
        /\ \A m \in Launch \ {l} : job'[m] = job[m]
        /\ todo' \subseteq todo /\ pass' \in {"regate", "mend"} /\ todo \subseteq Launch
    <3>1. CASE UNCHANGED <<job, pass, now>>
      BY <1>0, <1>5, <2>1, <3>1 DEF Regate, PassPlaced
    <3>2. CASE job' = [job EXCEPT ![l].failed = TRUE] /\ UNCHANGED <<pass, now>>
      BY <1>0, <1>5, <2>1, <3>2 DEF Regate, PassPlaced, JobRecord
    <3>3. CASE /\ job' = [job EXCEPT ![l] = [@ EXCEPT !.arrived = {}, !.pc = "checking"]]
               /\ pass' = "mend" /\ now' = l
      BY <1>0, <1>5, <2>1, <3>3 DEF Regate, PassPlaced, JobRecord
    <3> QED
      BY <1>5, <3>1, <3>2, <3>3 DEF Regate
  <2>3. ~PassOpen(t)'
    BY <1>0, <2>1, <2>2 DEF PassOpen
  <2> QED
    BY <1>0, <2>1, <2>2, <2>3, UnreadStep DEF Stands
<1>6. ASSUME NEW l \in Launch, ChecksPass(l) PROVE Stands(t)
  <2>1. job[l].task # t /\ job[l].pc = "checking"
    BY <1>0, <1>6 DEF ChecksPass, LaunchOpen
  <2>2. /\ job'[l].pc = "fork" /\ job'[l].task = job[l].task
        /\ \A m \in Launch \ {l} : job'[m] = job[m]
    BY <1>0, <1>6 DEF ChecksPass, JobRecord
  <2>3. ~ReadOpen(t)'
    BY <1>6, <2>1, <2>2, QuietStep DEF ChecksPass, Finishing
  <2> QED
    BY <1>0, <1>6, <2>1, <2>3 DEF ChecksPass, Stands
<1>7. ASSUME NEW l \in Launch, ChecksFail(l) PROVE Stands(t)
  <2>1. pass = "mend" /\ lock = Holder(l) /\ job[l].pc = "checking"
    <3>1. ByPass(l) /\ job[l].pc = "checking"
      BY <1>7 DEF ChecksFail
    <3>2. job[l].pc \in Merging \cup {"checking"} /\ lock = Pass
      BY <1>0, <3>1 DEF IInv, Placed, PassPlaced, ByPass
    <3>3. pass = "mend"
      BY <1>0, <3>1 DEF PassPlaced, ByPass
    <3> QED
      BY <3>1, <3>2, <3>3 DEF Holder
  <2>2. seen' = None
    BY <1>7, <2>1, NothingRead DEF ChecksFail, Finishing
  <2>3. /\ job'[l].pc = "gone" /\ \A m \in Launch : job'[m].task = job[m].task
        /\ \A m \in Launch \ {l} : job'[m] = job[m]
    BY <1>0, <1>7 DEF ChecksFail, JobRecord
  <2>4. ~PassOpen(t)'
    BY <1>0, <1>7, <2>1, <2>3 DEF ChecksFail, PassOpen, PassPlaced
  <2>5. ~ReadOpen(t)'
    BY <2>2, <2>3, <2>4, UnreadStep
  <2> QED
    BY <1>7, <2>5 DEF ChecksFail, Stands
<1>8. CASE Evaluate \/ PassEnd
  <2>1. pass \in {"regate", "launch"} /\ UNCHANGED <<task, job, seen>>
    BY <1>8 DEF Evaluate, PassEnd
  <2>2. ~PassOpen(t)'
    BY <1>8 DEF Evaluate, PassEnd, PassOpen
  <2>3. seen' = None
    BY <2>1, NothingRead
  <2> QED
    BY <2>1, <2>2, <2>3, UnreadStep DEF Stands
<1>9. ASSUME NEW u \in Task, Claim(u) PROVE Stands(t)
  <2>1. pass = "launch" /\ t \notin todo /\ u # t /\ seen' = None
    BY <1>0, <1>9, NothingRead DEF Claim, PassOpen
  <2>2. PICK l \in Fresh : job' = [job EXCEPT ![l] = [@ EXCEPT !.task = u, !.pc = "claimed"]]
    BY <1>9 DEF Claim
  <2>3. job'[l].pc = "claimed" /\ \A m \in Launch \ {l} : job'[m] = job[m]
    BY <1>0, <2>2 DEF Fresh, JobRecord
  <2>4. ~PassOpen(t)'
    BY <1>9, <2>1 DEF Claim, PassOpen
  <2>5. ~ReadOpen(t)'
    BY <2>1, <2>3, <2>4, UnreadStep
  <2> QED
    BY <1>0, <1>9, <2>1, <2>5 DEF Claim, Stands
<1>10. ASSUME NEW l \in Launch, Popen(l) \/ LaunchFails(l) \/ Sign(l) PROVE Stands(t)
  <2>1. pass \in {"claimed", "sign"} /\ t \notin todo /\ seen' = None
    BY <1>0, <1>10, NothingRead DEF Popen, LaunchFails, Sign, PassOpen
  <2>2. ~PassOpen(t)'
    BY <1>10, <2>1 DEF Popen, LaunchFails, Sign, PassOpen
  <2>3. \A m \in Launch : job'[m].pc \in {job[m].pc, "starting", "refused"} /\ job'[m].task = job[m].task
    <3>1. CASE Popen(l)
      BY <1>0, <3>1 DEF Popen, JobRecord
    <3>2. CASE LaunchFails(l)
      BY <1>0, <3>2 DEF LaunchFails, JobRecord
    <3>3. CASE Sign(l)
      BY <3>3 DEF Sign
    <3> QED
      BY <1>10, <3>1, <3>2, <3>3
  <2>4. ~ReadOpen(t)'
    BY <2>1, <2>2, <2>3, UnreadStep
  <2>5. task'[t].state = "withdrawn"
    <3>1. Sign(l) => task'[t].state = "withdrawn"
      BY <1>0 DEF Sign, TaskRecord
    <3> QED
      BY <1>10, <3>1 DEF Popen, LaunchFails
  <2> QED
    BY <2>4, <2>5 DEF Stands
<1> QED
  BY <1>1, <1>2, <1>3, <1>4, <1>5, <1>6, <1>7, <1>8, <1>9, <1>10 DEF PassStep

LEMMA LeaveStands ==
  ASSUME IInv, NEW t \in Task, ~ReadOpen(t), NEW l \in Launch, NEW kept \in BOOLEAN,
         Leave(l, kept), UNCHANGED <<found, todo>>
  PROVE  ~ReadOpen(t)'
<1>0. /\ job \in [Launch -> JobRecord] /\ ~PassOpen(t) /\ PassPlaced
      /\ Over(l) \in JobRecord /\ Over(l).pc = "gone" /\ Over(l).task = job[l].task
  BY OverType, OpenParts DEF IInv, TypeOK
<1> DEFINE left == IF kept THEN [job[l] EXCEPT !.pc = "gone"] ELSE Over(l)
<1>1. left \in JobRecord /\ left.pc = "gone" /\ left.task = job[l].task
  BY <1>0 DEF JobRecord
<1>2. job' = [job EXCEPT ![l] = [left EXCEPT !.leaving = job[l].leaving \/ ~ByPass(l)]]
  BY DEF Leave
<1>3. job'[l].pc = "gone" /\ job'[l].task = job[l].task
  <2> HIDE DEF left
  <2> QED
    BY <1>0, <1>1, <1>2 DEF JobRecord
<1>4. \A m \in Launch \ {l} : job'[m] = job[m]
  BY <1>0, <1>2
<1>5. \/ pass' = pass
      \/ pass = "mend" /\ pass' = "regate"
      \/ pass = "unlaunched" /\ pass' = "launch"
  BY DEF Leave, ByPass
<1>6. pass \in {"regate", "mend"} => todo \subseteq Launch
  BY <1>0 DEF PassPlaced
<1>7. ~PassOpen(t)'
  BY <1>0, <1>3, <1>4, <1>5, <1>6 DEF PassOpen
<1>8. seen' = None
  BY DEF Leave
<1> QED
  BY <1>3, <1>4, <1>7, <1>8, UnreadStep

LEMMA FinishStands ==
  ASSUME IInv, SInv, NEW t \in Task, task[t].state = "withdrawn", ~ReadOpen(t), NEW l \in Launch,
         \/ ReadMerged(l) \/ FinishMerged(l) \/ ReadFinish(l) \/ Finish(l) \/ Requeue(l)
  PROVE  Stands(t)
<1>0. /\ task[t] \in TaskRecord /\ task \in [Task -> TaskRecord]
      /\ job \in [Launch -> JobRecord] /\ job[l] \in JobRecord
      /\ ~PassOpen(t) /\ \A m \in Launch : ~LaunchOpen(m, t)
      /\ Placed(l) /\ PassPlaced
  BY OpenParts DEF IInv, TypeOK
<1>1. ASSUME ReadMerged(l) \/ ReadFinish(l) PROVE Stands(t)
  <2>1. /\ UNCHANGED <<job, passVars>> /\ lock' = Holder(l) /\ seen' = task[job[l].task].state
        /\ job[l].pc # "unused"
    <3>1. ReadMerged(l) => lock = Holder(l)
      BY <1>0 DEF ReadMerged, Placed
    <3> QED
      BY <1>1, <3>1 DEF ReadMerged, ReadFinish
  <2>2. ASSUME NEW m \in Launch PROVE ~LaunchOpen(m, t)'
    <3>1. Holder(m)' = Holder(m)
      BY <2>1 DEF Holder, ByPass
    <3>2. HasRead(m)' => m = l
      BY <2>1, <3>1, HoldersDiffer DEF HasRead
    <3> QED
      BY <1>0, <2>1, <3>2 DEF LaunchOpen
  <2>3. pass \in {"regate", "mend"} => todo \subseteq Launch
    BY <1>0 DEF PassPlaced
  <2>4. ~PassOpen(t)'
    BY <1>0, <2>1, <2>3 DEF PassOpen
  <2>5. task'[t].state = "withdrawn"
    <3>1. ReadFinish(l) => task'[t].state = task[t].state
      BY <1>0 DEF ReadFinish, TaskRecord
    <3> QED
      BY <1>1, <3>1 DEF ReadMerged
  <2> QED
    BY <2>2, <2>4, <2>5, OpenParts DEF Stands
<1>2. ASSUME FinishMerged(l) PROVE Stands(t)
  <2>1. HasRead(l) /\ job[l].pc = "landed"
    BY <1>0, <1>2 DEF FinishMerged, HasRead, Placed
  <2>2. job[l].task = t => seen # "in_progress"
    BY <1>0, <2>1 DEF LaunchOpen
  <2>3. PICK after : task' = [task EXCEPT ![job[l].task] = [@ EXCEPT !.last = l,
                                !.state = IF seen = "in_progress" THEN after ELSE task[job[l].task].state]]
    BY <1>2 DEF FinishMerged
  <2>4. task'[t].state = "withdrawn"
    <3>1. CASE job[l].task = t
      BY <1>0, <2>2, <2>3, <3>1 DEF TaskRecord
    <3>2. CASE job[l].task # t
      BY <1>0, <2>3, <3>2
    <3> QED
      BY <3>1, <3>2
  <2>5. ~ReadOpen(t)'
    BY <1>2, LeaveStands DEF FinishMerged
  <2> QED
    BY <2>4, <2>5 DEF Stands
<1>3. ASSUME Finish(l) PROVE Stands(t)
  <2>1. HasRead(l) /\ job[l].pc \in {"failing", "refused"}
    BY <1>3 DEF Finish, FinishAs
  <2>2. job[l].task = t => seen # "in_progress"
    BY <1>0, <2>1 DEF LaunchOpen
  <2>3. task'[t].state = "withdrawn"
    <3>1. CASE job[l].task = t
      BY <1>0, <1>3, <2>2, <3>1 DEF Finish, FinishAs, BlockedFrom, TaskRecord
    <3>2. CASE job[l].task # t
      BY <1>0, <1>3, <3>2 DEF Finish, FinishAs
    <3> QED
      BY <3>1, <3>2
  <2>4. ~ReadOpen(t)'
    <3>1. CASE \E kept \in BOOLEAN : Leave(l, kept)
      BY <1>3, <3>1, LeaveStands DEF Finish, FinishAs
    <3>2. CASE /\ BlockedFrom(seen, job[l].task) = "blocked"
               /\ job' = [job EXCEPT ![l].pc = "requeue"] /\ UNCHANGED <<lock, seen, pass, now>>
      <4>1. job[l].task # t
        BY <2>2, <3>2 DEF BlockedFrom
      <4>2. UNCHANGED <<found, todo>>
        BY <1>3 DEF Finish, FinishAs
      <4>3. /\ \A m \in Launch : job'[m].task = job[m].task
            /\ \A m \in Launch \ {l} : job'[m] = job[m]
        BY <1>0, <3>2 DEF JobRecord
      <4>4. pass \in {"regate", "mend"} => todo \subseteq Launch
        BY <1>0 DEF PassPlaced
      <4>5. ~PassOpen(t)'
        BY <1>0, <3>2, <4>2, <4>3, <4>4 DEF PassOpen
      <4>6. ASSUME NEW m \in Launch PROVE ~LaunchOpen(m, t)'
        <5>1. HasRead(m)' = HasRead(m)
          BY <3>2 DEF HasRead, Holder, ByPass
        <5> QED
          BY <1>0, <3>2, <4>1, <4>3, <5>1 DEF LaunchOpen
      <4> QED
        BY <4>5, <4>6, OpenParts
    <3> QED
      BY <1>3, <3>1, <3>2 DEF Finish, FinishAs
  <2> QED
    BY <2>3, <2>4 DEF Stands
<1>4. ASSUME Requeue(l) PROVE Stands(t)
  <2>1. job[l].task # t
    BY <1>0, <1>4 DEF Requeue, LaunchOpen
  <2>2. task'[t].state = "withdrawn"
    BY <1>0, <1>4, <2>1 DEF Requeue
  <2>3. ~ReadOpen(t)'
    BY <1>4, LeaveStands DEF Requeue
  <2> QED
    BY <2>2, <2>3 DEF Stands
<1> QED
  BY <1>1, <1>2, <1>3, <1>4

LEMMA MergeStands ==
  ASSUME IInv, SInv, NEW t \in Task, task[t].state = "withdrawn", ~ReadOpen(t), NEW l \in Launch,
         Fork(l) \/ Refuse(l) \/ GateGreen(l) \/ GateRed(l) \/ Retry(l) \/ Land(l)
  PROVE  Stands(t)
<1>0. /\ job \in [Launch -> JobRecord] /\ job[l] \in JobRecord /\ PassPlaced /\ Placed(l)
  BY DEF IInv, TypeOK
<1>1. CASE Fork(l) \/ Refuse(l) \/ GateGreen(l) \/ GateRed(l) \/ Retry(l)
  <2>1. UNCHANGED <<task, lock, seen, passVars>> /\ job[l].pc \in {"fork", "ready", "gating"}
    BY <1>1 DEF Fork, Refuse, GateGreen, GateRed, Retry, AnotherRound
  <2> DEFINE Moved == /\ job'[l].task = job[l].task
                      /\ job'[l].pc \in {"refused", "gating", "ready", "fork"}
                      /\ \A m \in Launch \ {l} : job'[m] = job[m]
  <2>2. Moved
    <3>1. Fork(l) => Moved
      <4>1. CASE job' = [job EXCEPT ![l].pc = "refused"]
        BY <1>0, <4>1 DEF JobRecord
      <4>2. ASSUME NEW p \in {"gating", "ready"},
                   job' = [job EXCEPT ![l] = [@ EXCEPT !.arrived = {}, !.attempts = job[l].attempts + 1,
                                                       !.pc = p]]
            PROVE  Moved
        BY <1>0, <4>2 DEF JobRecord
      <4> QED
        BY <4>1, <4>2 DEF Fork
    <3>2. Refuse(l) => Moved
      BY <1>0 DEF Refuse, JobRecord
    <3>3. GateGreen(l) => Moved
      BY <1>0 DEF GateGreen, JobRecord
    <3>4. GateRed(l) => Moved
      BY <1>0 DEF GateRed, JobRecord
    <3>5. Retry(l) => Moved
      BY <1>0 DEF Retry, AnotherRound, JobRecord
    <3> QED
      BY <1>1, <3>1, <3>2, <3>3, <3>4, <3>5
  <2>3. ~ReadOpen(t)'
    <3>1. ASSUME NEW m \in Launch
          PROVE  /\ job'[m].task = job[m].task
                 /\ \/ job'[m].pc = job[m].pc
                    \/ job[m].pc \notin Finishing /\ job'[m].pc \notin {"checking", "requeue"}
      BY <2>1, <2>2 DEF Finishing
    <3> QED
      BY <2>1, <3>1, QuietStep
  <2> QED
    BY <2>1, <2>3 DEF Stands
<1>2. CASE Land(l)
  <2>1. /\ UNCHANGED <<task, seen, passVars>> /\ job[l].pc = "ready" /\ LeaseFor(l)
        /\ job' = [Arrive(job[l].writes, Launch \ {l}) EXCEPT ![l].pc = "landed"]
    BY <1>2 DEF Land, FastForward
  <2>2. job[l].writes \in SUBSET File
    BY <1>0, DispatchAssumption DEF JobRecord
  <2>3. seen' = None
    <3>1. lock = None \/ lock = Holder(l)
      BY <2>1 DEF LeaseFor, Holder
    <3> QED
      BY <2>1, <3>1, NothingRead DEF Finishing
  <2> DEFINE others == Arrive(job[l].writes, Launch \ {l})
  <2>4. others \in [Launch -> JobRecord] /\ others[l] = job[l]
    BY <1>0, <2>2, ArriveType DEF Arrive
  <2>5. job'[l].pc = "landed" /\ job'[l].task = job[l].task
    <3>1. job' = [others EXCEPT ![l].pc = "landed"]
      BY <2>1
    <3> HIDE DEF others
    <3> QED
      BY <1>0, <2>4, <3>1 DEF JobRecord
  <2>6. ASSUME NEW m \in Launch \ {l} PROVE job'[m].pc = job[m].pc /\ job'[m].task = job[m].task
    <3>1. job'[m] = others[m]
      <4>1. job' = [others EXCEPT ![l].pc = "landed"]
        BY <2>1
      <4> HIDE DEF others
      <4> QED
        BY <2>4, <4>1
    <3>2. OnlyArrived(m)
      BY <1>0, <2>2, <3>1, ArriveEffect
    <3> QED
      BY <3>2 DEF OnlyArrived
  <2>7. pass \in {"regate", "mend"} => todo \subseteq Launch
    BY <1>0 DEF PassPlaced
  <2>8. ~PassOpen(t)'
    <3>1. ~PassOpen(t)
      BY OpenParts
    <3>2. \A m \in Launch : job'[m].task = job[m].task
      BY <2>5, <2>6
    <3> QED
      BY <2>1, <2>7, <3>1, <3>2 DEF PassOpen
  <2>9. ~ReadOpen(t)'
    BY <2>3, <2>5, <2>6, <2>8, UnreadStep
  <2> QED
    BY <2>1, <2>9 DEF Stands
<1> QED
  BY <1>1, <1>2

LEMMA OthersStand ==
  ASSUME IInv, SInv, NEW t \in Task, task[t].state = "withdrawn", ~ReadOpen(t),
         \/ UNCHANGED vars \/ PassDie \/ MainMoves
         \/ \E u \in Task : Withdraw(u) \/ Block(u) \/ Redrive(u)
         \/ \E l \in Launch : SupervisorStep(l) \/ SupervisorDies(l) \/ SessionCompletes(l) \/ OrphanEnds(l)
  PROVE  Stands(t)
<1>0. /\ task[t] \in TaskRecord /\ task \in [Task -> TaskRecord]
      /\ job \in [Launch -> JobRecord] /\ PassPlaced
      /\ \A m \in Launch : Over(m) \in JobRecord /\ Over(m).pc = "gone" /\ Over(m).task = job[m].task
  BY OverType DEF IInv, TypeOK
<1>1. CASE UNCHANGED vars
  BY <1>1, QuietStep DEF vars, Stands
<1>2. CASE PassDie
  <2>1. seen' = None /\ UNCHANGED task /\ ~PassOpen(t)'
    BY <1>2 DEF PassDie, PassOpen
  <2>2. \A m \in Launch : job'[m].task = job[m].task /\ job'[m].pc \in {job[m].pc, "gone"}
    BY <1>0, <1>2 DEF PassDie, JobRecord
  <2> QED
    BY <2>1, <2>2, UnreadStep DEF Stands
<1>3. CASE MainMoves
  <2>1. PICK files \in SUBSET File : job' = Arrive(files, Launch)
    BY <1>3 DEF MainMoves
  <2>2. ASSUME NEW m \in Launch PROVE job'[m].task = job[m].task /\ job'[m].pc = job[m].pc
    <3>1. OnlyArrived(m)
      BY <1>0, <2>1, ArriveEffect
    <3> QED
      BY <3>1 DEF OnlyArrived
  <2>3. UNCHANGED <<task, lock, seen, passVars>>
    BY <1>3 DEF MainMoves
  <2> QED
    BY <2>2, <2>3, QuietStep DEF Stands
<1>4. ASSUME NEW u \in Task, Withdraw(u) \/ Block(u) \/ Redrive(u) PROVE Stands(t)
  <2>1. UNCHANGED <<job, lock, seen, passVars>>
    BY <1>4 DEF Withdraw, Block, Redrive
  <2>2. ~ReadOpen(t)'
    BY <2>1, QuietStep
  <2>3. Withdraw(u) => task'[t].state = "withdrawn"
    BY <1>0 DEF Withdraw, TaskRecord
  <2>4. Block(u) => task'[t].state = "withdrawn"
    BY <1>0 DEF Block, TaskRecord
  <2>5. Redrive(u) => task'[t].state = "withdrawn"
    BY <1>0 DEF Redrive, TaskRecord
  <2> QED
    BY <1>4, <2>2, <2>3, <2>4, <2>5 DEF Stands
<1>5. ASSUME NEW l \in Launch,
             SupervisorStep(l) \/ SessionCompletes(l) \/ OrphanEnds(l) \/ (SupervisorDies(l) /\ lock # l)
      PROVE  Stands(t)
  <2>0. job[l] \in JobRecord
    BY <1>0
  <2>1. UNCHANGED <<lock, seen, passVars>>
    BY <1>5 DEF SupervisorStep, Enter, EnterAs, Refused, SessionEnds, LeaveUnfinished, Exit,
                SessionCompletes, OrphanEnds, SupervisorDies
  <2> DEFINE Moved == /\ job'[l].task = job[l].task
                      /\ \/ job'[l].pc = job[l].pc
                         \/ job[l].pc \notin Finishing /\ job'[l].pc \notin {"checking", "requeue"}
                         \/ job'[l].pc \notin Finishing \cup {"checking"}
                      /\ \A m \in Launch \ {l} : job'[m] = job[m]
  <2>2. Moved /\ task'[t].state = "withdrawn"
    <3>1. Enter(l) => Moved /\ task'[t].state = "withdrawn"
      BY <1>0, <2>0 DEF Enter, EnterAs, JobRecord, TaskRecord, Finishing
    <3>2. Refused(l) => Moved /\ task'[t].state = "withdrawn"
      BY <1>0, <2>0 DEF Refused, JobRecord, Finishing
    <3>3. ASSUME SessionEnds(l) PROVE Moved /\ task'[t].state = "withdrawn"
      <4>1. PICK w \in Writes, o \in Outcome, p \in {"fork", "failing"} :
              job' = [job EXCEPT ![l] = [@ EXCEPT !.child = FALSE, !.writes = w, !.verdict = o, !.pc = p]]
        BY <3>3 DEF SessionEnds, Outcome
      <4> QED
        BY <1>0, <2>0, <3>3, <4>1 DEF SessionEnds, JobRecord, Finishing
    <3>4. ASSUME LeaveUnfinished(l) PROVE Moved /\ task'[t].state = "withdrawn"
      <4>1. job'[l].pc = "gone" /\ job'[l].task = job[l].task
        BY <1>0, <3>4 DEF LeaveUnfinished, JobRecord
      <4> QED
        BY <1>0, <3>4, <4>1 DEF LeaveUnfinished, Finishing
    <3>5. Exit(l) => Moved /\ task'[t].state = "withdrawn"
      BY <1>0, <2>0 DEF Exit, JobRecord, TaskRecord
    <3>6. SessionCompletes(l) => Moved /\ task'[t].state = "withdrawn"
      BY <1>0 DEF SessionCompletes, TaskRecord
    <3>7. OrphanEnds(l) => Moved /\ task'[t].state = "withdrawn"
      BY <1>0, <2>0 DEF OrphanEnds, JobRecord
    <3>8. ASSUME SupervisorDies(l) PROVE Moved /\ task'[t].state = "withdrawn"
      <4>1. task'[t].state = "withdrawn"
        BY <1>0, <3>8 DEF SupervisorDies, TaskRecord
      <4>2. job'[l].task = job[l].task /\ job'[l].pc \in {job[l].pc, "gone"}
        <5>1. CASE job[l].leaving
          BY <1>0, <2>0, <3>8, <5>1 DEF SupervisorDies, JobRecord
        <5>2. CASE ~job[l].leaving
          BY <1>0, <3>8, <5>2 DEF SupervisorDies, JobRecord
        <5> QED
          BY <5>1, <5>2
      <4> QED
        BY <1>0, <3>8, <4>1, <4>2 DEF SupervisorDies, Finishing
    <3> QED
      BY <1>5, <3>1, <3>2, <3>3, <3>4, <3>5, <3>6, <3>7, <3>8 DEF SupervisorStep
  <2>3. ~ReadOpen(t)'
    BY <2>1, <2>2, QuietStep
  <2> QED
    BY <2>2, <2>3 DEF Stands
<1>6. ASSUME NEW l \in Launch, SupervisorDies(l), lock = l PROVE Stands(t)
  <2>1. seen' = None /\ UNCHANGED passVars
    BY <1>6 DEF SupervisorDies
  <2>2. task'[t].state = "withdrawn"
    BY <1>0, <1>6 DEF SupervisorDies, TaskRecord
  <2>3. job'[l].task = job[l].task /\ job'[l].pc \in {job[l].pc, "gone"}
    <3>1. CASE job[l].leaving
      BY <1>0, <1>6, <3>1 DEF SupervisorDies, JobRecord
    <3>2. CASE ~job[l].leaving
      BY <1>0, <1>6, <3>2 DEF SupervisorDies, JobRecord
    <3> QED
      BY <3>1, <3>2
  <2>4. \A m \in Launch \ {l} : job'[m] = job[m]
    BY <1>0, <1>6 DEF SupervisorDies
  <2>5. pass \in {"regate", "mend"} => todo \subseteq Launch
    BY <1>0 DEF PassPlaced
  <2>6. ~PassOpen(t)'
    <3>1. ~PassOpen(t)
      BY OpenParts
    <3>2. \A m \in Launch : job'[m].task = job[m].task
      BY <2>3, <2>4
    <3> QED
      BY <2>1, <2>5, <3>1, <3>2 DEF PassOpen
  <2>7. ~ReadOpen(t)'
    BY <2>1, <2>3, <2>4, <2>6, UnreadStep
  <2> QED
    BY <2>2, <2>7 DEF Stands
<1> QED
  BY <1>1, <1>2, <1>3, <1>4, <1>5, <1>6

(* Its use of the lease is over when what was read is. *)
LEMMA ReadersGoOn ==
  ASSUME IInv, SInv, [Next]_vars, seen # None, UNCHANGED seen, ~\E l \in Launch : ReadFinish(l)
  PROVE  SInv'
<1>0. /\ job \in [Launch -> JobRecord] /\ PassPlaced
      /\ \A m \in Launch : Over(m) \in JobRecord
  BY OverType DEF IInv, TypeOK
<1>1. PICK r \in Launch : lock = Holder(r) /\ job[r].pc \in Finishing
  BY DEF SInv
<1>2. /\ lock # None /\ pass \in {"idle", "mend", "unlaunched"}
      /\ \A l \in Launch : lock = Holder(l) => job[l].pc \in Finishing
  BY NothingRead
<1>3. Placed(r) /\ Holder(r) # None
  BY <1>1, <1>2 DEF IInv
<1>4. SUFFICES lock' = lock /\ Holder(r)' = Holder(r) /\ job'[r].pc \in Finishing
  BY <1>1 DEF SInv
<1>5. ASSUME UNCHANGED <<lock, passVars>>, job'[r].pc \in Finishing
      PROVE  lock' = lock /\ Holder(r)' = Holder(r) /\ job'[r].pc \in Finishing
  BY <1>5 DEF Holder, ByPass
<1>6. CASE UNCHANGED vars
  BY <1>1, <1>5, <1>6 DEF vars
<1>7. ~PassStep
  <2>1. ~PassStart
    BY <1>2 DEF PassStart
  <2>2. ~(Reaped \/ Evaluate \/ PassEnd)
    BY <1>2 DEF Reaped, Evaluate, PassEnd
  <2>3. ASSUME NEW t \in Task PROVE ~(Reap(t) \/ Spare(t) \/ Claim(t))
    BY <1>2 DEF Reap, Spare, Claim
  <2>4. ASSUME NEW l \in Launch PROVE ~(Regate(l) \/ Popen(l) \/ LaunchFails(l) \/ Sign(l))
    BY <1>2 DEF Regate, Popen, LaunchFails, Sign
  <2>5. ASSUME NEW l \in Launch, ByPass(l), job[l].pc = "checking" PROVE FALSE
    <3>1. lock = Holder(l)
      BY <1>0, <2>5 DEF PassPlaced, Holder, ByPass
    <3> QED
      BY <1>2, <2>5, <3>1 DEF Finishing
  <2>6. ASSUME NEW l \in Launch PROVE ~(ChecksPass(l) \/ ChecksFail(l))
    BY <2>5 DEF ChecksPass, ChecksFail
  <2> QED
    BY <2>1, <2>2, <2>3, <2>4, <2>6 DEF PassStep
<1>8. ~PassDie
  BY DEF PassDie
<1>9. CASE MainMoves
  <2>1. PICK files \in SUBSET File : job' = Arrive(files, Launch)
    BY <1>9 DEF MainMoves
  <2>2. OnlyArrived(r)
    BY <1>0, <2>1, ArriveEffect
  <2> QED
    BY <1>1, <1>5, <1>9, <2>2 DEF MainMoves, OnlyArrived
<1>10. CASE \E t \in Task : Withdraw(t) \/ Block(t) \/ Redrive(t)
  BY <1>1, <1>5, <1>10 DEF Withdraw, Block, Redrive
<1>11. ASSUME NEW l \in Launch,
              SupervisorStep(l) \/ SessionCompletes(l) \/ OrphanEnds(l) \/ SupervisorDies(l)
       PROVE  UNCHANGED <<lock, passVars>> /\ job'[r].pc \in Finishing
  <2>1. UNCHANGED <<lock, passVars>>
    BY <1>11 DEF SupervisorStep, Enter, EnterAs, Refused, SessionEnds, LeaveUnfinished, Exit,
                 SessionCompletes, OrphanEnds, SupervisorDies
  <2>2. CASE r # l
    BY <1>0, <1>1, <1>11, <2>2 DEF SupervisorStep, Enter, EnterAs, Refused, SessionEnds, LeaveUnfinished,
                Exit, SessionCompletes, OrphanEnds, SupervisorDies
  <2>3. CASE r = l
    <3>0. job[r] \in JobRecord
      BY <1>0
    <3>1. ~(Enter(l) \/ Refused(l) \/ SessionEnds(l) \/ OrphanEnds(l))
      BY <1>1, <2>3 DEF Enter, Refused, Starting, SessionEnds, OrphanEnds, Finishing
    <3>2. ~LeaveUnfinished(l)
      BY <1>1, <2>3 DEF LeaveUnfinished, LeaseFor, Holder
    <3>3. Exit(l) => job'[r].pc = job[r].pc
      BY <1>0, <2>3, <3>0 DEF Exit, JobRecord
    <3>4. SessionCompletes(l) => job'[r].pc = job[r].pc
      BY DEF SessionCompletes
    <3>5. ASSUME SupervisorDies(l) PROVE job'[r].pc = job[r].pc
      <4>1. job[l].leaving
        <5>1. lock # l
          BY <3>5 DEF SupervisorDies
        <5>2. ByPass(l)
          BY <1>1, <2>3, <5>1 DEF Holder
        <5> QED
          BY <3>5, <5>2 DEF SupervisorDies, Supervised
      <4> QED
        BY <1>0, <2>3, <3>0, <3>5, <4>1 DEF SupervisorDies, JobRecord
    <3> QED
      BY <1>1, <1>11, <2>1, <3>1, <3>2, <3>3, <3>4, <3>5 DEF SupervisorStep
  <2> QED
    BY <2>1, <2>2, <2>3
<1>12. ASSUME NEW l \in Launch, MergeStep(l)
       PROVE  UNCHANGED <<lock, passVars>> /\ job'[r].pc \in Finishing
  <2>1. ~(FinishMerged(l) \/ Requeue(l))
    BY DEF FinishMerged, Requeue, Leave
  <2>2. ~ReadMerged(l) /\ ~ReadFinish(l)
    BY DEF ReadMerged
  <2>3. CASE Finish(l)
    <3>1. job' = [job EXCEPT ![l].pc = "requeue"] /\ UNCHANGED <<lock, seen, pass, now>>
      BY <2>3 DEF Finish, FinishAs, Leave
    <3>2. UNCHANGED <<found, todo>>
      BY <2>3 DEF Finish, FinishAs
    <3> QED
      BY <1>0, <1>1, <3>1, <3>2 DEF JobRecord, Finishing
  <2>4. CASE Fork(l) \/ Refuse(l) \/ GateGreen(l) \/ GateRed(l) \/ Retry(l)
    <3>1. UNCHANGED <<lock, passVars>> /\ job[l].pc \notin Finishing
      BY <2>4 DEF Fork, Refuse, GateGreen, GateRed, Retry, AnotherRound, Finishing
    <3>2. r # l
      BY <1>1, <3>1
    <3>3. job'[r] = job[r]
      BY <1>0, <2>4, <3>2 DEF Fork, Refuse, GateGreen, GateRed, Retry, AnotherRound
    <3> QED
      BY <1>1, <3>1, <3>3
  <2>5. CASE Land(l)
    <3>1. job[l].pc = "ready" /\ (lock = None \/ lock = Holder(l))
      BY <2>5 DEF Land, FastForward, LeaseFor, Holder
    <3> QED
      BY <1>2, <3>1 DEF Finishing
  <2> QED
    BY <1>12, <2>1, <2>2, <2>3, <2>4, <2>5 DEF MergeStep
<1> QED
  BY <1>5, <1>6, <1>7, <1>8, <1>9, <1>10, <1>11, <1>12 DEF Next

LEMMA ReadersKept ==
  ASSUME IInv, SInv, [Next]_vars
  PROVE  SInv'
<1>1. CASE seen' = None
  BY <1>1 DEF SInv
<1>2. ASSUME NEW l \in Launch, ReadMerged(l) \/ ReadFinish(l) PROVE SInv'
  <2>1. /\ lock' = Holder(l) /\ UNCHANGED <<job, passVars>>
        /\ job[l].pc \in Finishing
    BY <1>2 DEF ReadMerged, ReadFinish, IInv, Placed, Finishing
  <2>2. Holder(l)' = Holder(l)
    BY <2>1 DEF Holder, ByPass
  <2> QED
    BY <2>1, <2>2 DEF SInv
<1>3. UNCHANGED vars \/ MainMoves \/ PassStep \/ PassDie => seen' \in {seen, None}
  BY DEF vars, MainMoves, PassDie, PassStep, PassStart, Reap, Spare, Reaped, Evaluate, PassEnd, Claim,
         Regate, ChecksPass, ChecksFail, Popen, LaunchFails, Sign
<1>4. (\E t \in Task : Withdraw(t) \/ Block(t) \/ Redrive(t)) => seen' = seen
  BY DEF Withdraw, Block, Redrive
<1>5. ASSUME NEW l \in Launch,
             SupervisorStep(l) \/ SessionCompletes(l) \/ OrphanEnds(l) \/ SupervisorDies(l)
      PROVE  seen' \in {seen, None}
  BY <1>5 DEF SupervisorStep, Enter, EnterAs, Refused, SessionEnds, LeaveUnfinished, Exit,
              SessionCompletes, OrphanEnds, SupervisorDies
<1>6. ASSUME NEW l \in Launch, MergeStep(l), ~ReadMerged(l), ~ReadFinish(l)
      PROVE  seen' \in {seen, None}
  BY <1>6 DEF MergeStep, Fork, Refuse, GateGreen, GateRed, Retry, AnotherRound, Land, FastForward,
              FinishMerged, Finish, FinishAs, Requeue, Leave
<1>7. CASE seen' = seen /\ seen # None /\ ~\E l \in Launch : ReadFinish(l)
  BY <1>7, ReadersGoOn
<1> QED
  BY <1>1, <1>2, <1>3, <1>4, <1>5, <1>6, <1>7 DEF Next

(* A withdrawal is overtaken only by who had read the task before it under *)
(* the pass lease: _reap_stale (read at dispatch_worktree.py:215, blocked  *)
(* at 403), _finish_merged (1272, 1281), _finish_unmerged (1453, 1460),    *)
(* _finish_launch_failed (788, 789), a claim from a queue's row, the end   *)
(* of a regate's checks.  Whatever else runs or dies then, the task stays  *)
(* withdrawn, and nobody reads it as anything else again.                  *)
THEOREM WithdrawalStands == Spec => WithdrawnStays
<1>1. Init => SInv
  BY DEF Init, SInv
<1>2. IInv /\ SInv /\ [Next]_vars => SInv'
  BY ReadersKept
<1>3. ASSUME IInv, SInv, [Next]_vars, NEW t \in Task, task[t].state = "withdrawn", ~ReadOpen(t)
      PROVE  Stands(t)
  <2>1. \A l \in Launch : MergeStep(l) => Stands(t)
    BY <1>3, MergeStands, FinishStands DEF MergeStep
  <2>2. PassStep => Stands(t)
    BY <1>3, PassStands
  <2> QED
    BY <1>3, <2>1, <2>2, OthersStand DEF Next
<1>4. IInv /\ SInv /\ [Next]_vars =>
        [\A t \in Task : (task[t].state = "withdrawn" /\ ~ReadOpen(t)) =>
           (task'[t].state = "withdrawn" /\ ~ReadOpen(t)')]_vars
  BY <1>3 DEF Stands
<1> QED
  BY <1>1, <1>2, <1>4, Initially, Inductive, PTL DEF Spec, WithdrawnStays

(* A task is completed by one of its sessions or once a branch of it is on *)
(* main (_finish_merged): the record never runs ahead of the repository.   *)
THEOREM CompletedIsTrue == Spec => DoneIsLanded
<1>1. IInv /\ [Next]_vars =>
        [\A t \in Task : (task[t].state # "completed" /\ task'[t].state = "completed") =>
           \E l \in Launch : job[l].task = t /\ (job[l].child \/ l \in main)]_vars
  BY StateMoves DEF CompletedTrue
<1> QED
  BY <1>1, Initially, Inductive, PTL DEF Spec, DoneIsLanded

-----------------------------------------------------------------------------
(* Who has the flock wrote the body, unless a pass wrote over it since.    *)
Flocked(t) ==
  task[t].flock # None /\ task[t].body.supervising => task[t].body.launch = task[t].flock

(* A session runs under its supervisor or alone, and the body still says   *)
(* so, or was written over.                                                *)
Recorded(l) ==
  job[l].child =>
    /\ ~job[l].leaving
    /\ job[l].pc \in {"session", "gone"} \/ ByPass(l)
    /\ \/ l \in erased
       \/ task[job[l].task].body = [launch |-> l, held |-> TRUE, supervising |-> TRUE]

RInv == (\A t \in Task : Flocked(t)) /\ (\A l \in Launch : Recorded(l))

(* Who touches the body and the flock of a lease file. *)
LEMMA BodyMoves ==
  ASSUME IInv, [Next]_vars, NEW t \in Task
  PROVE  \/ /\ task'[t].body = task[t].body /\ task'[t].flock \in {task[t].flock, None}
            /\ erased' = erased
         \/ \E l \in Launch : Enter(l) \/ Sign(l) \/ Exit(l)
<1>0. task[t] \in TaskRecord /\ task \in [Task -> TaskRecord]
  BY DEF IInv, TypeOK
<1> DEFINE Same == task'[t].body = task[t].body /\ task'[t].flock = task[t].flock /\ erased' = erased
<1>1. UNCHANGED vars \/ PassDie \/ MainMoves \/ PassStart \/ Reaped \/ Evaluate \/ PassEnd => Same
  BY DEF vars, PassDie, MainMoves, PassStart, Reaped, Evaluate, PassEnd
<1>2. ASSUME NEW u \in Task, Reap(u) \/ Spare(u) PROVE Same
  <2>1. Reap(u) => Same
    BY <1>0 DEF Reap, TaskRecord
  <2>2. Spare(u) => Same
    BY DEF Spare
  <2> QED
    BY <1>2, <2>1, <2>2
<1>3. ASSUME NEW u \in Task, Claim(u) \/ Withdraw(u) \/ Block(u) \/ Redrive(u) PROVE Same
  <2>1. Claim(u) => Same
    BY <1>0 DEF Claim, TaskRecord
  <2>2. Withdraw(u) => Same
    BY <1>0 DEF Withdraw, TaskRecord
  <2>3. Block(u) => Same
    BY <1>0 DEF Block, TaskRecord
  <2>4. Redrive(u) => Same
    BY <1>0 DEF Redrive, TaskRecord
  <2> QED
    BY <1>3, <2>1, <2>2, <2>3, <2>4
<1>4. ASSUME NEW l \in Launch,
             \/ Regate(l) \/ ChecksFail(l) \/ Popen(l) \/ LaunchFails(l) \/ Refused(l) \/ SessionEnds(l)
             \/ LeaveUnfinished(l) \/ OrphanEnds(l) \/ Fork(l) \/ Refuse(l) \/ GateGreen(l) \/ GateRed(l)
             \/ Retry(l) \/ Land(l) \/ ReadMerged(l)
      PROVE  Same
  BY <1>4 DEF Regate, ChecksFail, Popen, LaunchFails, Refused, SessionEnds, LeaveUnfinished, OrphanEnds,
              Fork, Refuse, GateGreen, GateRed, Retry, AnotherRound, Land, FastForward, ReadMerged
<1>5. ASSUME NEW l \in Launch, ChecksPass(l) \/ ReadFinish(l) \/ SessionCompletes(l) PROVE Same
  <2>1. ChecksPass(l) => Same
    BY <1>0 DEF ChecksPass, TaskRecord
  <2>2. ReadFinish(l) => Same
    BY <1>0 DEF ReadFinish, TaskRecord
  <2>3. SessionCompletes(l) => Same
    BY <1>0 DEF SessionCompletes, TaskRecord
  <2> QED
    BY <1>5, <2>1, <2>2, <2>3
<1>6. ASSUME NEW l \in Launch, FinishMerged(l) \/ Finish(l) \/ Requeue(l) PROVE Same
  <2>1. ASSUME FinishMerged(l) PROVE Same
    <3>1. erased' = erased
      BY <2>1 DEF FinishMerged
    <3>2. \E state : task' = [task EXCEPT ![job[l].task] = [@ EXCEPT !.last = l, !.state = state]]
      BY <2>1 DEF FinishMerged
    <3> QED
      BY <1>0, <3>1, <3>2 DEF TaskRecord
  <2>2. Finish(l) => Same
    BY <1>0 DEF Finish, FinishAs, TaskRecord
  <2>3. ASSUME Requeue(l) PROVE Same
    <3>1. CASE task' = [task EXCEPT ![job[l].task] =
                          [task[job[l].task] EXCEPT !.state = "accepted", !.claimed = FALSE]]
      BY <1>0, <2>3, <3>1 DEF Requeue, TaskRecord
    <3>2. CASE task' = task
      BY <2>3, <3>2 DEF Requeue
    <3> QED
      BY <2>3, <3>1, <3>2 DEF Requeue
  <2> QED
    BY <1>6, <2>1, <2>2, <2>3
<1>7. ASSUME NEW l \in Launch, SupervisorDies(l)
      PROVE  task'[t].body = task[t].body /\ task'[t].flock \in {task[t].flock, None} /\ erased' = erased
  BY <1>0, <1>7 DEF SupervisorDies, TaskRecord
<1> QED
  BY <1>1, <1>2, <1>3, <1>4, <1>5, <1>6, <1>7 DEF Next, PassStep, SupervisorStep, MergeStep

(* A session that has started stays where it is until it ends: its launch  *)
(* does nothing, or a pass mends the branch.                               *)
Stays(l) ==
  job'[l].child =>
    /\ job[l].child /\ job'[l].task = job[l].task /\ ~job'[l].leaving
    /\ job'[l].pc \in {"session", "gone"} \/ ByPass(l)'

LEMMA SessionStays ==
  ASSUME IInv, [Next]_vars, NEW l \in Launch, Recorded(l), ~Enter(l)
  PROVE  Stays(l)
<1>0. /\ job \in [Launch -> JobRecord] /\ job[l] \in JobRecord /\ Placed(l) /\ PassPlaced
      /\ \A m \in Launch : Over(m) \in JobRecord
  BY OverType DEF IInv, TypeOK
<1>1. CASE job'[l] = job[l] /\ (ByPass(l) => ByPass(l)')
  BY <1>1 DEF Stays, Recorded
<1>2. CASE OnlyArrived(l) /\ pass' = pass /\ now' = now
  BY <1>2 DEF Stays, Recorded, OnlyArrived, ByPass
<1>3. job[l].child => job[l].pc \in {"session", "gone"} \/ (ByPass(l) /\ job[l].pc \in Merging \cup {"checking"})
  BY <1>0 DEF Recorded, Placed
<1>4. job[l].pc = "unused" => ~job[l].child
  BY <1>3 DEF Merging, Placed
<1>5. CASE UNCHANGED vars
  BY <1>1, <1>5 DEF vars, ByPass
<1>6. CASE MainMoves
  <2>1. PICK files \in SUBSET File : job' = Arrive(files, Launch)
    BY <1>6 DEF MainMoves
  <2>2. OnlyArrived(l)
    BY <1>0, <2>1, ArriveEffect
  <2> QED
    BY <1>2, <1>6, <2>2 DEF MainMoves
<1>7. CASE \E t \in Task : Withdraw(t) \/ Block(t) \/ Redrive(t)
  BY <1>1, <1>7 DEF Withdraw, Block, Redrive, ByPass
<1>8. CASE PassDie
  BY <1>0, <1>1, <1>3, <1>8 DEF PassDie, Stays, Recorded, ByPass, JobRecord, PassPlaced, Merging
<1>9. ASSUME NEW t \in Task, Reap(t) PROVE Stays(l)
  <2>1. ~ByPass(l)
    BY <1>9 DEF Reap, ByPass
  <2>2. job'[l] = job[l] \/ \E b \in BOOLEAN : job'[l] = [Over(l) EXCEPT !.child = Over(l).child /\ b]
    <3>1. found[t].supervising = TRUE \/ found[t].supervising = FALSE
      BY DEF IInv, TypeOK, Body
    <3>2. CASE l = found[t].launch
      <4>1. job'[l] = [Over(l) EXCEPT !.child = Over(l).child /\ ~found[t].supervising]
        BY <1>0, <1>9, <3>2 DEF Reap
      <4> QED
        BY <3>1, <4>1
    <3>3. CASE l # found[t].launch
      BY <1>0, <1>9, <3>3 DEF Reap
    <3> QED
      BY <3>2, <3>3
  <2>3. CASE job'[l] = job[l]
    BY <1>1, <2>1, <2>3
  <2>4. ASSUME NEW b \in BOOLEAN, job'[l] = [Over(l) EXCEPT !.child = Over(l).child /\ b]
        PROVE  Stays(l)
    <3>1. /\ job'[l].child => job[l].child
          /\ job'[l].pc = "gone" /\ job'[l].task = job[l].task /\ job'[l].leaving = job[l].leaving
      BY <1>0, <2>4, OverType DEF JobRecord
    <3> QED
      BY <3>1 DEF Stays, Recorded
  <2> QED
    BY <2>2, <2>3, <2>4
<1>10. CASE PassStart \/ Reaped \/ Evaluate \/ PassEnd \/ \E t \in Task : Spare(t)
  BY <1>1, <1>10 DEF PassStart, Reaped, Spare, Evaluate, PassEnd, ByPass
<1>11. ASSUME NEW t \in Task, Claim(t) PROVE Stays(l)
  <2>1. PICK m : m \in Fresh /\ job' = [job EXCEPT ![m] = [@ EXCEPT !.task = t, !.pc = "claimed"]]
    BY <1>11 DEF Claim
  <2>2. CASE l = m
    BY <1>0, <1>4, <2>1, <2>2 DEF Fresh, Stays, JobRecord
  <2>3. CASE l # m
    BY <1>0, <1>1, <1>11, <2>1, <2>3 DEF Claim, ByPass
  <2> QED
    BY <2>2, <2>3
<1>12. ASSUME NEW m \in Launch, m # l,
              \/ Regate(m) \/ ChecksPass(m) \/ ChecksFail(m) \/ Popen(m) \/ LaunchFails(m) \/ Sign(m)
       PROVE  Stays(l)
  BY <1>0, <1>1, <1>12 DEF Regate, ChecksPass, ChecksFail, Popen, LaunchFails, Sign, ByPass
<1>13. CASE Regate(l)
  <2>1. pass = "regate" /\ ~ByPass(l)
    BY <1>13 DEF Regate, ByPass
  <2>2. CASE job' = job
    BY <1>1, <2>1, <2>2
  <2>3. CASE job' = [job EXCEPT ![l].failed = TRUE]
    BY <1>0, <2>1, <2>3 DEF Stays, Recorded, JobRecord
  <2>4. CASE /\ job' = [job EXCEPT ![l] = [@ EXCEPT !.arrived = {}, !.pc = "checking"]]
             /\ pass' = "mend" /\ now' = l
    BY <1>0, <2>1, <2>4 DEF Stays, Recorded, ByPass, JobRecord
  <2> QED
    BY <1>13, <2>2, <2>3, <2>4 DEF Regate
<1>14. CASE ChecksPass(l) \/ ChecksFail(l)
  <2>1. ChecksPass(l) => Stays(l)
    BY <1>0 DEF ChecksPass, Stays, Recorded, ByPass, JobRecord
  <2>2. ChecksFail(l) => Stays(l)
    BY <1>0 DEF ChecksFail, Stays, Recorded, ByPass, JobRecord
  <2> QED
    BY <1>14, <2>1, <2>2
<1>15. CASE Popen(l) \/ LaunchFails(l)
  <2>1. job[l].pc = "claimed" /\ ~job[l].child
    BY <1>0, <1>3, <1>15 DEF Popen, LaunchFails, PassPlaced, Merging
  <2>2. job'[l].child = job[l].child
    <3>1. Popen(l) => job'[l].child = job[l].child
      BY <1>0 DEF Popen, JobRecord
    <3>2. LaunchFails(l) => job'[l].child = job[l].child
      BY <1>0, OverType DEF LaunchFails
    <3> QED
      BY <1>15, <3>1, <3>2
  <2> QED
    BY <2>1, <2>2 DEF Stays
<1>16. CASE Sign(l)
  BY <1>1, <1>16 DEF Sign, ByPass
<1>17. ASSUME NEW m \in Launch, m # l,
              SupervisorStep(m) \/ SupervisorDies(m) \/ SessionCompletes(m) \/ OrphanEnds(m)
       PROVE  Stays(l)
  BY <1>0, <1>1, <1>17 DEF SupervisorStep, Enter, EnterAs, Refused, SessionEnds, LeaveUnfinished, Exit, SupervisorDies,
     SessionCompletes, OrphanEnds, ByPass
<1>18. ASSUME NEW m \in Launch, m # l, MergeStep(m) PROVE Stays(l)
  <2>1. CASE Land(m)
    <3>1. PICK files \in SUBSET File, others \in {Launch \ {m}} : job'[l] = Arrive(files, others)[l]
      <4>1. job[m].writes \in SUBSET File
        BY <1>0, DispatchAssumption DEF JobRecord
      <4> QED
        BY <1>0, <1>18, <2>1, <4>1, ArriveType DEF Land, FastForward
    <3>2. OnlyArrived(l)
      BY <1>0, <3>1, ArriveEffect
    <3> QED
      BY <1>2, <2>1, <3>2 DEF Land, FastForward
  <2>2. CASE ~Land(m)
    BY <1>0, <1>1, <1>18, <2>2 DEF MergeStep, Fork, Refuse, GateGreen, GateRed, Retry, AnotherRound, ReadMerged,
       FinishMerged, ReadFinish, Finish, FinishAs, Requeue, Leave, ByPass
  <2> QED
    BY <2>1, <2>2
<1>19. CASE SupervisorStep(l)
  <2>1. Refused(l) => Stays(l)
    BY <1>0, <1>3 DEF Refused, Starting, Stays, JobRecord, Merging
  <2>2. SessionEnds(l) => Stays(l)
    BY <1>0 DEF SessionEnds, Stays, JobRecord
  <2>3. LeaveUnfinished(l) => Stays(l)
    <3>1. ASSUME LeaveUnfinished(l) PROVE ~job[l].child
      BY <1>0, <1>3, <3>1 DEF LeaveUnfinished, LeaseFor, ByPass, PassPlaced
    <3>2. ASSUME LeaveUnfinished(l) PROVE job'[l].child = job[l].child
      BY <1>0, <3>2, OverType DEF LeaveUnfinished, JobRecord
    <3> QED
      BY <3>1, <3>2 DEF Stays
  <2>4. Exit(l) => Stays(l)
    BY <1>0 DEF Exit, Stays, Recorded, JobRecord
  <2> QED
    BY <1>19, <2>1, <2>2, <2>3, <2>4 DEF SupervisorStep
<1>20. CASE SupervisorDies(l)
  <2>1. ~job[l].child \/ (~job[l].leaving /\ job'[l] = [Over(l) EXCEPT !.leaving = FALSE])
    BY <1>0, <1>20 DEF SupervisorDies, Recorded
  <2>2. job'[l].child = job[l].child
    BY <1>0, <1>20, OverType DEF SupervisorDies, JobRecord
  <2> QED
    BY <1>0, <2>1, <2>2, OverType DEF Stays, JobRecord
<1>21. CASE SessionCompletes(l) \/ OrphanEnds(l)
  <2>1. SessionCompletes(l) => Stays(l)
    BY <1>1 DEF SessionCompletes, ByPass
  <2>2. OrphanEnds(l) => Stays(l)
    BY <1>0 DEF OrphanEnds, Stays, JobRecord
  <2> QED
    BY <1>21, <2>1, <2>2
<1>22. CASE MergeStep(l)
  <2>1. CASE Fork(l) \/ Refuse(l) \/ GateGreen(l) \/ GateRed(l) \/ Retry(l) \/ Land(l)
    <3>1. pass' = pass /\ now' = now /\ job[l].pc \notin {"session", "gone"}
      BY <2>1 DEF Fork, Refuse, GateGreen, GateRed, Retry, AnotherRound, Land, FastForward
    <3> DEFINE Kept == /\ job'[l].child = job[l].child /\ job'[l].leaving = job[l].leaving
                       /\ job'[l].task = job[l].task
    <3>2. Kept
      <4>1. Fork(l) => Kept
        <5>1. CASE job' = [job EXCEPT ![l].pc = "refused"]
          BY <1>0, <5>1 DEF JobRecord
        <5>2. ASSUME NEW l1, job' = [job EXCEPT ![l] = [@ EXCEPT !.arrived = {}, !.attempts = job[l].attempts + 1,
                                                                 !.pc = l1]]
              PROVE  Kept
          BY <1>0, <5>2 DEF JobRecord
        <5> QED
          BY <5>1, <5>2 DEF Fork
      <4>2. Land(l) => Kept
        <5>1. job[l].writes \in SUBSET File
          BY <1>0, DispatchAssumption DEF JobRecord
        <5>2. Arrive(job[l].writes, Launch \ {l})[l] = job[l]
          BY DEF Arrive
        <5> QED
          BY <1>0, <5>1, <5>2, ArriveType DEF Land, FastForward, JobRecord
      <4>3. Refuse(l) => Kept
        BY <1>0 DEF Refuse, JobRecord
      <4>4. GateGreen(l) => Kept
        BY <1>0 DEF GateGreen, JobRecord
      <4>5. GateRed(l) => Kept
        BY <1>0 DEF GateRed, JobRecord
      <4>6. Retry(l) => Kept
        BY <1>0 DEF Retry, AnotherRound, JobRecord
      <4> QED
        BY <2>1, <4>1, <4>2, <4>3, <4>4, <4>5, <4>6
    <3> QED
      BY <1>3, <3>1, <3>2 DEF Stays, Recorded, ByPass
  <2>2. CASE ReadMerged(l) \/ ReadFinish(l)
    BY <1>1, <2>2 DEF ReadMerged, ReadFinish, ByPass
  <2>3. (job[l].pc \notin {"session", "gone"} /\ \E kept \in BOOLEAN : Leave(l, kept)) => Stays(l)
    <3> SUFFICES ASSUME job[l].pc \notin {"session", "gone"}, NEW kept \in BOOLEAN, Leave(l, kept)
                 PROVE  Stays(l)
      OBVIOUS
    <3>1. Leave(l, kept)
      OBVIOUS
    <3>2. job[l].pc \notin {"session", "gone"}
      OBVIOUS
    <3> DEFINE left == IF kept THEN [job[l] EXCEPT !.pc = "gone"] ELSE Over(l)
    <3>3. left \in JobRecord /\ left.pc = "gone" /\ left.task = job[l].task /\ left.child = job[l].child
      BY <1>0, OverType DEF JobRecord
    <3>4. job'[l] = [left EXCEPT !.leaving = job[l].leaving \/ ~ByPass(l)]
      BY <1>0, <3>1 DEF Leave
    <3>5. /\ job'[l].child = job[l].child /\ job'[l].pc = "gone" /\ job'[l].task = job[l].task
          /\ job'[l].leaving = (job[l].leaving \/ ~ByPass(l))
      <4> HIDE DEF left
      <4> QED
        BY <3>3, <3>4 DEF JobRecord
    <3> QED
      BY <1>3, <3>2, <3>5 DEF Stays, Recorded
  <2>4. CASE FinishMerged(l) \/ Requeue(l)
    BY <2>3, <2>4 DEF FinishMerged, Requeue
  <2>5. CASE Finish(l)
    <3>1. CASE \E kept \in BOOLEAN : Leave(l, kept)
      BY <2>3, <2>5, <3>1 DEF Finish, FinishAs
    <3>2. CASE job' = [job EXCEPT ![l].pc = "requeue"] /\ UNCHANGED <<pass, now>>
      <4>1. job'[l].child = job[l].child /\ job[l].pc \in {"failing", "refused"}
        BY <1>0, <2>5, <3>2 DEF Finish, FinishAs, JobRecord
      <4>2. job'[l].task = job[l].task /\ job'[l].leaving = job[l].leaving
        BY <1>0, <3>2 DEF JobRecord
      <4> QED
        BY <1>3, <3>2, <4>1, <4>2 DEF Stays, Recorded, ByPass
    <3> QED
      BY <2>5, <3>1, <3>2 DEF Finish, FinishAs
  <2> QED
    BY <1>22, <2>1, <2>2, <2>4, <2>5 DEF MergeStep
<1> QED
  BY <1>5, <1>6, <1>7, <1>8, <1>9, <1>10, <1>11, <1>12, <1>13, <1>14, <1>15, <1>16, <1>17, <1>18, <1>19, <1>20,
     <1>21, <1>22 DEF Next, PassStep

(* What those who touch a body make of it. *)
LEMMA BodyBecomes ==
  ASSUME IInv, NEW l \in Launch, NEW t \in Task, Enter(l) \/ Sign(l) \/ Exit(l)
  PROVE  \/ task'[t] = task[t] /\ erased \subseteq erased'
         \/ /\ Enter(l) /\ t = job[l].task /\ task'[t].flock = l
            /\ task'[t].body = [launch |-> l, held |-> TRUE, supervising |-> TRUE]
            /\ erased' = IF task[t].body.supervising THEN erased \cup {task[t].body.launch} ELSE erased
         \/ /\ Sign(l) /\ t = job[l].task
            /\ task'[t].body = [launch |-> l, held |-> TRUE, supervising |-> FALSE]
            /\ erased' = IF task[t].body.supervising THEN erased \cup {task[t].body.launch} ELSE erased
         \/ /\ Exit(l) /\ t = job[l].task /\ job[l].leaving /\ task'[t].flock = None /\ erased' = erased
<1>0. task[t] \in TaskRecord /\ task \in [Task -> TaskRecord]
  BY DEF IInv, TypeOK
<1>1. CASE t # job[l].task
  BY <1>0, <1>1 DEF Enter, EnterAs, Sign, Exit, WriteOver
<1>2. CASE Enter(l) /\ t = job[l].task
  BY <1>0, <1>2 DEF Enter, EnterAs, WriteOver, TaskRecord
<1>3. CASE Sign(l) /\ t = job[l].task
  BY <1>0, <1>3 DEF Sign, WriteOver, TaskRecord
<1>4. CASE Exit(l) /\ t = job[l].task
  BY <1>0, <1>4 DEF Exit, TaskRecord
<1> QED
  BY <1>1, <1>2, <1>3, <1>4

LEMMA FlocksKept ==
  ASSUME IInv, RInv, [Next]_vars, NEW t \in Task
  PROVE  Flocked(t)'
<1>0. Flocked(t)
  BY DEF RInv
<1>1. CASE task'[t].body = task[t].body /\ task'[t].flock \in {task[t].flock, None}
  BY <1>0, <1>1 DEF Flocked
<1>2. ASSUME NEW l \in Launch, Enter(l) \/ Sign(l) \/ Exit(l) PROVE Flocked(t)'
  <2>1. CASE task'[t] = task[t]
    BY <1>0, <2>1 DEF Flocked
  <2>2. CASE task'[t].flock = l /\ task'[t].body = [launch |-> l, held |-> TRUE, supervising |-> TRUE]
    BY <2>2 DEF Flocked
  <2>3. CASE task'[t].body = [launch |-> l, held |-> TRUE, supervising |-> FALSE]
    BY <2>3 DEF Flocked
  <2>4. CASE task'[t].flock = None
    BY <2>4 DEF Flocked
  <2> QED
    BY <1>2, <2>1, <2>2, <2>3, <2>4, BodyBecomes
<1> QED
  BY <1>1, <1>2, BodyMoves

LEMMA RecordsKept ==
  ASSUME IInv, RInv, [Next]_vars, NEW l \in Launch
  PROVE  Recorded(l)'
<1>0. /\ job \in [Launch -> JobRecord] /\ job[l] \in JobRecord /\ Placed(l) /\ Recorded(l)
      /\ \A t \in Task : Flocked(t)
  BY DEF IInv, RInv, TypeOK
<1>1. CASE Enter(l)
  <2>1. job[l].pc = "starting" /\ ~job[l].leaving /\ job[l].task \in Task
    BY <1>0, <1>1 DEF Enter, Starting, Placed, Merging
  <2>2. job'[l].pc = "session" /\ ~job'[l].leaving /\ job'[l].task = job[l].task
    BY <1>0, <1>1, <2>1 DEF Enter, EnterAs, JobRecord
  <2>3. task'[job[l].task].body = [launch |-> l, held |-> TRUE, supervising |-> TRUE]
    BY <1>1, <2>1 DEF Enter, EnterAs, IInv, TypeOK, TaskRecord
  <2> QED
    BY <2>2, <2>3 DEF Recorded
<1>2. CASE ~Enter(l) /\ job'[l].child
  <2>1. Stays(l)
    BY <1>0, <1>2, SessionStays
  <2>2. job[l].child /\ ~job[l].leaving /\ job'[l].task = job[l].task
    BY <1>0, <1>2, <2>1 DEF Stays, Recorded
  <2> DEFINE t == job[l].task
             mine == [launch |-> l, held |-> TRUE, supervising |-> TRUE]
  <2>3. t \in Task
    BY <1>0, <2>2 DEF Placed, Recorded, Merging
  <2>4. l \in erased \/ task[t].body = mine
    BY <1>0, <2>2 DEF Recorded
  <2>5. l \in erased' \/ task'[t].body = mine
    <3>1. CASE task'[t].body = task[t].body /\ erased' = erased
      BY <2>4, <3>1
    <3>2. ASSUME NEW m \in Launch, Enter(m) \/ Sign(m) \/ Exit(m)
          PROVE  l \in erased' \/ task'[t].body = mine
      <4>1. CASE task'[t] = task[t] /\ erased \subseteq erased'
        BY <2>4, <4>1
      <4>2. CASE erased' = IF task[t].body.supervising THEN erased \cup {task[t].body.launch} ELSE erased
        BY <2>4, <4>2
      <4>3. CASE t = job[m].task /\ job[m].leaving /\ erased' = erased
        <5>1. Placed(m) /\ m # None
          BY DispatchAssumption DEF IInv
        <5>2. AtWork(m)
          BY <4>3, <5>1 DEF AtWork, Supervised, Placed, Merging
        <5>3. task[t].flock = m
          BY <4>3, <5>1, <5>2 DEF Placed
        <5>4. task[t].body = mine => m = l
          BY <1>0, <2>3, <5>1, <5>3 DEF Flocked
        <5> QED
          BY <2>2, <2>4, <4>3, <5>4
      <4> QED
        BY <2>3, <3>2, <4>1, <4>2, <4>3, BodyBecomes
    <3> QED
      BY <2>3, <3>1, <3>2, BodyMoves
  <2> QED
    BY <2>1, <2>2, <2>5, <1>2 DEF Stays, Recorded
<1>3. CASE ~job'[l].child
  BY <1>3 DEF Recorded
<1> QED
  BY <1>1, <1>2, <1>3

(* AD-034-R9: for any number of tasks, launches and deaths, a session that *)
(* outlives its supervisor in a claimed task is on record, for the next    *)
(* pass to terminate, unless its record was written over.                  *)
THEOREM OrphansAreOnRecord == Spec => []OrphanOnRecord
<1>1. Init => RInv
  BY DEF Init, RInv, Flocked, Recorded, NoBody, Unused
<1>2. IInv /\ RInv /\ [Next]_vars => RInv'
  BY FlocksKept, RecordsKept DEF RInv
<1>3. RInv => OrphanOnRecord
  BY DEF RInv, Recorded, OrphanOnRecord
<1> QED
  BY <1>1, <1>2, <1>3, Initially, Inductive, PTL DEF Spec

=============================================================================
