------------------------- MODULE DispatchQueueProofs -------------------------
(***************************************************************************)
(* What a pass takes off the queue, for any tasks and any bounds.  First   *)
(* LaunchQueue (a parallel pass): tasks that run together have nothing in  *)
(* common.  Then SerialPass: what ended is opened only by a pass that had  *)
(* read it before, no session works before what its task waited for, and a *)
(* stop is answered by one automatic redrive.                              *)
(***************************************************************************)
EXTENDS LaunchQueue, SerialPass, TLAPS, FiniteSetTheorems, WellFoundedInduction

-----------------------------------------------------------------------------
(* LaunchQueue. *)
LaunchTypeOK ==
  /\ queue \in Seq(Job) /\ running \subseteq Job
  /\ touches \in [Job -> SUBSET Path]

(* A set of places in a queue has a last one. *)
LEMMA LastPlace ==
  ASSUME NEW n \in Nat, NEW set \in SUBSET (1..n), set # {}
  PROVE  \E m \in set : \A k \in set : k <= m
<1> DEFINE left == {n - k : k \in set}
<1>1. left \subseteq Nat /\ left # {}
  <2>1. \A k \in set : k \in Nat /\ k <= n /\ n - k \in Nat
    OBVIOUS
  <2> QED
    BY <2>1
<1>2. PICK x \in left : \A y \in left : ~(<<y, x>> \in OpToRel(<, Nat))
  BY <1>1, NatLessThanWellFounded, WFMin, Zenon
<1>3. ASSUME NEW y \in left PROVE x <= y
  <2>1. <<y, x>> \in Nat \X Nat
    BY <1>1
  <2>2. <<y, x>> \in OpToRel(<, Nat) <=> y < x
    BY <2>1 DEF OpToRel
  <2>3. ~(y < x)
    BY <1>2, <2>2, Zenon
  <2> QED
    BY <1>1, <2>3
<1>4. PICK m \in set : x = n - m
  OBVIOUS
<1>5. ASSUME NEW k \in set PROVE k <= m
  <2>1. n - k \in left
    OBVIOUS
  <2>2. n - m <= n - k
    BY <1>3, <1>4, <2>1
  <2>3. k \in Int /\ m \in Int
    BY <1>4
  <2> QED
    BY <2>2, <2>3
<1> QED
  BY <1>5

LEMMA Places ==
  ASSUME LaunchTypeOK
  PROVE  /\ Candidates \in SUBSET (1..Len(queue)) /\ Len(queue) \in Nat
         /\ \A k \in Candidates : queue[k] \in Job
BY DEF LaunchTypeOK, Candidates

(* What a pass launches finds a slot each: everything chosen before the    *)
(* last one fits, and is counted against the last one's slot.              *)
LEMMA SlotsSuffice ==
  ASSUME LaunchTypeOK, MaxParallel \in Nat, Cardinality(running) \in Nat, Chosen # {}
  PROVE  /\ IsFiniteSet(Chosen)
         /\ Cardinality(Chosen) <= MaxParallel - Cardinality(running)
<1>1. Chosen \in SUBSET (1..Len(queue)) /\ Candidates \in SUBSET (1..Len(queue))
  BY Places DEF Chosen
<1>2. IsFiniteSet(1..Len(queue))
  BY Places, FS_Interval
<1>3. IsFiniteSet(Chosen)
  BY <1>1, <1>2, FS_Subset
<1>4. PICK m \in Chosen : \A k \in Chosen : k <= m
  BY <1>1, Places, LastPlace
<1> DEFINE fitting == {i \in Before(m) : Fits(i)}
<1>5. fitting \in SUBSET (1..Len(queue))
  BY <1>1 DEF Before
<1>6. IsFiniteSet(fitting) /\ Cardinality(fitting) \in Nat
  BY <1>2, <1>5, FS_Subset, FS_CardinalityType
<1>7. Cardinality(fitting) < MaxParallel - Cardinality(running)
  BY <1>4 DEF Chosen, Launches
<1>8. m \notin fitting /\ m \in Nat
  BY <1>1 DEF Before
<1>9. Chosen \subseteq fitting \cup {m}
  <2>1. ASSUME NEW k \in Chosen, k # m PROVE k \in fitting
    <3>1. k \in Nat /\ k < m
      BY <1>1, <1>4, <1>8, <2>1
    <3>2. k \in Candidates /\ Fits(k)
      BY DEF Chosen, Launches
    <3> QED
      BY <3>1, <3>2 DEF Before
  <2> QED
    BY <2>1
<1>10. /\ IsFiniteSet(fitting \cup {m})
       /\ Cardinality(fitting \cup {m}) = Cardinality(fitting) + 1
  BY <1>6, <1>8, FS_AddElement
<1>11. Cardinality(Chosen) <= Cardinality(fitting \cup {m})
  BY <1>9, <1>10, FS_Subset
<1> HIDE DEF fitting
<1>12. Cardinality(Chosen) \in Nat
  BY <1>3, FS_CardinalityType
<1> QED
  BY <1>3, <1>6, <1>7, <1>10, <1>11, <1>12

(* As many tasks as places, at most. *)
LEMMA NamesFew ==
  ASSUME LaunchTypeOK, NEW set \in SUBSET Candidates, IsFiniteSet(set)
  PROVE  /\ IsFiniteSet({queue[k] : k \in set})
         /\ Cardinality({queue[k] : k \in set}) <= Cardinality(set)
<1> DEFINE name == [k \in set |-> queue[k]]
           names == {queue[k] : k \in set}
<1>1. name \in Surjection(set, names)
  BY DEF Surjection
<1> QED
  BY <1>1, FS_Surjection

-----------------------------------------------------------------------------
LaunchInv == LaunchTypeOK /\ NoConflict

LEMMA LaunchStarts == ASSUME LaunchQueueAssumption PROVE LaunchInit => LaunchInv
BY FS_EmptySet DEF LaunchQueueAssumption, LaunchInit, LaunchInv, LaunchTypeOK, NoConflict

LEMMA Runners ==
  ASSUME LaunchQueueAssumption, LaunchTypeOK
  PROVE  IsFiniteSet(running) /\ Cardinality(running) \in Nat
BY FS_Subset, FS_CardinalityType DEF LaunchQueueAssumption, LaunchTypeOK

(* A task that is neither waiting nor running disturbs no one that runs. *)
LEMMA FileJobKeeps ==
  ASSUME LaunchInv, NEW j \in Job, FileJob(j)
  PROVE  LaunchInv'
<1>1. /\ j \notin running /\ running' = running
      /\ queue' = Append(queue, j)
  BY DEF FileJob
<1>2. touches' \in [Job -> SUBSET Path] /\ \A h \in Job \ {j} : touches'[h] = touches[h]
  BY DEF FileJob, LaunchInv, LaunchTypeOK
<1>3. \A h \in Job \ {j} : h \in exclusive' <=> h \in exclusive
  BY DEF FileJob
<1>4. LaunchTypeOK'
  BY <1>1, <1>2 DEF LaunchInv, LaunchTypeOK
<1>5. NoConflict'
  BY <1>1, <1>2, <1>3 DEF LaunchInv, LaunchTypeOK, NoConflict, Conflict
<1> QED
  BY <1>4, <1>5 DEF LaunchInv

(* A launched task fits what runs and what stands before it, launched in   *)
(* the same pass or not.                                                   *)
LEMMA LaunchPassKeeps ==
  ASSUME LaunchQueueAssumption, LaunchInv, Pass
  PROVE  LaunchInv'
<1>1. PICK begun \in SUBSET Chosen :
         Chosen # {} /\ running' = running \cup {queue[k] : k \in begun}
  BY DEF Pass
<1>2. UNCHANGED <<queue, exclusive, touches, refused>>
  BY DEF Pass
<1>3. LaunchTypeOK /\ MaxParallel \in Nat
  BY DEF LaunchInv, LaunchQueueAssumption
<1> DEFINE names == {queue[k] : k \in begun}
<1>4. begun \in SUBSET Candidates /\ \A k \in begun : Fits(k)
  BY <1>1 DEF Chosen, Launches
<1>5. names \subseteq Job
  BY <1>3, <1>4, Places
<1>6. LaunchTypeOK'
  BY <1>1, <1>2, <1>3, <1>5 DEF LaunchTypeOK
<1>7. ASSUME NEW j \in running', NEW h \in running', j # h PROVE ~Conflict(j, h)
  <2>1. CASE j \in running /\ h \in running
    BY <1>7, <2>1 DEF LaunchInv, NoConflict
  <2>2. CASE j \in names /\ h \in running
    <3>1. PICK k \in begun : j = queue[k]
      BY <2>2
    <3> QED
      BY <1>4, <2>2, <3>1 DEF Fits
  <2>3. CASE j \in running /\ h \in names
    <3>1. PICK k \in begun : h = queue[k]
      BY <2>3
    <3> QED
      BY <1>4, <2>3, <3>1 DEF Fits, Conflict
  <2>4. CASE j \in names /\ h \in names
    <3>1. PICK a \in begun, b \in begun : j = queue[a] /\ h = queue[b]
      BY <2>4
    <3>2. a \in Nat /\ b \in Nat /\ a # b
      BY <1>3, <1>4, <1>7, <3>1, Places
    <3>3. CASE a < b
      <4>1. queue[a] \in Ahead(b)
        BY <1>4, <3>3 DEF Ahead, Before
      <4> QED
        BY <1>4, <3>1, <4>1 DEF Fits, Conflict
    <3>4. CASE b < a
      <4>1. queue[b] \in Ahead(a)
        BY <1>4, <3>4 DEF Ahead, Before
      <4> QED
        BY <1>4, <3>1, <4>1 DEF Fits
    <3> QED
      BY <3>2, <3>3, <3>4
  <2> QED
    BY <1>1, <1>7, <2>1, <2>2, <2>3, <2>4
<1>8. Cardinality(running') <= MaxParallel
  <2>1. IsFiniteSet(running) /\ Cardinality(running) \in Nat
    BY <1>3, Runners
  <2>2. IsFiniteSet(Chosen) /\ Cardinality(Chosen) <= MaxParallel - Cardinality(running)
    BY <1>1, <1>3, <2>1, SlotsSuffice
  <2>3. IsFiniteSet(begun) /\ Cardinality(begun) <= Cardinality(Chosen)
    BY <2>2, FS_Subset
  <2>4. IsFiniteSet(names) /\ Cardinality(names) <= Cardinality(begun)
    BY <1>3, <1>4, <2>3, NamesFew
  <2> HIDE DEF names
  <2>5. /\ Cardinality(names) \in Nat /\ Cardinality(begun) \in Nat
        /\ Cardinality(Chosen) \in Nat /\ Cardinality(running \cap names) \in Nat
    BY <2>1, <2>2, <2>3, <2>4, FS_CardinalityType, FS_Intersection
  <2>6. Cardinality(running \cup names)
          = Cardinality(running) + Cardinality(names) - Cardinality(running \cap names)
    BY <2>1, <2>4, FS_Union
  <2>7. running' = running \cup names
    BY <1>1 DEF names
  <2> QED
    BY <1>3, <2>1, <2>2, <2>3, <2>4, <2>5, <2>6, <2>7
<1>9. NoConflict'
  BY <1>2, <1>7, <1>8 DEF NoConflict, Conflict
<1> QED
  BY <1>6, <1>9 DEF LaunchInv

LEMMA JobFinishKeeps ==
  ASSUME LaunchQueueAssumption, LaunchInv, NEW j \in Job, Finish(j)
  PROVE  LaunchInv'
<1>1. running' = running \ {j} /\ exclusive' = exclusive \ {j}
      /\ touches' = [touches EXCEPT ![j] = {}]
  BY DEF Finish
<1>2. queue' \in Seq(Job)
  <2>1. PICK k \in DOMAIN queue : queue' = RemoveAt(queue, k)
    BY DEF Finish
  <2>2. queue \in Seq(Job) /\ k \in 1..Len(queue)
    BY DEF LaunchInv, LaunchTypeOK
  <2> QED
    BY <2>1, <2>2 DEF RemoveAt
<1>3. LaunchTypeOK'
  BY <1>1, <1>2 DEF LaunchInv, LaunchTypeOK
<1>4. \A h, i \in running' : h # i => ~Conflict(h, i)'
  BY <1>1 DEF LaunchInv, LaunchTypeOK, NoConflict, Conflict
<1>5. Cardinality(running') <= MaxParallel
  <2>1. IsFiniteSet(running) /\ Cardinality(running) \in Nat
    BY Runners DEF LaunchInv
  <2>2. running' \in SUBSET running
    BY <1>1
  <2>3. Cardinality(running') <= Cardinality(running) /\ Cardinality(running') \in Nat
    BY <2>1, <2>2, FS_Subset, FS_CardinalityType
  <2> QED
    BY <2>1, <2>3 DEF LaunchInv, NoConflict, LaunchQueueAssumption
<1> QED
  BY <1>3, <1>4, <1>5 DEF LaunchInv, NoConflict

LEMMA LaunchInductive ==
  ASSUME LaunchQueueAssumption, LaunchInv, [LaunchNext]_launchVars
  PROVE  LaunchInv'
<1>1. ASSUME NEW j \in Job, FileJob(j) PROVE LaunchInv'
  BY <1>1, FileJobKeeps
<1>2. ASSUME NEW j \in Job, Finish(j) PROVE LaunchInv'
  BY <1>2, JobFinishKeeps
<1>3. ASSUME NEW j \in Job, Criterion(j) PROVE LaunchInv'
  BY <1>3 DEF Criterion, LaunchInv, LaunchTypeOK, NoConflict, Conflict
<1>4. ASSUME Pass PROVE LaunchInv'
  BY <1>4, LaunchPassKeeps
<1>5. ASSUME UNCHANGED launchVars PROVE LaunchInv'
  BY <1>5 DEF launchVars, LaunchInv, LaunchTypeOK, NoConflict, Conflict
<1> QED
  BY <1>1, <1>2, <1>3, <1>4, <1>5 DEF LaunchNext

-----------------------------------------------------------------------------
(* The types. *)
THEOREM LaunchTypes == LaunchSpec => []LaunchTypeOK
<1>1. LaunchInit => LaunchInv
  BY LaunchStarts, LaunchQueueAssumption
<1>2. LaunchInv /\ [LaunchNext]_launchVars => LaunchInv'
  BY LaunchInductive, LaunchQueueAssumption
<1>3. LaunchInv => LaunchTypeOK
  BY DEF LaunchInv
<1> QED
  BY <1>1, <1>2, <1>3, PTL DEF LaunchSpec

(* plan_launches: whatever is filed, finishes, or is cut off by the disk,  *)
(* tasks that run together touch nothing in common, an exclusive one runs  *)
(* alone, and no more run than there are slots.                            *)
THEOREM NothingInCommon == LaunchSpec => []NoConflict
<1>1. LaunchInit => LaunchInv
  BY LaunchStarts, LaunchQueueAssumption
<1>2. LaunchInv /\ [LaunchNext]_launchVars => LaunchInv'
  BY LaunchInductive, LaunchQueueAssumption
<1>3. LaunchInv => NoConflict
  BY DEF LaunchInv
<1> QED
  BY <1>1, <1>2, <1>3, PTL DEF LaunchSpec

-----------------------------------------------------------------------------
(* SerialPass. *)
SessionPhase == {"session", "merged", "complete", "block", "unlaunched", "requeue"}

Working == phase \in {"claim", "launch"} \cup SessionPhase

Unanswered(t) == stop[t] # Nothing /\ (stop[t].own => stop[t].auto = 0)

(* What a pass holds in memory fits what the log and the graph still say:  *)
(* what it redrives has not been answered, nor has what its session wrote. *)
PassMemory ==
  /\ phase = "idle" => chosen = NoRow
  /\ Working => chosen.task \in Own
  /\ phase = "claim" => chosen.from \in {"proposed", "accepted"}
  /\ phase \in SessionPhase /\ stop[chosen.task] # Nothing => stop[chosen.task].auto = 0
  /\ phase \in {"unlaunched", "requeue"} => stop[chosen.task] # Nothing
  /\ phase = "redrive" => chosen.task \notin batch /\ \A t \in batch : Unanswered(t)
  /\ phase \in {"redrive", "lift"} /\ chosen # NoRow => chosen.task \in Own
  /\ phase = "redrive" /\ chosen # NoRow => Unanswered(chosen.task)

SerialInv == SerialTypeOK /\ PassMemory /\ LaunchedWaitsMet /\ RedrivenOnce

(* A record is the one there was, or a new one that nothing has answered.  *)
LEMMA AnsweredStopIs ==
  ASSUME SerialTypeOK, NEW t \in Own, NEW k \in SessionStop..FinishRecord, NEW own \in BOOLEAN
  PROVE  /\ AnsweredStop(t, k, own) \in StopRecord
         /\ \/ AnsweredStop(t, k, own).auto = 0
            \/ stop[t] # Nothing /\ AnsweredStop(t, k, own) = stop[t]
BY DEF SerialTypeOK, AnsweredStop, StopRecord, SessionStop, FinishRecord

(* Answering a record by hand, or by a pass, leaves the rest of it. *)
LEMMA AnsweredByHand ==
  ASSUME NEW x \in StopRecord
  PROVE  LET y == [x EXCEPT !.hand = TRUE]
         IN  y \in StopRecord /\ y.auto = x.auto /\ y.own = x.own
BY DEF StopRecord

LEMMA AnsweredByPass ==
  ASSUME NEW x \in StopRecord
  PROVE  LET y == [x EXCEPT !.auto = @ + 1]
         IN  y \in StopRecord /\ y.auto = x.auto + 1
BY DEF StopRecord

LEMMA EdgeEnds ==
  ASSUME NEW from \in TaskState, NEW to \in Edges[from]
  PROVE  to \in TaskState
BY DEF TaskState, Edges

LEMMA SerialStarts ==
  ASSUME SerialAssumption, SerialInit
  PROVE  SerialInv
<1>1. SerialTypeOK
  <2>1. state \in [Own -> TaskState] /\ claim \in [Own -> {"none", "person", "dispatcher"}]
    BY DEF SerialInit, TaskState
  <2>2. stop \in [Own -> {Nothing}] /\ chosen = NoRow
    BY DEF SerialInit
  <2>3. waits \in [Own -> SUBSET Far] /\ far \in [Far -> {"open", "completed", "dropped"}]
    BY DEF SerialInit
  <2>4. stop \in [Own -> {Nothing} \cup StopRecord]
    BY <2>2
  <2>5. chosen \in [task : Own \cup {Nothing}, from : {"none", "proposed", "accepted", "blocked", "in_progress"}]
    BY <2>2 DEF NoRow
  <2>6. moves \in 0..MaxMoves
    BY DEF SerialAssumption, SerialInit
  <2> QED
    BY <2>1, <2>3, <2>4, <2>5, <2>6 DEF SerialInit, SerialTypeOK
<1>2. PassMemory /\ LaunchedWaitsMet /\ RedrivenOnce
  BY DEF SerialInit, PassMemory, LaunchedWaitsMet, Launching, RedrivenOnce, Working, SessionPhase
<1> QED
  BY <1>1, <1>2 DEF SerialInv

LEMMA CommandKeeps ==
  ASSUME SerialAssumption, SerialInv, NEW t \in Own, Command(t)
  PROVE  SerialInv'
<1> USE DEF Command, farVars, passVars
<1>1. SerialTypeOK'
  BY EdgeEnds DEF Move, SerialAssumption, SerialInv, SerialTypeOK
<1>2. PassMemory' /\ LaunchedWaitsMet' /\ RedrivenOnce'
  BY DEF SerialInv, PassMemory, LaunchedWaitsMet, Launching, RedrivenOnce, Working, SessionPhase, Unanswered, Landed
<1> QED
  BY <1>1, <1>2 DEF SerialInv

LEMMA AddWaitKeeps ==
  ASSUME SerialAssumption, SerialInv, NEW t \in Own, NEW f \in Far, AddWait(t, f)
  PROVE  SerialInv'
<1> USE DEF AddWait, farVars
<1>1. SerialTypeOK'
  BY DEF Move, SerialAssumption, SerialInv, SerialTypeOK
<1>2. PassMemory' /\ RedrivenOnce'
  BY DEF SerialInv, PassMemory, RedrivenOnce, Working, SessionPhase, Unanswered
<1>3. LaunchedWaitsMet'
  BY DEF SerialInv, SerialTypeOK, PassMemory, Working, LaunchedWaitsMet, Launching, Landed
<1> QED
  BY <1>1, <1>2, <1>3 DEF SerialInv

LEMMA RemoveWaitKeeps ==
  ASSUME SerialAssumption, SerialInv, NEW t \in Own, NEW f \in Far, RemoveWait(t, f)
  PROVE  SerialInv'
<1> USE DEF RemoveWait, farVars, passVars
<1>1. SerialTypeOK'
  BY DEF Move, SerialAssumption, SerialInv, SerialTypeOK
<1>2. PassMemory' /\ RedrivenOnce'
  BY DEF SerialInv, PassMemory, RedrivenOnce, Working, SessionPhase, Unanswered
<1>3. LaunchedWaitsMet'
  BY DEF SerialInv, SerialTypeOK, PassMemory, Working, LaunchedWaitsMet, Launching, Landed
<1> QED
  BY <1>1, <1>2, <1>3 DEF SerialInv

(* Whoever writes a record of the task, nothing else of a pass changes. *)
RecordWritten(t, r) ==
  /\ stop' = [stop EXCEPT ![t] = r]
  /\ UNCHANGED <<nodeVars, launched, farVars, passVars>> /\ moves' \in 0..MaxMoves

LEMMA RecordKeeps ==
  ASSUME SerialAssumption, SerialInv, NEW t \in Own, NEW r \in StopRecord, RecordWritten(t, r),
         r.auto = 0 \/ (stop[t] # Nothing /\ r.auto = stop[t].auto /\ r.own = stop[t].own)
  PROVE  SerialInv'
<1> USE DEF RecordWritten, nodeVars, farVars, passVars
<1>1. SerialTypeOK'
  BY DEF SerialInv, SerialTypeOK, StopRecord
<1>2. PassMemory'
  BY DEF SerialAssumption, SerialInv, PassMemory, Working, SessionPhase, Unanswered, SerialTypeOK
<1>3. RedrivenOnce'
  BY DEF SerialInv, RedrivenOnce, SerialTypeOK, StopRecord
<1>4. LaunchedWaitsMet'
  BY DEF SerialInv, LaunchedWaitsMet, Launching, Landed
<1> QED
  BY <1>1, <1>2, <1>3, <1>4 DEF SerialInv

LEMMA WriteStopKeeps ==
  ASSUME SerialAssumption, SerialInv, NEW t \in Own, WriteStop(t)
  PROVE  SerialInv'
<1>1. SessionStop \in SessionStop..FinishRecord /\ SerialTypeOK
  BY DEF SerialInv, SessionStop, FinishRecord
<1>2. RecordWritten(t, AnsweredStop(t, SessionStop, FALSE))
  BY <1>1 DEF WriteStop, RecordWritten, Move, SerialAssumption, SerialTypeOK
<1> QED
  BY <1>1, <1>2, AnsweredStopIs, RecordKeeps

LEMMA OutsideKeeps ==
  ASSUME SerialAssumption, SerialInv,
         (\E f \in Far : FarMove(f)) \/ Darken \/ Lighten
  PROVE  SerialInv'
<1>1. SerialTypeOK'
  <2>1. far' \in [Far -> {"open", "completed", "dropped"}] /\ dark' \in BOOLEAN
    <3>1. ASSUME NEW f \in Far, FarMove(f)
          PROVE  far' \in [Far -> {"open", "completed", "dropped"}] /\ dark' = dark
      BY <3>1 DEF FarMove, SerialInv, SerialTypeOK
    <3>2. ASSUME Darken \/ Lighten
          PROVE  far' = far /\ dark' \in BOOLEAN
      BY <3>2 DEF Darken, Lighten
    <3> QED
      BY <3>1, <3>2 DEF SerialInv, SerialTypeOK
  <2>2. moves' \in 0..MaxMoves
    BY DEF FarMove, Darken, Lighten, Move, SerialAssumption, SerialInv, SerialTypeOK
  <2> QED
    BY <2>1, <2>2 DEF FarMove, Darken, Lighten, nodeVars, passVars, SerialInv, SerialTypeOK
<1>2. PassMemory' /\ RedrivenOnce'
  BY DEF FarMove, Darken, Lighten, nodeVars, passVars, SerialInv, PassMemory, RedrivenOnce,
         Working, SessionPhase, Unanswered
<1>3. Landed \subseteq Landed'
  BY DEF FarMove, Darken, Lighten, Landed, SerialInv, SerialTypeOK
<1>4. LaunchedWaitsMet'
  BY <1>3 DEF FarMove, Darken, Lighten, nodeVars, passVars, SerialInv, LaunchedWaitsMet, Launching
<1> QED
  BY <1>1, <1>2, <1>4 DEF SerialInv

LEMMA HandRedriveKeeps ==
  ASSUME SerialAssumption, SerialInv, NEW t \in Own, HandRedrive(t)
  PROVE  SerialInv'
<1> DEFINE r == IF stop[t] # Nothing /\ stop[t].own
                THEN [stop[t] EXCEPT !.hand = TRUE] ELSE stop[t]
<1>1. stop' = [stop EXCEPT ![t] = r]
  BY DEF HandRedrive, Redriven
<1>2. /\ r \in StopRecord \cup {Nothing} /\ (r = Nothing <=> stop[t] = Nothing)
      /\ r # Nothing => r.auto = stop[t].auto /\ r.own = stop[t].own
  <2>1. CASE stop[t] = Nothing \/ ~stop[t].own
    BY <2>1 DEF SerialInv, SerialTypeOK
  <2>2. CASE stop[t] # Nothing /\ stop[t].own
    <3>1. stop[t] \in StopRecord
      BY <2>2 DEF SerialInv, SerialTypeOK
    <3>2. r = [stop[t] EXCEPT !.hand = TRUE]
      BY <2>2
    <3> HIDE DEF r
    <3>3. r \in StopRecord /\ r.auto = stop[t].auto /\ r.own = stop[t].own
      BY <3>1, <3>2, AnsweredByHand
    <3> QED
      BY <2>2, <3>3 DEF SerialAssumption
  <2> QED
    BY <2>1, <2>2
<1> HIDE DEF r
<1>3. SerialTypeOK'
  <2>1. stop' \in [Own -> {Nothing} \cup StopRecord]
    BY <1>1, <1>2 DEF SerialInv, SerialTypeOK
  <2>2. /\ state' \in [Own -> TaskState]
        /\ claim' \in [Own -> {"none", "person", "dispatcher"}]
        /\ UNCHANGED <<waits, launched, farVars, passVars>> /\ moves' \in 0..MaxMoves
    BY DEF HandRedrive, Redriven, Move, SerialAssumption, SerialInv, SerialTypeOK, TaskState
  <2> QED
    BY <2>1, <2>2 DEF farVars, passVars, SerialInv, SerialTypeOK
<1>4. PassMemory' /\ RedrivenOnce'
  BY <1>1, <1>2 DEF HandRedrive, farVars, passVars, SerialInv, SerialTypeOK, PassMemory,
                    RedrivenOnce, Working, SessionPhase, Unanswered
<1>5. LaunchedWaitsMet'
  BY DEF HandRedrive, Redriven, farVars, passVars, SerialInv, LaunchedWaitsMet, Launching, Landed
<1> QED
  BY <1>3, <1>4, <1>5 DEF SerialInv

LEMMA RedriveKeeps ==
  ASSUME SerialAssumption, SerialInv, Redrive
  PROVE  SerialInv'
<1>1. PICK t : t = chosen.task
  OBVIOUS
<1> DEFINE r == IF phase = "redrive" /\ stop[t].own
                THEN [stop[t] EXCEPT !.auto = @ + 1] ELSE stop[t]
<1>2. /\ stop' = [stop EXCEPT ![t] = r] /\ t \in Own /\ phase \in {"redrive", "lift"}
      /\ phase = "redrive" => Unanswered(t)
  BY <1>1 DEF Redrive, Redriven, SerialInv, PassMemory
<1>3. /\ r \in StopRecord \cup {Nothing} /\ (phase = "lift" => r = stop[t])
      /\ phase = "redrive" => r # Nothing /\ (r.own => r.auto <= 1)
      /\ r # Nothing => r.auto <= 1
  <2>1. CASE phase = "redrive" /\ stop[t].own
    <3>1. stop[t] \in StopRecord /\ stop[t].auto = 0
      BY <1>2, <2>1 DEF SerialInv, SerialTypeOK, Unanswered
    <3>2. r = [stop[t] EXCEPT !.auto = @ + 1]
      BY <2>1
    <3> HIDE DEF r
    <3>3. r \in StopRecord /\ r.auto = 1
      BY <3>1, <3>2, AnsweredByPass
    <3> QED
      BY <2>1, <3>3 DEF SerialAssumption
  <2>2. CASE ~(phase = "redrive" /\ stop[t].own)
    BY <1>2, <2>2 DEF SerialInv, SerialTypeOK, RedrivenOnce, Unanswered
  <2> QED
    BY <2>1, <2>2
<1> HIDE DEF r
<1>4. SerialTypeOK'
  <2>1. /\ state' \in [Own -> TaskState]
        /\ claim' \in [Own -> {"none", "person", "dispatcher"}]
        /\ UNCHANGED <<waits, launched, farVars, phase, batch, late, moves>> /\ chosen' = NoRow
    BY <1>1, <1>2 DEF Redrive, Redriven, SerialInv, SerialTypeOK, TaskState
  <2>2. stop' \in [Own -> {Nothing} \cup StopRecord]
    BY <1>2, <1>3 DEF SerialInv, SerialTypeOK
  <2> QED
    BY <2>1, <2>2 DEF NoRow, farVars, SerialInv, SerialTypeOK
<1>5. PassMemory'
  <2>1. t \notin batch \/ phase = "lift"
    BY <1>1 DEF Redrive, SerialInv, PassMemory
  <2>2. chosen' = NoRow /\ chosen'.task \notin batch' /\ UNCHANGED <<phase, batch>>
    BY DEF Redrive, NoRow, SerialAssumption, SerialInv, SerialTypeOK
  <2>3. phase = "redrive" => \A u \in batch : Unanswered(u)'
    BY <1>2, <2>1 DEF SerialInv, SerialTypeOK, PassMemory, Unanswered
  <2> QED
    BY <1>2, <2>2, <2>3 DEF PassMemory, Working, SessionPhase
<1>6. RedrivenOnce'
  BY <1>2, <1>3 DEF SerialInv, SerialTypeOK, RedrivenOnce
<1>7. LaunchedWaitsMet'
  BY <1>2 DEF Redrive, LaunchedWaitsMet, Launching
<1> QED
  BY <1>4, <1>5, <1>6, <1>7 DEF SerialInv

(* The steps that read what is to be redriven, or give it up. *)
LEMMA BatchKeeps ==
  ASSUME SerialAssumption, SerialInv,
         BeginPass \/ RedriveRefused \/ ReadWaits \/ PassDies \/ \E t \in Own : TakeBlocked(t)
  PROVE  SerialInv'
<1> USE DEF BeginPass, RedriveRefused, ReadWaits, PassDies, TakeBlocked, Take, nodeVars, farVars
<1>1. SerialTypeOK'
  <2>1. moves' \in 0..MaxMoves
    BY DEF Move, SerialAssumption, SerialInv, SerialTypeOK
  <2> QED
    BY <2>1 DEF NoRow, SerialInv, SerialTypeOK
<1>2. PassMemory' /\ LaunchedWaitsMet'
  BY DEF NoRow, SerialAssumption, SerialInv, SerialTypeOK, PassMemory, Working, SessionPhase,
         OwnDefect, Unanswered, LaunchedWaitsMet, Launching
<1>3. RedrivenOnce'
  BY DEF SerialInv, RedrivenOnce
<1> QED
  BY <1>1, <1>2, <1>3 DEF SerialInv

LEMMA LaunchKeeps ==
  ASSUME SerialAssumption, SerialInv, Evaluate \/ Accept \/ Claim \/ StartSession
  PROVE  SerialInv'
<1> USE DEF Evaluate, Accept, Claim, StartSession, nodeVars, farVars
<1>1. SerialTypeOK'
  BY DEF Eligible, SerialInv, SerialTypeOK, PassMemory, Working, SessionPhase, TaskState
<1>2. PassMemory'
  BY DEF Eligible, SerialInv, SerialTypeOK, PassMemory, Working, SessionPhase, Unanswered
<1>3. RedrivenOnce'
  BY DEF SerialInv, SerialTypeOK, RedrivenOnce
<1>4. LaunchedWaitsMet'
  BY DEF Eligible, WaitsMet, SerialInv, SerialTypeOK, LaunchedWaitsMet, Launching, Landed
<1> QED
  BY <1>1, <1>2, <1>3, <1>4 DEF SerialInv

LEMMA HuddleKeeps ==
  ASSUME SerialAssumption, SerialInv, OpenHuddle
  PROVE  SerialInv'
<1>1. PICK own \in BOOLEAN :
        stop' = [stop EXCEPT ![chosen.task] = AnsweredStop(chosen.task, Huddle, own)]
  BY DEF OpenHuddle
<1>2. Huddle \in SessionStop..FinishRecord /\ SerialTypeOK /\ chosen.task \in Own
  BY DEF OpenHuddle, SerialInv, PassMemory, Working, SessionPhase, Huddle, SessionStop,
         FinishRecord
<1>3. RecordWritten(chosen.task, AnsweredStop(chosen.task, Huddle, own))
  BY <1>1, <1>2 DEF OpenHuddle, RecordWritten, SerialTypeOK
<1> QED
  BY <1>2, <1>3, AnsweredStopIs, RecordKeeps

(* A step of the finish: it moves the task, leaves its record, or writes   *)
(* one that nothing has answered, and goes on or leaves the pass idle.     *)
FinishStep ==
  /\ phase \in SessionPhase
  /\ state' \in [Own -> TaskState] /\ claim' \in [Own -> {"none", "person", "dispatcher"}]
  /\ UNCHANGED <<waits, launched, farVars, batch, moves>> /\ late' \in {late, {}}
  /\ \/ phase' = "idle" /\ chosen' = NoRow
     \/ /\ phase' \in SessionPhase \ {"session"}
        /\ \E from \in {"none", "blocked", "in_progress"} : chosen' = [chosen EXCEPT !.from = from]

LEMMA FinishKeeps ==
  ASSUME SerialAssumption, SerialInv, FinishStep,
         stop' \in [Own -> {Nothing} \cup StopRecord], RedrivenOnce',
         phase' # "idle" => /\ stop'[chosen.task] # Nothing => stop'[chosen.task].auto = 0
                            /\ phase' \in {"unlaunched", "requeue"} => stop'[chosen.task] # Nothing
  PROVE  SerialInv'
<1>1. chosen.task \in Own
  BY DEF FinishStep, SerialInv, PassMemory, Working
<1>2. phase' # "idle" => chosen'.task = chosen.task
  BY DEF FinishStep, SerialInv, SerialTypeOK
<1>3. SerialTypeOK'
  <2>1. chosen' \in [task : Own \cup {Nothing},
                     from : {"none", "proposed", "accepted", "blocked", "in_progress"}]
    BY DEF FinishStep, NoRow, SerialInv, SerialTypeOK
  <2>2. phase' \in {"idle"} \cup SessionPhase
    BY DEF FinishStep
  <2> QED
    BY <2>1, <2>2 DEF FinishStep, SessionPhase, farVars, SerialInv, SerialTypeOK
<1>4. PassMemory' /\ LaunchedWaitsMet'
  BY <1>1, <1>2 DEF FinishStep, SessionPhase, PassMemory, Working, LaunchedWaitsMet, Launching
<1> QED
  BY <1>3, <1>4 DEF SerialInv

(* The records a finish writes have not been answered. *)
LEMMA RecordedKeeps ==
  ASSUME SerialAssumption, SerialInv, phase \in SessionPhase, NEW own \in BOOLEAN,
         stop' = [stop EXCEPT ![chosen.task] = Recorded(own)]
  PROVE  /\ stop' \in [Own -> {Nothing} \cup StopRecord] /\ RedrivenOnce'
         /\ stop'[chosen.task] # Nothing /\ stop'[chosen.task].auto = 0
<1>1. chosen.task \in Own /\ FinishRecord \in SessionStop..FinishRecord
  BY DEF SerialInv, PassMemory, Working, SessionStop, FinishRecord
<1>2. Recorded(own) \in StopRecord /\ Recorded(own).auto = 0
  BY <1>1, AnsweredStopIs DEF Recorded, SerialInv, PassMemory
<1> QED
  BY <1>1, <1>2 DEF SerialAssumption, SerialInv, SerialTypeOK, RedrivenOnce

LEMMA SessionEndsKeeps ==
  ASSUME SerialAssumption, SerialInv, SessionEnds
  PROVE  SerialInv'
<1>1. /\ phase \in SessionPhase /\ chosen.task \in Own /\ SerialTypeOK /\ RedrivenOnce
      /\ stop[chosen.task] # Nothing => stop[chosen.task].auto = 0
  BY DEF SessionEnds, Merge, ReadMerged, Complete, ReadUnmerged, BlockHalted, FinishUnreadable,
         ReadUnlaunched, BlockUnlaunched, Requeue, SessionPhase, SerialInv, PassMemory, Working
<1>2. CASE Merge \/ ReadMerged \/ Complete \/ BlockHalted
  <2>1. FinishStep
    BY <1>1, <1>2 DEF Merge, ReadMerged, Complete, BlockHalted, GoesOn, Finished, FinishStep,
                      SessionPhase, nodeVars, farVars, SerialTypeOK, TaskState
  <2>2. stop' = stop /\ phase' \notin {"unlaunched", "requeue"}
    BY <1>2 DEF Merge, ReadMerged, Complete, BlockHalted, GoesOn, Finished
  <2> QED
    BY <1>1, <2>1, <2>2, FinishKeeps DEF SerialTypeOK, RedrivenOnce
<1>3. CASE ReadUnmerged \/ FinishUnreadable \/ ReadUnlaunched
  <2>1. FinishStep
    BY <1>1, <1>3 DEF ReadUnmerged, FinishUnreadable, ReadUnlaunched, GoesOn, Finished,
                      FinishStep, SessionPhase, nodeVars, farVars, SerialTypeOK, TaskState
  <2>2. PICK own \in BOOLEAN : stop' = [stop EXCEPT ![chosen.task] = Recorded(own)]
    BY <1>3 DEF ReadUnmerged, FinishUnreadable, ReadUnlaunched
  <2> QED
    BY <1>1, <2>1, <2>2, RecordedKeeps, FinishKeeps
<1>4. CASE BlockUnlaunched
  <2>1. FinishStep /\ stop' = stop
    BY <1>1, <1>4 DEF BlockUnlaunched, FinishStep, SessionPhase, farVars, SerialTypeOK, TaskState
  <2>2. stop[chosen.task] # Nothing
    BY <1>4 DEF BlockUnlaunched, SerialInv, PassMemory
  <2> QED
    BY <1>1, <2>1, <2>2, FinishKeeps DEF SerialTypeOK, RedrivenOnce
<1>5. CASE Requeue
  <2>1. FinishStep
    BY <1>1, <1>5 DEF Requeue, Finished, FinishStep, SessionPhase, farVars, SerialTypeOK, TaskState
  <2>2. stop[chosen.task] \in StopRecord /\ stop[chosen.task].auto = 0
    BY <1>1, <1>5 DEF Requeue, SerialInv, PassMemory, SerialTypeOK
  <2>3. PICK x : x = [stop[chosen.task] EXCEPT !.auto = @ + 1]
    OBVIOUS
  <2>4. x \in StopRecord /\ x.auto = 1
    BY <2>2, <2>3, AnsweredByPass
  <2>5. stop' = stop \/ stop' = [stop EXCEPT ![chosen.task] = x]
    BY <1>5, <2>3 DEF Requeue
  <2>6. stop' \in [Own -> {Nothing} \cup StopRecord] /\ RedrivenOnce'
    BY <1>1, <2>4, <2>5 DEF SerialTypeOK, RedrivenOnce
  <2>7. phase' = "idle"
    BY <1>5 DEF Requeue, Finished
  <2> QED
    BY <2>1, <2>6, <2>7, FinishKeeps
<1> QED
  BY <1>2, <1>3, <1>4, <1>5 DEF SessionEnds

LEMMA SerialInductive ==
  ASSUME SerialAssumption, SerialInv, [SerialNext]_serialVars
  PROVE  SerialInv'
<1>1. ASSUME PassStep PROVE SerialInv'
  BY <1>1, BatchKeeps, LaunchKeeps, RedriveKeeps DEF PassStep
<1>2. ASSUME NEW t \in Own, Command(t) \/ WriteStop(t) \/ HandRedrive(t) PROVE SerialInv'
  BY <1>2, CommandKeeps, WriteStopKeeps, HandRedriveKeeps
<1>3. ASSUME NEW t \in Own, NEW f \in Far, AddWait(t, f) \/ RemoveWait(t, f) PROVE SerialInv'
  BY <1>3, AddWaitKeeps, RemoveWaitKeeps
<1>4. ASSUME UNCHANGED serialVars PROVE SerialInv'
  <2>1. SerialTypeOK' /\ RedrivenOnce'
    BY <1>4 DEF serialVars, nodeVars, farVars, passVars, SerialInv, SerialTypeOK, RedrivenOnce
  <2>2. PassMemory' /\ LaunchedWaitsMet'
    BY <1>4 DEF serialVars, nodeVars, farVars, passVars, SerialInv, PassMemory, Working,
                Unanswered, LaunchedWaitsMet, Launching, Landed
  <2> QED
    BY <2>1, <2>2 DEF SerialInv
<1> QED
  BY <1>1, <1>2, <1>3, <1>4, BatchKeeps, HuddleKeeps, SessionEndsKeeps, OutsideKeeps DEF SerialNext

(* What EndedStays says of one step. *)
EndsStay(t) ==
  \/ state'[t] = state[t] /\ ~ReadOpen(t)'
  \/ phase = "session" /\ chosen.task = t /\ state'[t] = "blocked"

LEMMA EndedStaysStep ==
  ASSUME SerialAssumption, SerialInv, [SerialNext]_serialVars, NEW t \in Own,
         Ended(t), ~ReadOpen(t)
  PROVE  EndsStay(t)
<1>1. SerialTypeOK /\ PassMemory /\ t # Nothing
  BY DEF SerialInv, SerialAssumption
<1>2. CASE PassStep
  <2>1. CASE BeginPass \/ RedriveRefused \/ ReadWaits \/ StartSession
    BY <1>1, <2>1 DEF BeginPass, RedriveRefused, ReadWaits, StartSession, NoRow, PassMemory,
                      nodeVars, ReadOpen, EndsStay
  <2>2. CASE \E u \in Own : TakeBlocked(u)
    BY <1>1, <2>2 DEF TakeBlocked, Take, nodeVars, ReadOpen, Ended, EndsStay
  <2>3. CASE Redrive
    <3>1. chosen.task # t /\ chosen.task \in Own /\ chosen' = NoRow
      BY <1>1, <2>3 DEF Redrive, ReadOpen, PassMemory
    <3>2. state' = [state EXCEPT ![chosen.task] = "accepted"]
      BY <2>3 DEF Redrive, Redriven
    <3> QED
      BY <1>1, <3>1, <3>2 DEF NoRow, SerialTypeOK, ReadOpen, EndsStay
  <2>4. CASE Evaluate
    BY <1>1, <2>4 DEF Evaluate, Eligible, NoRow, nodeVars, ReadOpen, Ended, EndsStay
  <2>5. CASE Accept \/ Claim
    <3>1. chosen.task # t /\ chosen'.task = chosen.task
      BY <1>1, <2>5 DEF Accept, Claim, ReadOpen, SerialTypeOK
    <3>2. state'[t] = state[t]
      BY <1>1, <2>5, <3>1 DEF Accept, Claim, SerialTypeOK
    <3> QED
      BY <3>1, <3>2 DEF ReadOpen, EndsStay
  <2> QED
    BY <1>2, <2>1, <2>2, <2>3, <2>4, <2>5 DEF PassStep
<1>3. CASE SessionEnds
  <2>1. CASE Merge
    BY <2>1 DEF Merge, GoesOn, nodeVars, ReadOpen, EndsStay
  <2>2. CASE ReadMerged \/ ReadUnmerged \/ ReadUnlaunched
    <3>1. state' = state
      BY <2>2 DEF ReadMerged, ReadUnmerged, ReadUnlaunched, GoesOn, nodeVars
    <3>2. CASE chosen.task = t
      <4>1. Finished
        BY <2>2, <3>2 DEF ReadMerged, ReadUnmerged, ReadUnlaunched, Ended
      <4> QED
        BY <1>1, <3>1, <4>1 DEF Finished, NoRow, ReadOpen, EndsStay
    <3>3. CASE chosen.task # t
      <4>1. chosen'.task # t
        <5>1. Finished \/ \E next, from : GoesOn(next, from)
          BY <2>2 DEF ReadMerged, ReadUnmerged, ReadUnlaunched
        <5> QED
          BY <1>1, <3>3, <5>1 DEF Finished, GoesOn, NoRow, SerialTypeOK
      <4> QED
        BY <3>1, <4>1 DEF ReadOpen, EndsStay
    <3> QED
      BY <3>2, <3>3
  <2>3. CASE Complete \/ BlockHalted \/ BlockUnlaunched \/ Requeue
    <3>1. chosen.task # t /\ chosen'.task # t
      BY <1>1, <2>3 DEF Complete, BlockHalted, BlockUnlaunched, Requeue, Finished, NoRow,
                        ReadOpen, SerialTypeOK
    <3>2. state'[t] = state[t]
      BY <1>1, <2>3, <3>1 DEF Complete, BlockHalted, BlockUnlaunched, Requeue, SerialTypeOK
    <3> QED
      BY <3>1, <3>2 DEF ReadOpen, EndsStay
  <2>4. CASE FinishUnreadable
    <3>1. phase = "session" /\ chosen'.task # t
      BY <1>1, <2>4 DEF FinishUnreadable, Finished, NoRow
    <3>2. state'[t] = state[t] \/ (chosen.task = t /\ state'[t] = "blocked")
      BY <1>1, <2>4 DEF FinishUnreadable, SerialTypeOK
    <3> QED
      BY <3>1, <3>2 DEF ReadOpen, EndsStay
  <2> QED
    BY <1>3, <2>1, <2>2, <2>3, <2>4 DEF SessionEnds
<1>4. CASE \E u \in Own : Command(u) \/ HandRedrive(u)
  <2>1. PICK u \in Own : Command(u) \/ HandRedrive(u)
    BY <1>4
  <2>2. u # t
    <3>1. Edges[state[t]] = {}
      BY DEF Edges, Ended
    <3> QED
      BY <2>1, <3>1 DEF Command, HandRedrive, Ended
  <2>3. state'[t] = state[t]
    BY <1>1, <2>1, <2>2 DEF Command, HandRedrive, Redriven, SerialTypeOK
  <2> QED
    BY <2>1, <2>3 DEF Command, HandRedrive, passVars, ReadOpen, EndsStay
<1>5. CASE PassDies
  BY <1>1, <1>5 DEF PassDies, NoRow, nodeVars, ReadOpen, EndsStay
<1>6. CASE \/ OpenHuddle \/ Darken \/ Lighten
           \/ \E u \in Own : WriteStop(u) \/ \E f \in Far : AddWait(u, f) \/ RemoveWait(u, f)
           \/ \E f \in Far : FarMove(f)
           \/ UNCHANGED serialVars
  <2>1. UNCHANGED <<state, phase, chosen>>
    BY <1>6 DEF OpenHuddle, Darken, Lighten, WriteStop, AddWait, RemoveWait, FarMove,
                serialVars, nodeVars, passVars
  <2> QED
    BY <2>1 DEF ReadOpen, EndsStay
<1> QED
  BY <1>2, <1>3, <1>4, <1>5, <1>6 DEF SerialNext

-----------------------------------------------------------------------------
(* auto_redrive, finish_session: for any tasks, commands, outages and      *)
(* deaths, what somebody ended stays as it is unless the pass had read it  *)
(* as open before and still goes on from that, and the pass reads nothing  *)
(* that ended as open.  (The finish that cannot read the graph is the      *)
(* exception.)                                                             *)
THEOREM EndedIsKept == SerialSpec => EndedStays
<1>1. SerialInit => SerialInv
  BY SerialStarts, SerialAssumption
<1>2. SerialInv /\ [SerialNext]_serialVars => SerialInv'
  BY SerialInductive, SerialAssumption
<1>3. SerialInv /\ [SerialNext]_serialVars =>
        [\A t \in Own : (Ended(t) /\ ~ReadOpen(t)) =>
           \/ state'[t] = state[t] /\ ~ReadOpen(t)'
           \/ phase = "session" /\ chosen.task = t /\ state'[t] = "blocked"
        ]_serialVars
  BY EndedStaysStep, SerialAssumption DEF EndsStay
<1> QED
  BY <1>1, <1>2, <1>3, PTL DEF SerialSpec, EndedStays

(* AD-038-R8: for any tasks and any projects, whatever commands come in    *)
(* between, no session works on a task before what it waited for when the  *)
(* queue was read has landed.                                              *)
THEOREM WaitsAreMet == SerialSpec => []LaunchedWaitsMet
<1>1. SerialInit => SerialInv
  BY SerialStarts, SerialAssumption
<1>2. SerialInv /\ [SerialNext]_serialVars => SerialInv'
  BY SerialInductive, SerialAssumption
<1>3. SerialInv => LaunchedWaitsMet
  BY DEF SerialInv
<1> QED
  BY <1>1, <1>2, <1>3, PTL DEF SerialSpec

(* "keeps the automatic redrive to one per stop": for any number of tasks, *)
(* passes, deaths and commands.                                            *)
THEOREM OneRedrivePerStop == SerialSpec => []RedrivenOnce
<1>1. SerialInit => SerialInv
  BY SerialStarts, SerialAssumption
<1>2. SerialInv /\ [SerialNext]_serialVars => SerialInv'
  BY SerialInductive, SerialAssumption
<1>3. SerialInv => RedrivenOnce
  BY DEF SerialInv
<1> QED
  BY <1>1, <1>2, <1>3, PTL DEF SerialSpec
==============================================================================
