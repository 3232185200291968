------------------------ MODULE LeaseAndStationsProofs ------------------------
(***************************************************************************)
(* The two locks between processes of the dispatcher.  The lock file, for  *)
(* any number of passes, supervisors and inodes; and the stations, for any *)
(* number of inspectors, orders and records: the types, and that no record *)
(* is answered twice.                                                      *)
(***************************************************************************)
EXTENDS Lease, Stations, TLAPS, WellFoundedInduction

Holding == {"locked", "signing", "holding", "exiting", "unlocking"}

(* A process has a file open exactly from its open to its exit, and the    *)
(* file has been created.                                                  *)
HandlesOpen ==
  \A p \in Process :
    IF pc[p] \in Holding \cup {"opened"} THEN handle[p] \in Inode \ unused
    ELSE handle[p] = None

(* The flock of a file belongs to the one process past its acquisition     *)
(* that has the file open.                                                 *)
FlocksHeld ==
  /\ \A p \in Process : pc[p] \in Holding => flock[handle[p]] = p
  /\ \A i \in Inode : flock[i] # None =>
       pc[flock[i]] \in Holding /\ handle[flock[i]] = i

(* A file that was never created is blank, and not at the path. *)
UnusedAreBlank ==
  path \notin unused /\ \A i \in unused : body[i] = Blank

(* Until the path is unlinked, it names the only file anybody has open. *)
OneFileUntilReaped ==
  ~reaped => \A p \in Process : handle[p] # None => handle[p] = path

(* What the file at the path says, and what its holder is about to write   *)
(* back to it, names that holder or a process that died.                   *)
BodyIsHonest ==
  /\ path # None /\ body[path] \in Process =>
       body[path] \in died \/ flock[path] = body[path]
  /\ \A p \in Process :
       /\ pc[p] = "signing" /\ handle[p] = path /\ kept[p] \in Process
       => kept[p] = p \/ kept[p] \in died
  /\ \A p \in Process : pc[p] = "exiting" => kept[p] = Released
  /\ \A p \in Process : pc[p] = "unlocking" => body[handle[p]] = Released
  /\ \A p \in died : pc[p] = "gone"

LeaseInv ==
  /\ TypeOK /\ HandlesOpen /\ FlocksHeld
  /\ UnusedAreBlank /\ OneFileUntilReaped /\ BodyIsHonest

-----------------------------------------------------------------------------
(* Nothing is open, locked or written at first. *)
LEMMA InitLeaseInv == Init => LeaseInv
<1> SUFFICES ASSUME Init
             PROVE  LeaseInv
  OBVIOUS
<1> USE LeaseAssumption DEF Init, Process
<1>1. TypeOK
  BY DEF TypeOK, Body
<1>2. HandlesOpen /\ FlocksHeld
  BY DEF HandlesOpen, FlocksHeld, Holding
<1>3. UnusedAreBlank /\ OneFileUntilReaped /\ BodyIsHonest
  BY DEF UnusedAreBlank, OneFileUntilReaped, BodyIsHonest
<1>4. QED
  BY <1>1, <1>2, <1>3 DEF LeaseInv

(* Every step keeps the variables' types. *)
LEMMA TypeStep == TypeOK /\ [Next]_vars => TypeOK'
<1> SUFFICES ASSUME TypeOK, [Next]_vars
             PROVE  TypeOK'
  OBVIOUS
<1> USE DEF TypeOK, Body
<1>1. ASSUME NEW p \in Process, Open(p)
      PROVE  TypeOK'
  BY <1>1 DEF Open
<1>2. ASSUME NEW p \in Process, Lock(p)
      PROVE  TypeOK'
  BY <1>2 DEF Lock
<1>3. ASSUME NEW p \in Process, Refused(p)
      PROVE  TypeOK'
  BY <1>3 DEF Refused
<1>4. ASSUME NEW p \in Process, TimeOut(p)
      PROVE  TypeOK'
  BY <1>4 DEF TimeOut
<1>5. ASSUME NEW p \in Process, Sign(p)
      PROVE  TypeOK'
  BY <1>5 DEF Sign, Rewrite
<1>6. ASSUME NEW p \in Process, Signed(p)
      PROVE  TypeOK'
  BY <1>6 DEF Signed, WriteDown
<1>7. ASSUME NEW p \in Process, Beat(p)
      PROVE  TypeOK'
  <2>1. ReadLease \in Body
    BY DEF ReadLease
  <2>2. kept' \in [Process -> Body] /\ body' \in [Inode -> Body]
    BY <1>7, <2>1 DEF Beat, Rewrite
  <2>3. QED
    BY <1>7, <2>2 DEF Beat, Rewrite
<1>8. ASSUME NEW p \in Process, Exit(p)
      PROVE  TypeOK'
  BY <1>8 DEF Exit, Rewrite
<1>9. ASSUME NEW p \in Process, Exited(p)
      PROVE  TypeOK'
  BY <1>9 DEF Exited, WriteDown
<1>10. ASSUME NEW p \in Process, Unlock(p)
       PROVE  TypeOK'
  BY <1>10 DEF Unlock
<1>11. ASSUME NEW p \in Process, Die(p)
       PROVE  TypeOK'
  BY <1>11 DEF Die
<1>12. CASE FindDead
  BY <1>12 DEF FindDead
<1>13. CASE Unlink
  BY <1>13 DEF Unlink
<1>14. CASE UNCHANGED vars
  BY <1>14 DEF vars
<1>15. QED
  BY <1>1, <1>2, <1>3, <1>4, <1>5, <1>6, <1>7, <1>8, <1>9, <1>10, <1>11,
     <1>12, <1>13, <1>14 DEF Next, Step

(* Every step keeps the invariant, conjunct by conjunct. *)
LEMMA StepLeaseInv == LeaseInv /\ [Next]_vars => LeaseInv'
<1> SUFFICES ASSUME LeaseInv, [Next]_vars
             PROVE  LeaseInv'
  OBVIOUS
<1>0. TypeOK /\ TypeOK'
  BY TypeStep DEF LeaseInv
<1> USE LeaseAssumption DEF LeaseInv, TypeOK, Body, Process, Blank, Released, Holding
<1>1. ASSUME NEW p \in Process, Open(p)
      PROVE  LeaseInv'
  <2>0. /\ pc' = [pc EXCEPT ![p] = "opened"]
        /\ unused' \subseteq unused
        /\ \E i \in Inode \ unused' : handle' = [handle EXCEPT ![p] = i]
    <3>1. CASE path = None
      BY <1>0, <1>1, <3>1 DEF Open
    <3>2. CASE path # None
      BY <1>0, <1>1, <3>2 DEF Open, UnusedAreBlank
    <3>3. QED
      BY <3>1, <3>2
  <2>1. HandlesOpen'
    BY <1>0, <2>0 DEF HandlesOpen
  <2>2. FlocksHeld'
    <3>1. \A q \in Process : pc'[q] \in Holding => q # p /\ pc[q] \in Holding
      BY <1>0, <2>0
    <3>2. \A q \in Process : q # p => pc'[q] = pc[q] /\ handle'[q] = handle[q]
      BY <1>0, <2>0
    <3>3. flock' = flock /\ \A i \in Inode : flock[i] # p
      BY <1>0, <1>1 DEF Open, FlocksHeld
    <3>4. QED
      BY <1>0, <3>1, <3>2, <3>3 DEF FlocksHeld
  <2>3. UnusedAreBlank'
    BY <1>0, <1>1 DEF Open, UnusedAreBlank, HandlesOpen
  <2>4. OneFileUntilReaped'
    BY <1>0, <1>1 DEF Open, OneFileUntilReaped, HandlesOpen
  <2>5. BodyIsHonest'
    BY <1>0, <1>1 DEF Open, BodyIsHonest, FlocksHeld, HandlesOpen, UnusedAreBlank
  <2>6. QED
    BY <1>0, <2>1, <2>2, <2>3, <2>4, <2>5 DEF LeaseInv
<1>2. ASSUME NEW p \in Process, Lock(p)
      PROVE  LeaseInv'
  <2>1. HandlesOpen'
    BY <1>0, <1>2 DEF Lock, HandlesOpen
  <2>2. FlocksHeld'
    BY <1>0, <1>2 DEF Lock, FlocksHeld, HandlesOpen
  <2>3. UnusedAreBlank'
    BY <1>0, <1>2 DEF Lock, UnusedAreBlank, HandlesOpen
  <2>4. OneFileUntilReaped'
    BY <1>0, <1>2 DEF Lock, OneFileUntilReaped, HandlesOpen
  <2>5. BodyIsHonest'
    BY <1>0, <1>2 DEF Lock, BodyIsHonest, FlocksHeld, HandlesOpen, UnusedAreBlank
  <2>6. QED
    BY <1>0, <2>1, <2>2, <2>3, <2>4, <2>5 DEF LeaseInv
<1>3. ASSUME NEW p \in Process, Refused(p)
      PROVE  LeaseInv'
  <2>1. HandlesOpen'
    BY <1>0, <1>3 DEF Refused, HandlesOpen
  <2>2. FlocksHeld'
    BY <1>0, <1>3 DEF Refused, FlocksHeld, HandlesOpen
  <2>3. UnusedAreBlank'
    BY <1>0, <1>3 DEF Refused, UnusedAreBlank, HandlesOpen
  <2>4. OneFileUntilReaped'
    BY <1>0, <1>3 DEF Refused, OneFileUntilReaped, HandlesOpen
  <2>5. BodyIsHonest'
    BY <1>0, <1>3 DEF Refused, BodyIsHonest, FlocksHeld, HandlesOpen, UnusedAreBlank
  <2>6. QED
    BY <1>0, <2>1, <2>2, <2>3, <2>4, <2>5 DEF LeaseInv
<1>4. ASSUME NEW p \in Process, TimeOut(p)
      PROVE  LeaseInv'
  BY <1>0, <1>4
  DEF TimeOut, HandlesOpen, FlocksHeld, UnusedAreBlank, OneFileUntilReaped,
      BodyIsHonest
<1>5. ASSUME NEW p \in Process, Sign(p)
      PROVE  LeaseInv'
  <2>1. HandlesOpen'
    BY <1>0, <1>5 DEF Sign, Rewrite, HandlesOpen
  <2>2. FlocksHeld'
    BY <1>0, <1>5 DEF Sign, Rewrite, FlocksHeld, HandlesOpen
  <2>3. UnusedAreBlank'
    BY <1>0, <1>5 DEF Sign, Rewrite, UnusedAreBlank, HandlesOpen
  <2>4. OneFileUntilReaped'
    BY <1>0, <1>5 DEF Sign, Rewrite, OneFileUntilReaped, HandlesOpen
  <2>5. BodyIsHonest'
    BY <1>0, <1>5 DEF Sign, Rewrite, BodyIsHonest, FlocksHeld, HandlesOpen, UnusedAreBlank
  <2>6. QED
    BY <1>0, <2>1, <2>2, <2>3, <2>4, <2>5 DEF LeaseInv
<1>6. ASSUME NEW p \in Process, Signed(p)
      PROVE  LeaseInv'
  <2>1. HandlesOpen'
    BY <1>0, <1>6 DEF Signed, WriteDown, HandlesOpen
  <2>2. FlocksHeld'
    BY <1>0, <1>6 DEF Signed, WriteDown, FlocksHeld, HandlesOpen
  <2>3. UnusedAreBlank'
    BY <1>0, <1>6 DEF Signed, WriteDown, UnusedAreBlank, HandlesOpen
  <2>4. OneFileUntilReaped'
    BY <1>0, <1>6 DEF Signed, WriteDown, OneFileUntilReaped, HandlesOpen
  <2>5. BodyIsHonest'
    BY <1>0, <1>6 DEF Signed, WriteDown, BodyIsHonest, FlocksHeld, HandlesOpen, UnusedAreBlank
  <2>6. QED
    BY <1>0, <2>1, <2>2, <2>3, <2>4, <2>5 DEF LeaseInv
<1>7. ASSUME NEW p \in Process, Beat(p)
      PROVE  LeaseInv'
  <2>1. HandlesOpen'
    BY <1>0, <1>7 DEF Beat, Rewrite, ReadLease, HandlesOpen
  <2>2. FlocksHeld'
    BY <1>0, <1>7 DEF Beat, Rewrite, ReadLease, FlocksHeld, HandlesOpen
  <2>3. UnusedAreBlank'
    BY <1>0, <1>7 DEF Beat, Rewrite, ReadLease, UnusedAreBlank, HandlesOpen
  <2>4. OneFileUntilReaped'
    BY <1>0, <1>7 DEF Beat, Rewrite, ReadLease, OneFileUntilReaped, HandlesOpen
  <2>5. BodyIsHonest'
    BY <1>0, <1>7 DEF Beat, Rewrite, ReadLease, BodyIsHonest, FlocksHeld, HandlesOpen, UnusedAreBlank
  <2>6. QED
    BY <1>0, <2>1, <2>2, <2>3, <2>4, <2>5 DEF LeaseInv
<1>8. ASSUME NEW p \in Process, Exit(p)
      PROVE  LeaseInv'
  <2>1. HandlesOpen'
    BY <1>0, <1>8 DEF Exit, Rewrite, HandlesOpen
  <2>2. FlocksHeld'
    BY <1>0, <1>8 DEF Exit, Rewrite, FlocksHeld, HandlesOpen
  <2>3. UnusedAreBlank'
    BY <1>0, <1>8 DEF Exit, Rewrite, UnusedAreBlank, HandlesOpen
  <2>4. OneFileUntilReaped'
    BY <1>0, <1>8 DEF Exit, Rewrite, OneFileUntilReaped, HandlesOpen
  <2>5. BodyIsHonest'
    BY <1>0, <1>8 DEF Exit, Rewrite, BodyIsHonest, FlocksHeld, HandlesOpen, UnusedAreBlank
  <2>6. QED
    BY <1>0, <2>1, <2>2, <2>3, <2>4, <2>5 DEF LeaseInv
<1>9. ASSUME NEW p \in Process, Exited(p)
      PROVE  LeaseInv'
  <2>1. HandlesOpen'
    BY <1>0, <1>9 DEF Exited, WriteDown, HandlesOpen
  <2>2. FlocksHeld'
    BY <1>0, <1>9 DEF Exited, WriteDown, FlocksHeld, HandlesOpen
  <2>3. UnusedAreBlank'
    BY <1>0, <1>9 DEF Exited, WriteDown, UnusedAreBlank, HandlesOpen
  <2>4. OneFileUntilReaped'
    BY <1>0, <1>9 DEF Exited, WriteDown, OneFileUntilReaped, HandlesOpen
  <2>5. BodyIsHonest'
    BY <1>0, <1>9 DEF Exited, WriteDown, BodyIsHonest, FlocksHeld, HandlesOpen, UnusedAreBlank
  <2>6. QED
    BY <1>0, <2>1, <2>2, <2>3, <2>4, <2>5 DEF LeaseInv
<1>10. ASSUME NEW p \in Process, Unlock(p)
      PROVE  LeaseInv'
  <2>1. HandlesOpen'
    BY <1>0, <1>10 DEF Unlock, HandlesOpen
  <2>2. FlocksHeld'
    BY <1>0, <1>10 DEF Unlock, FlocksHeld, HandlesOpen
  <2>3. UnusedAreBlank'
    BY <1>0, <1>10 DEF Unlock, UnusedAreBlank, HandlesOpen
  <2>4. OneFileUntilReaped'
    BY <1>0, <1>10 DEF Unlock, OneFileUntilReaped, HandlesOpen
  <2>5. BodyIsHonest'
    BY <1>0, <1>10 DEF Unlock, BodyIsHonest, FlocksHeld, HandlesOpen, UnusedAreBlank
  <2>6. QED
    BY <1>0, <2>1, <2>2, <2>3, <2>4, <2>5 DEF LeaseInv
<1>11. ASSUME NEW p \in Process, Die(p)
      PROVE  LeaseInv'
  <2>1. HandlesOpen'
    BY <1>0, <1>11 DEF Die, Started, HandlesOpen
  <2>2. FlocksHeld'
    BY <1>0, <1>11 DEF Die, Started, FlocksHeld, HandlesOpen
  <2>3. UnusedAreBlank'
    BY <1>0, <1>11 DEF Die, Started, UnusedAreBlank, HandlesOpen
  <2>4. OneFileUntilReaped'
    BY <1>0, <1>11 DEF Die, Started, OneFileUntilReaped, HandlesOpen
  <2>5. BodyIsHonest'
    BY <1>0, <1>11 DEF Die, Started, BodyIsHonest, FlocksHeld, HandlesOpen, UnusedAreBlank
  <2>6. QED
    BY <1>0, <2>1, <2>2, <2>3, <2>4, <2>5 DEF LeaseInv
<1>12. CASE FindDead
  BY <1>0, <1>12
  DEF FindDead, HandlesOpen, FlocksHeld, UnusedAreBlank, OneFileUntilReaped,
      BodyIsHonest
<1>13. CASE Unlink
  <2>1. HandlesOpen'
    BY <1>0, <1>13 DEF Unlink, HandlesOpen
  <2>2. FlocksHeld'
    BY <1>0, <1>13 DEF Unlink, FlocksHeld, HandlesOpen
  <2>3. UnusedAreBlank'
    BY <1>0, <1>13 DEF Unlink, UnusedAreBlank, HandlesOpen
  <2>4. OneFileUntilReaped'
    BY <1>0, <1>13 DEF Unlink, OneFileUntilReaped, HandlesOpen
  <2>5. BodyIsHonest'
    BY <1>0, <1>13 DEF Unlink, BodyIsHonest, FlocksHeld, HandlesOpen, UnusedAreBlank
  <2>6. QED
    BY <1>0, <2>1, <2>2, <2>3, <2>4, <2>5 DEF LeaseInv
<1>14. CASE UNCHANGED vars
  BY <1>0, <1>14
  DEF vars, HandlesOpen, FlocksHeld, UnusedAreBlank, OneFileUntilReaped,
      BodyIsHonest
<1>15. QED
  BY <1>1, <1>2, <1>3, <1>4, <1>5, <1>6, <1>7, <1>8, <1>9, <1>10, <1>11,
     <1>12, <1>13, <1>14 DEF Next, Step

(* The invariant holds in every state of every behaviour. *)
LEMMA Inductive == Spec => []LeaseInv
<1>1. Init => LeaseInv
  BY InitLeaseInv
<1>2. LeaseInv /\ [Next]_vars => LeaseInv'
  BY StepLeaseInv
<1>3. QED
  BY <1>1, <1>2, PTL DEF Spec

-----------------------------------------------------------------------------
(* Every variable keeps its type (core/dispatch.py:Lease). *)
THEOREM TypeCorrect == Spec => []TypeOK
<1>1. LeaseInv => TypeOK
  BY DEF LeaseInv
<1>2. QED
  BY <1>1, Inductive, PTL

(* However many passes and supervisors there are, at most one of them      *)
(* holds the lease until somebody reaps it (Lease.__enter__, __exit__:     *)
(* the released file is kept so that the flock has a stable inode).        *)
THEOREM MutualExclusion == Spec => []OneHolderUntilReaped
<1>1. LeaseInv => OneHolderUntilReaped
  <2> SUFFICES ASSUME LeaseInv, ~reaped, NEW p \in Holders, NEW q \in Holders
               PROVE  p = q
    BY DEF OneHolderUntilReaped, OneHolder
  <2>1. /\ p \in Process /\ pc[p] \in Holding
        /\ q \in Process /\ pc[q] \in Holding
    BY DEF Holders, Holding
  <2>2. handle[p] = path /\ handle[q] = path
    BY <2>1, LeaseAssumption DEF LeaseInv, HandlesOpen, OneFileUntilReaped
  <2>3. flock[path] = p /\ flock[path] = q
    BY <2>1, <2>2 DEF LeaseInv, FlocksHeld
  <2>4. QED
    BY <2>3
<1>2. QED
  BY <1>1, Inductive, PTL

(* What `status` and `seldon go` read without the lock is right about a    *)
(* live holder, reaper or no reaper (read_lease, worktree_holder_alive).   *)
THEOREM LiveBodyIsHolder == Spec => []LiveBodyHolds
<1>1. LeaseInv => LiveBodyHolds
  <2> SUFFICES ASSUME LeaseInv, ReadLease \in Alive
               PROVE  flock[path] = ReadLease
    BY DEF LiveBodyHolds
  <2>1. ReadLease \in Process /\ pc[ReadLease] # "gone"
    BY DEF Alive, Started
  <2>2. path # None /\ ReadLease = body[path]
    BY <2>1, LeaseAssumption DEF ReadLease, Process, Blank
  <2>3. QED
    BY <2>1, <2>2 DEF LeaseInv, BodyIsHonest
<1>2. QED
  BY <1>1, Inductive, PTL

(* An ordinary exit never leaves a body that looks like a dead holder's    *)
(* (Lease.__exit__ records the release before it unlocks).                 *)
THEOREM NoFalseAlarmEver == Spec => []NoFalseAlarm
<1>1. LeaseInv => NoFalseAlarm
  <2> SUFFICES ASSUME LeaseInv, ReadLease \in Process \ Alive
               PROVE  ReadLease \in died
    BY DEF NoFalseAlarm
  <2>1. path # None /\ ReadLease = body[path]
    BY LeaseAssumption DEF ReadLease, Process, Blank
  <2>2. path \in Inode /\ pc[ReadLease] \in {"new", "gone"}
    BY <2>1 DEF LeaseInv, TypeOK, Alive, Started
  <2>3. flock[path] # ReadLease
    BY <2>2, LeaseAssumption DEF LeaseInv, FlocksHeld, Holding, Process
  <2>4. QED
    BY <2>1, <2>3 DEF LeaseInv, BodyIsHonest
<1>2. QED
  BY <1>1, Inductive, PTL

-----------------------------------------------------------------------------
(* A set of positions has a first one. *)
LEMMA FirstType ==
  ASSUME NEW set, set \subseteq Nat
  PROVE  First(set) \in Nat /\ (First(set) = 0 \/ First(set) \in set)
<1>1. CASE set = {}
  BY <1>1 DEF First
<1>2. CASE set # {}
  <2>1. PICK x \in set : \A y \in set : ~(<<y, x>> \in OpToRel(<, Nat))
    BY <1>2, NatLessThanWellFounded, WFMin
  <2>2. ASSUME NEW y \in set PROVE x <= y
    <3>1. <<y, x>> \in Nat \X Nat
      OBVIOUS
    <3>2. <<y, x>> \in OpToRel(<, Nat) <=> y < x
      BY <3>1 DEF OpToRel
    <3>3. ~(y < x)
      BY <2>1, <3>2, Zenon
    <3> QED
      BY <3>3
  <2>3. Min(set) \in set
    BY <2>1, <2>2 DEF Min
  <2> QED
    BY <1>2, <2>3 DEF First
<1> QED
  BY <1>1, <1>2

LEMMA PendingTypes ==
  ASSUME StationsTypeOK
  PROVE  PendingStop \in Nat /\ PendingHardStop \in Nat
<1>1. Unanswered \subseteq Nat /\ UnansweredHard \subseteq Nat
  BY DEF StationsTypeOK, Unanswered, UnansweredHard
<1> QED
  BY <1>1, FirstType DEF PendingStop, PendingHardStop

LEMMA AnswerType ==
  ASSUME NEW all \in Seq(Stop), NEW k \in Nat
  PROVE  Answer(all, k) \in Seq(Stop) /\ Len(Answer(all, k)) = Len(all)
<1>1. CASE k = 0
  BY <1>1 DEF Answer
<1>2. CASE k # 0 /\ k \notin DOMAIN all
  <2>1. Answer(all, k) = all
    BY <1>2 DEF Answer
  <2> QED
    BY <2>1
<1>3. CASE k # 0 /\ k \in DOMAIN all
  <2>1. Answer(all, k) = [all EXCEPT ![k] = [[all[k] EXCEPT !.answered = TRUE] EXCEPT !.due = FALSE]]
    BY <1>3 DEF Answer
  <2>2. all[k] \in Stop
    BY <1>3
  <2>3. [[all[k] EXCEPT !.answered = TRUE] EXCEPT !.due = FALSE] \in Stop
    BY <2>2 DEF Stop
  <2> QED
    BY <2>1, <2>3, <1>3
<1> QED
  BY <1>1, <1>3, <1>2

LEMMA StopOfType ==
  ASSUME NEW kind \in {"line", "andon", "hard"},
         NEW reason \in {"unanswered", "article", "operator", "spend"}
  PROVE  StopOf(kind, reason) \in Stop
BY DEF StopOf, Stop

LEMMA InitType == StationsInit => StationsTypeOK
<1> SUFFICES ASSUME StationsInit PROVE StationsTypeOK
  OBVIOUS
<1>1. NothingSeen \in [todo : SUBSET Nat, spend : BOOLEAN, due : Nat]
  BY DEF NothingSeen
<1>2. seen \in [Inspector -> [todo : SUBSET Nat, spend : BOOLEAN, due : Nat]]
  BY <1>1 DEF StationsInit
<1>3. doing \in [Inspector -> {"idle", "reading", "reaping"}]
  BY DEF StationsInit
<1>4. stops \in Seq(Stop) /\ asked \in Seq(Ask)
  BY DEF StationsInit
<1>5. orders \in 0..MaxOrders
  BY StationsAssumption DEF StationsInit
<1>6. session = "work" /\ hung = FALSE /\ quiet = FALSE /\ refusal = FALSE
      /\ spent = FALSE /\ calm = FALSE /\ lock = Nobody
  BY DEF StationsInit
<1> QED
  BY <1>2, <1>3, <1>4, <1>5, <1>6 DEF StationsTypeOK

-----------------------------------------------------------------------------
(* The types are kept, one lemma for each part of the session and of an    *)
(* inspection. *)

LEMMA CallType ==
  ASSUME StationsTypeOK, Denied \/ Call \/ Boundary
  PROVE  StationsTypeOK'
<1>1. stops' \in Seq(Stop)
  <2>1. CASE Denied
    BY <2>1, PendingTypes, AnswerType DEF StationsTypeOK, Denied
  <2>2. CASE Call
    BY <2>2 DEF StationsTypeOK, Call
  <2>3. CASE Boundary
    BY <2>3, PendingTypes, AnswerType DEF StationsTypeOK, Boundary
  <2> QED
    BY <2>1, <2>2, <2>3
<1> QED
  BY <1>1 DEF StationsTypeOK, Denied, Call, Boundary, Calls, LogGrows, sessionVars, inspectVars

LEMMA AskType ==
  ASSUME StationsTypeOK, PartComplete \/ FirstArticle
  PROVE  StationsTypeOK'
<1>1. stops' \in Seq(Stop)
  <2>1. CASE PartComplete
    BY <2>1, PendingTypes, AnswerType DEF StationsTypeOK, PartComplete
  <2>2. CASE FirstArticle
    BY <2>2 DEF StationsTypeOK, FirstArticle
  <2> QED
    BY <2>1, <2>2
<1>2. asked' \in Seq(Ask) /\ asked' # <<>>
  <2>1. PICK of \in {"part", "article"}, ready \in BOOLEAN :
          asked' = Append(asked, [of |-> of, ready |-> ready, verdicts |-> 0, passed |-> FALSE])
    BY DEF PartComplete, FirstArticle
  <2>2. [of |-> of, ready |-> ready, verdicts |-> 0, passed |-> FALSE] \in Ask
    BY DEF Ask
  <2> QED
    BY <2>1, <2>2 DEF StationsTypeOK
<1> QED
  BY <1>1, <1>2
     DEF StationsTypeOK, PartComplete, FirstArticle, Calls, LogGrows, inspectVars

LEMMA WaitType ==
  ASSUME StationsTypeOK, Poll \/ WaitOver
  PROVE  StationsTypeOK'
<1>1. stops' \in Seq(Stop)
  <2>1. CASE Poll
    BY <2>1, PendingTypes, AnswerType DEF StationsTypeOK, Poll
  <2>2. CASE WaitOver
    <3>1. Append(stops, StopOf("line", "unanswered")) \in Seq(Stop)
      BY StopOfType DEF StationsTypeOK
    <3>2. (IF PendingStop = 0 THEN Len(stops) + 1 ELSE PendingStop) \in Nat
      BY PendingTypes DEF StationsTypeOK
    <3> QED
      BY <2>2, <3>1, <3>2, AnswerType DEF WaitOver
  <2> QED
    BY <2>1, <2>2
<1>2. asked' \in Seq(Ask)
  <2>1. CASE Poll
    BY <2>1 DEF StationsTypeOK, Poll
  <2>2. CASE WaitOver
    <3>1. Len(asked) \in DOMAIN asked
      BY <2>2 DEF StationsTypeOK, WaitOver, Waits
    <3>2. asked[Len(asked)] \in Ask
      BY <3>1 DEF StationsTypeOK
    <3>3. [asked[Len(asked)] EXCEPT !.ready = FALSE] \in Ask
      BY <3>2 DEF Ask
    <3>4. asked' = [asked EXCEPT ![Len(asked)] = [asked[Len(asked)] EXCEPT !.ready = FALSE]]
      BY <2>2 DEF WaitOver
    <3> QED
      BY <3>1, <3>3, <3>4 DEF StationsTypeOK
  <2> QED
    BY <2>1, <2>2
<1> QED
  BY <1>1, <1>2 DEF StationsTypeOK, Poll, WaitOver, Waits, LogGrows, inspectVars

LEMMA GateType ==
  ASSUME StationsTypeOK, TryEnd \/ StopGate
  PROVE  StationsTypeOK'
<1>1. CASE TryEnd
  BY <1>1 DEF StationsTypeOK, TryEnd, inspectVars
<1>2. CASE StopGate
  <2>1. asked' \in Seq(Ask)
    <3>1. ASSUME NEW k \in DOMAIN asked
          PROVE  [asked[k] EXCEPT !.ready = @ \/ k \in Parts] \in Ask
      <4>1. asked[k] \in Ask
        BY DEF StationsTypeOK
      <4>2. (asked[k].ready \/ k \in Parts) \in BOOLEAN
        OBVIOUS
      <4> QED
        BY <4>1, <4>2 DEF Ask
    <3>2. DOMAIN asked = 1..Len(asked) /\ Len(asked) \in Nat
      BY DEF StationsTypeOK
    <3>3. asked' \in [1..Len(asked) -> Ask]
      BY <1>2, <3>1, <3>2 DEF StopGate
    <3> QED
      BY <3>2, <3>3
  <2>2. stops' \in Seq(Stop)
    <3>1. [StopOf("hard", "spend") EXCEPT !.answered = TRUE] \in Stop
      BY DEF StopOf, Stop
    <3>2. stops' = stops \/ stops' = Append(stops, [StopOf("hard", "spend") EXCEPT !.answered = TRUE])
      BY <1>2, Zenon DEF StopGate
    <3>3. stops \in Seq(Stop)
      BY DEF StationsTypeOK
    <3> QED
      BY <3>1, <3>2, <3>3
  <2>3. session' \in {"work", "over"} /\ refusal' \in BOOLEAN
    BY <1>2 DEF StationsTypeOK, StopGate
  <2> QED
    BY <1>2, <2>1, <2>2, <2>3 DEF StationsTypeOK, StopGate, inspectVars
<1> QED
  BY <1>1, <1>2

LEMMA OutsideType ==
  ASSUME StationsTypeOK,
         Hang \/ SessionExits \/ Elapse \/ FallSilent \/ OrderStop("andon") \/ OrderStop("hard")
  PROVE  StationsTypeOK'
<1>1. CASE Hang \/ SessionExits \/ FallSilent
  BY <1>1 DEF StationsTypeOK, Hang, SessionExits, FallSilent, sessionVars, inspectVars
<1>2. CASE Elapse
  <2>1. PICK k \in UnansweredHard : stops' = [stops EXCEPT ![k].due = TRUE]
    BY <1>2 DEF Elapse
  <2>2. k \in DOMAIN stops
    BY DEF UnansweredHard, Unanswered
  <2>3. stops[k] \in Stop
    BY <2>2 DEF StationsTypeOK
  <2>4. [stops[k] EXCEPT !.due = TRUE] \in Stop
    BY <2>3 DEF Stop
  <2>5. stops' \in Seq(Stop)
    BY <2>1, <2>2, <2>4 DEF StationsTypeOK
  <2> QED
    BY <1>2, <2>5 DEF StationsTypeOK, Elapse, sessionVars, inspectVars
<1>3. ASSUME NEW kind \in {"andon", "hard"}, OrderStop(kind) PROVE StationsTypeOK'
  <2>1. stops' \in Seq(Stop)
    BY <1>3, StopOfType DEF StationsTypeOK, OrderStop
  <2>2. orders' \in 0..MaxOrders
    BY <1>3, StationsAssumption DEF StationsTypeOK, OrderStop
  <2> QED
    BY <1>3, <2>1, <2>2 DEF StationsTypeOK, OrderStop, sessionVars, inspectVars
<1> QED
  BY <1>1, <1>2, <1>3

Snapshot == [todo : SUBSET Nat, spend : BOOLEAN, due : Nat]

LEMMA StartType ==
  ASSUME StationsTypeOK, NEW i \in Inspector, StartInspection(i)
  PROVE  StationsTypeOK'
<1>1. PICK todo, spend :
        /\ todo = {k \in DOMAIN asked : asked[k].ready /\ asked[k].verdicts = 0}
        /\ spend = (\E k \in DOMAIN stops : stops[k].kind = "hard" /\ stops[k].reason = "spend")
  OBVIOUS
<1>2. First({k \in UnansweredHard : i = Holder /\ stops[k].due}) \in Nat
  <2>1. {k \in UnansweredHard : i = Holder /\ stops[k].due} \subseteq Nat
    BY DEF StationsTypeOK, UnansweredHard, Unanswered
  <2> QED
    BY <2>1, FirstType
<1>3. todo \in SUBSET Nat
  BY <1>1 DEF StationsTypeOK
<1>4. spend \in BOOLEAN
  BY <1>1
<1>5. [todo |-> todo, spend |-> spend,
       due |-> First({k \in UnansweredHard : i = Holder /\ stops[k].due})] \in Snapshot
  BY <1>2, <1>3, <1>4 DEF Snapshot
<1>6. seen' \in [Inspector -> Snapshot]
  BY <1>1, <1>5, Zenon DEF StationsTypeOK, StartInspection, Snapshot
<1>7. calm' \in BOOLEAN
  BY DEF StationsTypeOK, StartInspection
<1> QED
  BY <1>6, <1>7 DEF StationsTypeOK, StartInspection, Snapshot, sessionVars

LEMMA ReadType ==
  ASSUME StationsTypeOK, NEW i \in Inspector, Read(i)
  PROVE  StationsTypeOK'
<1>1. PICK k \in seen[i].todo, verdict \in {"pass", "huddle", "line"} :
        /\ seen' = [seen EXCEPT ![i].todo = @ \ {k}]
        /\ asked' = [asked EXCEPT ![k].verdicts = @ + 1, ![k].passed = @ \/ verdict = "pass"]
        /\ stops' = IF verdict = "line" THEN Append(stops, StopOf("line", "article")) ELSE stops
  BY DEF Read
<1>2. seen' \in [Inspector -> Snapshot]
  <2>1. seen[i] \in Snapshot
    BY DEF StationsTypeOK, Snapshot
  <2>2. [seen[i] EXCEPT !.todo = @ \ {k}] \in Snapshot
    BY <2>1 DEF Snapshot
  <2> QED
    BY <1>1, <2>2 DEF StationsTypeOK, Snapshot
<1>3. asked' \in Seq(Ask) /\ (asked # <<>> => asked' # <<>>)
  <2>1. CASE k \in DOMAIN asked
    <3>1. asked[k] \in Ask
      BY <2>1 DEF StationsTypeOK
    <3>2. PICK b \in BOOLEAN : b = (asked[k].passed \/ verdict = "pass")
      OBVIOUS
    <3>3. [[asked[k] EXCEPT !.verdicts = @ + 1] EXCEPT !.passed = b] \in Ask
      <4>1. asked[k].verdicts + 1 \in Nat
        BY <3>1 DEF Ask
      <4>2. [asked[k] EXCEPT !.verdicts = @ + 1] \in Ask
        BY <3>1, <4>1 DEF Ask
      <4>3. ASSUME NEW a \in Ask PROVE [a EXCEPT !.passed = b] \in Ask
        BY DEF Ask
      <4> QED
        BY <4>2, <4>3
    <3>4. [[asked[k] EXCEPT !.verdicts = @ + 1] EXCEPT !.passed = @ \/ verdict = "pass"] \in Ask
      <4>1. [[asked[k] EXCEPT !.verdicts = @ + 1] EXCEPT !.passed = @ \/ verdict = "pass"]
             = [[asked[k] EXCEPT !.verdicts = @ + 1] EXCEPT !.passed = b]
        BY <3>1, <3>2 DEF Ask
      <4> QED
        BY <3>3, <4>1
    <3>5. asked' = [asked EXCEPT ![k] =
             [[asked[k] EXCEPT !.verdicts = @ + 1] EXCEPT !.passed = @ \/ verdict = "pass"]]
      BY <1>1, <2>1
    <3> QED
      BY <2>1, <3>4, <3>5 DEF StationsTypeOK
  <2>2. CASE k \notin DOMAIN asked
    <3>1. asked' = asked
      BY <1>1, <2>2 DEF StationsTypeOK
    <3> QED
      BY <3>1 DEF StationsTypeOK
  <2> QED
    BY <2>1, <2>2
<1>4. stops' \in Seq(Stop)
  BY <1>1, StopOfType DEF StationsTypeOK
<1> QED
  BY <1>2, <1>3, <1>4 DEF StationsTypeOK, Read, Snapshot, sessionVars

LEMMA FinishType ==
  ASSUME StationsTypeOK, NEW i \in Inspector, FinishInspection(i)
  PROVE  StationsTypeOK'
<1>1. stops' \in Seq(Stop)
  BY StopOfType DEF StationsTypeOK, FinishInspection
<1>2. doing' \in [Inspector -> {"idle", "reading", "reaping"}]
  BY DEF StationsTypeOK, FinishInspection
<1>3. seen' \in [Inspector -> Snapshot]
  <2>1. NothingSeen \in Snapshot /\ seen \in [Inspector -> Snapshot]
    BY DEF NothingSeen, Snapshot, StationsTypeOK
  <2> QED
    BY <2>1 DEF FinishInspection
<1>4. calm' \in BOOLEAN
  BY DEF StationsTypeOK, FinishInspection
<1> QED
  BY <1>1, <1>2, <1>3, <1>4 DEF StationsTypeOK, FinishInspection, Snapshot, sessionVars

LEMMA ReapType ==
  ASSUME StationsTypeOK, Reap
  PROVE  StationsTypeOK'
<1>1. seen \in [Inspector -> Snapshot] /\ NothingSeen \in Snapshot /\ Holder \in Inspector
  BY StationsAssumption DEF NothingSeen, Snapshot, StationsTypeOK
<1>2. stops' \in Seq(Stop)
  <2>1. seen[Holder].due \in Nat
    BY <1>1 DEF Snapshot
  <2> QED
    BY <2>1, AnswerType DEF StationsTypeOK, Reap
<1>3. seen' \in [Inspector -> Snapshot]
  BY <1>1 DEF Reap
<1> QED
  BY <1>2, <1>3 DEF StationsTypeOK, Reap, Snapshot

LEMMA NextType == StationsTypeOK /\ [StationsNext]_stationVars => StationsTypeOK'
<1> SUFFICES ASSUME StationsTypeOK, [StationsNext]_stationVars PROVE StationsTypeOK'
  OBVIOUS
<1>1. CASE SessionStep
  BY <1>1, CallType, AskType, WaitType, GateType DEF SessionStep
<1>2. CASE Hang \/ SessionExits \/ Elapse \/ FallSilent \/ OrderStop("andon") \/ OrderStop("hard")
  BY <1>2, OutsideType
<1>3. CASE Reap
  BY <1>3, ReapType
<1>4. ASSUME NEW i \in Inspector, StartInspection(i) \/ Read(i) \/ FinishInspection(i)
      PROVE  StationsTypeOK'
  BY <1>4, StartType, ReadType, FinishType
<1>5. CASE UNCHANGED stationVars
  BY <1>5 DEF StationsTypeOK, stationVars, sessionVars, inspectVars
<1> QED
  BY <1>1, <1>2, <1>3, <1>4, <1>5 DEF StationsNext

(* Every state of a session under inspection has its types: what the       *)
(* records, the stops and what an inspector read are.                      *)
THEOREM StationsTypes == StationsSpec => []StationsTypeOK
<1> QED
  BY InitType, NextType, PTL DEF StationsSpec

-----------------------------------------------------------------------------
(* Who reads has the lock, and what it has yet to read has no verdict: the *)
(* lock keeps the other inspectors away, and the session gives none.       *)

Reading ==
  \A i \in Inspector : doing[i] = "reading" =>
    /\ lock = i
    /\ \A k \in seen[i].todo : k \in DOMAIN asked /\ asked[k].verdicts = 0

InspectionInv == Reading /\ AnsweredOnce

(* A step that leaves the inspectors and the verdicts alone. *)
LEMMA VerdictsKept ==
  ASSUME InspectionInv, UNCHANGED inspectVars, DOMAIN asked \subseteq DOMAIN asked',
         \A k \in DOMAIN asked : asked'[k].verdicts = asked[k].verdicts,
         \A k \in DOMAIN asked' \ DOMAIN asked : asked'[k].verdicts = 0
  PROVE  InspectionInv'
BY DEF InspectionInv, Reading, AnsweredOnce, inspectVars

LEMMA SessionKeeps ==
  ASSUME StationsTypeOK, InspectionInv, SessionStep
  PROVE  InspectionInv'
<1>1. CASE PartComplete \/ FirstArticle
  <2>1. PICK ask : ask.verdicts = 0 /\ asked' = Append(asked, ask)
    BY <1>1 DEF PartComplete, FirstArticle
  <2>2. DOMAIN asked' = 1..(Len(asked) + 1) /\ DOMAIN asked = 1..Len(asked)
        /\ asked'[Len(asked) + 1] = ask /\ \A k \in 1..Len(asked) : asked'[k] = asked[k]
    BY <2>1 DEF StationsTypeOK
  <2>3. Len(asked) \in Nat
    BY DEF StationsTypeOK
  <2>4. UNCHANGED inspectVars
    BY <1>1 DEF PartComplete, FirstArticle
  <2>5. \A k \in DOMAIN asked' \ DOMAIN asked : asked'[k].verdicts = 0
    BY <2>1, <2>2, <2>3
  <2> QED
    BY <2>2, <2>3, <2>4, <2>5, VerdictsKept
<1>2. CASE WaitOver
  <2>1. Len(asked) \in DOMAIN asked
    BY <1>2 DEF StationsTypeOK, WaitOver, Waits
  <2>2. \A k \in DOMAIN asked : asked[k] \in Ask
    BY DEF StationsTypeOK
  <2>3. DOMAIN asked' = DOMAIN asked
        /\ \A k \in DOMAIN asked : asked'[k].verdicts = asked[k].verdicts
    BY <1>2, <2>1, <2>2 DEF WaitOver, Ask
  <2> QED
    BY <1>2, <2>3, VerdictsKept DEF WaitOver
<1>3. CASE StopGate
  <2>1. \A k \in DOMAIN asked : asked[k] \in Ask
    BY DEF StationsTypeOK
  <2>2. DOMAIN asked' = DOMAIN asked
        /\ \A k \in DOMAIN asked : asked'[k].verdicts = asked[k].verdicts
    BY <1>3, <2>1 DEF StopGate, Ask
  <2> QED
    BY <1>3, <2>2, VerdictsKept DEF StopGate
<1>4. CASE Denied \/ Call \/ Boundary \/ Poll \/ TryEnd
  BY <1>4 DEF Denied, Call, Boundary, Poll, TryEnd, inspectVars, InspectionInv, Reading, AnsweredOnce
<1> QED
  BY <1>1, <1>2, <1>3, <1>4 DEF SessionStep

LEMMA StartKeeps ==
  ASSUME StationsTypeOK, InspectionInv, NEW i \in Inspector, StartInspection(i)
  PROVE  InspectionInv'
<1>1. lock = Nobody /\ lock' = i /\ asked' = asked
  BY DEF StartInspection, FlockFreeNow
<1>2. \A j \in Inspector : doing[j] # "reading"
  BY <1>1, StationsAssumption DEF InspectionInv, Reading
<1>3. \A j \in Inspector : doing'[j] = "reading" => j = i
  BY <1>2 DEF StationsTypeOK, StartInspection
<1>4. seen'[i].todo = {k \in DOMAIN asked : asked[k].ready /\ asked[k].verdicts = 0}
  BY DEF StationsTypeOK, StartInspection
<1> QED
  BY <1>1, <1>3, <1>4 DEF InspectionInv, Reading, AnsweredOnce

LEMMA ReadKeeps ==
  ASSUME StationsTypeOK, InspectionInv, NEW i \in Inspector, Read(i)
  PROVE  InspectionInv'
<1>1. PICK k \in seen[i].todo, verdict \in {"pass", "huddle", "line"} :
        /\ seen' = [seen EXCEPT ![i].todo = @ \ {k}]
        /\ asked' = [asked EXCEPT ![k].verdicts = @ + 1, ![k].passed = @ \/ verdict = "pass"]
  BY DEF Read
<1>2. lock = i /\ lock' = i /\ doing' = doing /\ doing[i] = "reading"
  BY DEF InspectionInv, Reading, Read
<1>3. k \in DOMAIN asked /\ asked[k].verdicts = 0 /\ asked[k] \in Ask
  BY <1>2 DEF InspectionInv, Reading, StationsTypeOK
<1>4. DOMAIN asked' = DOMAIN asked /\ asked'[k].verdicts = 1
      /\ \A l \in DOMAIN asked \ {k} : asked'[l] = asked[l]
  BY <1>1, <1>3 DEF Ask
<1>5. AnsweredOnce'
  BY <1>4 DEF InspectionInv, AnsweredOnce
<1>6. seen'[i].todo = seen[i].todo \ {k}
  BY <1>1 DEF StationsTypeOK
<1>7. \A j \in Inspector : doing[j] = "reading" => j = i
  BY <1>2 DEF InspectionInv, Reading
<1>8. Reading'
  BY <1>2, <1>4, <1>6, <1>7 DEF InspectionInv, Reading
<1> QED
  BY <1>5, <1>8 DEF InspectionInv

LEMMA FinishKeeps ==
  ASSUME StationsTypeOK, InspectionInv, NEW i \in Inspector, FinishInspection(i)
  PROVE  InspectionInv'
<1>1. lock = i /\ asked' = asked
  BY DEF InspectionInv, Reading, FinishInspection
<1>2. \A j \in Inspector : doing[j] = "reading" => j = i
  BY <1>1 DEF InspectionInv, Reading
<1>3. \A j \in Inspector : doing'[j] # "reading"
  BY <1>2 DEF StationsTypeOK, FinishInspection
<1> QED
  BY <1>1, <1>3 DEF InspectionInv, Reading, AnsweredOnce

LEMMA ReapKeeps ==
  ASSUME StationsTypeOK, InspectionInv, Reap
  PROVE  InspectionInv'
<1>1. \A j \in Inspector : doing'[j] = "reading" => doing[j] = "reading" /\ seen'[j] = seen[j]
  BY StationsAssumption DEF StationsTypeOK, Reap
<1> QED
  BY <1>1 DEF InspectionInv, Reading, AnsweredOnce, Reap

(* Two inspectors never answer one record twice, whatever the session, the *)
(* operator and the clock do in between.                                   *)
THEOREM NeverAnsweredTwice == StationsSpec => []AnsweredOnce
<1>1. StationsInit => InspectionInv
  BY DEF StationsInit, InspectionInv, Reading, AnsweredOnce
<1>2. StationsTypeOK /\ InspectionInv /\ [StationsNext]_stationVars => InspectionInv'
  <2> SUFFICES ASSUME StationsTypeOK, InspectionInv, [StationsNext]_stationVars PROVE InspectionInv'
    OBVIOUS
  <2>1. CASE SessionStep
    BY <2>1, SessionKeeps
  <2>2. CASE Hang \/ SessionExits \/ Elapse \/ FallSilent \/ OrderStop("andon") \/ OrderStop("hard")
    BY <2>2
       DEF Hang, SessionExits, Elapse, FallSilent, OrderStop, inspectVars, InspectionInv, Reading, AnsweredOnce
  <2>3. CASE Reap
    BY <2>3, ReapKeeps
  <2>4. ASSUME NEW i \in Inspector, StartInspection(i) \/ Read(i) \/ FinishInspection(i)
        PROVE  InspectionInv'
    BY <2>4, StartKeeps, ReadKeeps, FinishKeeps
  <2>5. CASE UNCHANGED stationVars
    BY <2>5 DEF stationVars, inspectVars, InspectionInv, Reading, AnsweredOnce
  <2> QED
    BY <2>1, <2>2, <2>3, <2>4, <2>5 DEF StationsNext
<1>3. InspectionInv => AnsweredOnce
  BY DEF InspectionInv
<1> QED
  BY <1>1, <1>2, <1>3, StationsTypes, PTL DEF StationsSpec
=============================================================================
