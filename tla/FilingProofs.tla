---------------------------- MODULE FilingProofs ----------------------------
(***************************************************************************)
(* Filing, for any number of writers, numbers and mishaps: the types, the  *)
(* exclusion that the filing lock gives, that of two registrations under   *)
(* one number at least one was made without the lock, that a task that     *)
(* completed keeps its return, and that a pass is refused only over a file *)
(* that somebody can account for.                                          *)
(***************************************************************************)
EXTENDS Filing, FiniteSetTheorems, WellFoundedInduction, TLAPS

-----------------------------------------------------------------------------
(* The types, step by step. *)

LEMMA InitType == Init => TypeOK
<1> SUFFICES ASSUME Init PROVE TypeOK
  OBVIOUS
<1>1. <<1, "task">> \in File
  BY FilingAssumption DEF File
<1>2. {disk, index, head} \subseteq [File -> Writer \cup {Author, Nil}]
  BY DEF Init, Filled
<1>3. registered \in [File -> SUBSET (Writer \cup {Author})] /\ spoiled \subseteq File
  <2>1. registered \in [File -> SUBSET (Writer \cup {Author})]
    BY DEF Init
  <2>2. <<1, "draft">> \in File
    BY FilingAssumption DEF File
  <2> QED
    BY <2>1, <2>2 DEF Init
<1> QED
  BY <1>1, <1>2, <1>3 DEF Init, TypeOK, Actor, Registering

LEMMA AskType ==
  ASSUME TypeOK, NEW w \in Writer, Ask(w) \/ Pick(w) \/ Name(w)
  PROVE  TypeOK'
<1>1. at' \in [Writer -> File] /\ origin' \in [Writer -> File]
  <2>1. \A n \in 1..MaxNumber, slug \in {"task", "report", "return", "draft"} : <<n, slug>> \in File
    BY DEF File
  <2>2. CASE Ask(w)
    <3>1. PICK f \in File : at' = [at EXCEPT ![w] = f] /\ origin' = [origin EXCEPT ![w] = f]
      BY <2>1, <2>2 DEF Ask
    <3> QED
      BY <3>1 DEF TypeOK
  <2>3. CASE Pick(w)
    BY <2>3 DEF TypeOK, Pick
  <2>4. CASE Name(w)
    <3>1. PICK f \in File : at' = [at EXCEPT ![w] = f] /\ origin' = [origin EXCEPT ![w] = f]
      BY <2>1, <2>4 DEF Name
    <3> QED
      BY <3>1 DEF TypeOK
  <2> QED
    BY <2>2, <2>3, <2>4
<1>2. PICK l \in {"waiting", "drafting", "look"} : pc' = [pc EXCEPT ![w] = l]
  BY DEF Ask, Pick, Name, Goto
<1> QED
  BY <1>1, <1>2 DEF TypeOK, Ask, Pick, Name, Registering, tree, git, round

LEMMA LockType ==
  ASSUME TypeOK, NEW w \in Writer, TakeLock(w) \/ GiveUp(w)
  PROVE  TypeOK'
BY DEF TypeOK, TakeLock, GiveUp, Goto, Registering, mine, tree, git, round

LEMMA WriteType ==
  ASSUME TypeOK, NEW w \in Writer, Write(w)
  PROVE  TypeOK'
BY DEF TypeOK, Write, Goto, Registering, mine, round

LEMMA CheckType ==
  ASSUME TypeOK, NEW w \in Writer, Look(w) \/ Gate(w) \/ Check(w)
  PROVE  TypeOK'
BY DEF TypeOK, Look, Gate, Check, Finish, Goto, Registering, mine, tree, git, round

LEMMA RepairType ==
  ASSUME TypeOK, NEW w \in Writer, Repair(w)
  PROVE  TypeOK'
<1>1. CASE disk[at[w]] = Nil /\ Goto(w, "refused") /\ UNCHANGED <<at, git, spoiled, mishaps>>
  BY <1>1 DEF TypeOK, Repair, Goto, Registering, git, round
<1>2. ASSUME NEW n \in 1..MaxNumber, RepairTo(w, <<n, at[w][2]>>)
      PROVE  TypeOK'
  <2> DEFINE new == <<n, at[w][2]>>
  <2>1. new \in File /\ at[w] \in File
    BY DEF TypeOK, File
  <2>2. ASSUME NEW b \in [File -> Writer \cup {Author, Nil}]
        PROVE  Moved(b, at[w], new) \in [File -> Writer \cup {Author, Nil}]
    BY <2>1 DEF TypeOK, Moved
  <2>3. {disk', index', head'} \subseteq [File -> Writer \cup {Author, Nil}]
    BY <1>2, <2>2 DEF TypeOK, RepairTo
  <2>4. at' \in [Writer -> File] /\ spoiled' \subseteq File
    BY <1>2, <2>1 DEF TypeOK, RepairTo
  <2>5. pc' = [pc EXCEPT ![w] = "look"] \/ pc' = [pc EXCEPT ![w] = "refused"]
    BY <1>2 DEF RepairTo, Goto
  <2> QED
    BY <2>3, <2>4, <2>5 DEF TypeOK, Repair, Registering, round
<1> QED
  BY <1>1, <1>2 DEF Repair

LEMMA CommitType ==
  ASSUME TypeOK, NEW w \in Writer, Add(w) \/ CommitFile(w) \/ Unadd(w)
  PROVE  TypeOK'
BY DEF TypeOK, Add, CommitFile, Unadd, Goto, Registering, mine, round

LEMMA CreateType ==
  ASSUME TypeOK, NEW w \in Writer, Create(w) \/ Lines(w) \/ Record(w)
  PROVE  TypeOK'
<1>1. store' \subseteq Actor
  BY DEF TypeOK, Create, Lines, Record, RetryLine, ActorOf, Actor
<1>2. registered' \in [File -> SUBSET (Writer \cup {Author})]
  BY DEF TypeOK, Create, Lines, Record
<1>3. PICK l \in {"lines", "record", "release"} : pc' = [pc EXCEPT ![w] = l]
  BY DEF Create, Lines, Record, Finish, Goto
<1> QED
  BY <1>1, <1>2, <1>3 DEF TypeOK, Create, Lines, Record, Registering, mine, git, round

LEMMA RefuseType ==
  ASSUME TypeOK, NEW w \in Writer, Refuse(w)
  PROVE  TypeOK'
<1>1. LeftBehind(w) \subseteq File
  BY DEF TypeOK, LeftBehind
<1>2. disk' \in [File -> Writer \cup {Author, Nil}]
  BY DEF TypeOK, Refuse
<1>3. store' \subseteq Actor
  BY DEF TypeOK, Refuse, RetryLine, ActorOf, Actor
<1> QED
  BY <1>1, <1>2, <1>3 DEF TypeOK, Refuse, Goto, Registering, mine, round

LEMMA ReleaseType ==
  ASSUME TypeOK, NEW w \in Writer, Release(w) \/ Find(w) \/ Rerun(w) \/ Die(w)
  PROVE  TypeOK'
<1>1. PICK l \in {"verify", "over", "done", "name", "blocked", "find"} : pc' = [pc EXCEPT ![w] = l]
  BY DEF Release, Find, Rerun, Die, Goto
<1>2. CASE Release(w) \/ Find(w) \/ Rerun(w)
  BY <1>1, <1>2 DEF TypeOK, Release, Find, Rerun, Registering, mine, tree, git, round
<1>3. CASE Die(w)
  BY <1>1, <1>3 DEF TypeOK, Die, Registering, mine, tree, git, round
<1> QED
  BY <1>2, <1>3

LEMMA PassType ==
  ASSUME TypeOK, PassLock \/ Evaluate \/ PassEnd \/ PassDies
  PROVE  TypeOK'
BY DEF TypeOK, PassLock, Evaluate, PassEnd, PassDies, mine, tree, git, round

LEMMA ReconcileType ==
  ASSUME TypeOK, Reconcile \/ Stage \/ CommitStaged
  PROVE  TypeOK'
<1>1. CASE Reconcile
  <2>1. Classes \subseteq SUBSET File
    BY DEF Classes
  <2> QED
    BY <1>1, <2>1 DEF TypeOK, Reconcile, mine, git
<1>2. CASE Stage
  BY <1>2 DEF TypeOK, Stage, mine
<1>3. CASE CommitStaged
  BY <1>3 DEF TypeOK, CommitStaged, mine
<1> QED
  BY <1>1, <1>2, <1>3

LEMMA NextType == TypeOK /\ [Next]_vars => TypeOK'
<1> SUFFICES ASSUME TypeOK, [Next]_vars PROVE TypeOK'
  OBVIOUS
<1>1. CASE UNCHANGED vars
  BY <1>1 DEF TypeOK, vars, mine, tree, git, round
<1>2. CASE Next
  BY <1>2, AskType, LockType, WriteType, CheckType, RepairType, CommitType, CreateType, RefuseType,
     ReleaseType, PassType, ReconcileType
  DEF Next, Step, Register, PassStep
<1> QED
  BY <1>1, <1>2

(* Every variable of the filing model keeps its type. *)
THEOREM FilingTypes == Spec => []TypeOK
BY InitType, NextType, PTL DEF Spec

-----------------------------------------------------------------------------
(* Between taking the lock and letting it go, `cc file` and `cc return`    *)
(* have it, so at most one of them is there.                               *)
LockHeld ==
  \A w \in Writer : Locked(w) =>
    /\ pc[w] # "drafting"
    /\ pc[w] \in Registering \cup {"write", "release"} => lock = w

(* From its check of the number to its registration, nobody else has       *)
(* registered under that number with the lock.                             *)
Reserved ==
  \A w \in Writer : Locked(w) /\ pc[w] \in {"add", "commit", "unadd", "create"} =>
    \A f \in File : f[1] = at[w][1] => \A v \in registered[f] : ~Locked(v)

IInv == TypeOK /\ LockHeld /\ Reserved /\ NumberHeldOnce

LEMMA InitIInv == Init => IInv
<1> SUFFICES ASSUME Init PROVE IInv
  OBVIOUS
<1>1. TypeOK
  BY InitType
<1>2. LockHeld /\ Reserved
  BY DEF Init, LockHeld, Reserved, Registering
<1>3. \A f \in File : registered[f] \subseteq {Author}
  BY DEF Init
<1>4. ~Locked(Author)
  BY FilingAssumption DEF Locked
<1> QED
  BY <1>1, <1>2, <1>3, <1>4 DEF IInv, NumberHeldOnce

(* The lock passes from nobody to one process, and only from its holder.   *)
LEMMA NextLockHeld == IInv /\ [Next]_vars => LockHeld'
<1> SUFFICES ASSUME IInv, [Next]_vars, NEW v \in Writer, Locked(v)'
             PROVE  (/\ pc[v] # "drafting"
                     /\ pc[v] \in Registering \cup {"write", "release"} => lock = v)'
  BY DEF LockHeld
<1>0. role' = role /\ Locked(v) /\ LockHeld /\ TypeOK
  BY DEF IInv, Locked, Next, vars, Step, Register, PassStep, Ask, Pick, TakeLock, GiveUp, Gate, Die, Write, Release,
     Find, Name, Rerun, Look, Check, Repair, Add, CommitFile, Unadd, Create, Lines, Record, Refuse, PassLock,
     PassDies, Reconcile, Stage, CommitStaged, Evaluate, PassEnd
<1>1. CASE UNCHANGED vars
  BY <1>0, <1>1 DEF vars, LockHeld
<1>2. CASE PassLock \/ PassStep \/ PassDies
  <2>1. pc' = pc /\ (lock # v => lock' = lock \/ lock \in {Dispatcher, Nil})
    BY <1>2 DEF PassLock, PassDies, PassStep, Reconcile, Stage, CommitStaged, Evaluate, PassEnd
  <2>2. lock = v => lock' = v
    BY <1>2, FilingAssumption DEF PassLock, PassDies, PassStep, Reconcile, Stage, CommitStaged, Evaluate, PassEnd
  <2> QED
    BY <1>0, <2>1, <2>2 DEF LockHeld
<1>3. ASSUME NEW w \in Writer, Ask(w) \/ Pick(w) \/ TakeLock(w) \/ GiveUp(w) \/ Gate(w) \/ Step(w) \/ Die(w)
      PROVE  (/\ pc[v] # "drafting"
              /\ pc[v] \in Registering \cup {"write", "release"} => lock = v)'
  <2>1. CASE w # v
    <3>1. pc'[v] = pc[v]
      BY <1>0, <1>3, <2>1 DEF TypeOK, Ask, Pick, TakeLock, GiveUp, Gate, Die, Step, Write, Release, Find, Name,
         Rerun, Register, Look, Check, Repair, RepairTo, Add, CommitFile, Unadd, Create, Lines, Record, Refuse, Goto
    <3>2. lock = v => lock' = v
      BY <1>3, <2>1, FilingAssumption
      DEF Ask, Pick, TakeLock, GiveUp, Gate, Die, Step, Write, Release, Find, Name,
         Rerun, Register, Look, Check, Repair, RepairTo, Add, CommitFile, Unadd, Create, Lines, Record, Refuse
    <3> QED
      BY <1>0, <3>1, <3>2 DEF LockHeld
  <2>2. CASE w = v /\ (Ask(w) \/ Pick(w) \/ TakeLock(w) \/ GiveUp(w) \/ Die(w) \/ Find(w) \/ Name(w) \/ Rerun(w))
    BY <1>0, <2>2 DEF TypeOK, Ask, Pick, TakeLock, GiveUp, Die, Find, Name, Rerun, Goto, Registering
  <2>3. CASE w = v /\ Release(w)
    BY <1>0, <2>3 DEF TypeOK, Release, Goto, Registering
  <2>4. CASE w = v /\ (Gate(w) \/ Write(w) \/ Register(w))
    <3>1. pc[v] \in Registering \cup {"write", "drafting"} /\ lock' = lock
      BY <2>4 DEF Gate, Write, Register, Look, Check, Repair, RepairTo, Add, CommitFile, Unadd, Create, Lines, Record,
         Refuse, Registering
    <3>2. pc'[v] \in Registering \cup {"release"}
      BY <1>0, <2>4 DEF TypeOK, Gate, Write, Register, Look, Check, Repair, RepairTo, Add, CommitFile, Unadd, Create,
         Lines, Record, Refuse, Finish, Goto, Registering
    <3> QED
      BY <1>0, <3>1, <3>2 DEF LockHeld, Registering
  <2> QED
    BY <1>3, <2>1, <2>2, <2>3, <2>4 DEF Step
<1> QED
  BY <1>1, <1>2, <1>3 DEF Next

(* Only Create adds a registration. *)
LEMMA OnlyCreateRegisters ==
  ASSUME IInv, [Next]_vars, ~\E w \in Writer : Create(w)
  PROVE  registered' = registered /\ role' = role
BY DEF Next, vars, tree, Step, Register, PassStep, Ask, Pick, TakeLock, GiveUp, Gate, Die, Write, Release,
   Find, Name, Rerun, Look, Check, Repair, Add, CommitFile, Unadd, Lines, Record, Refuse, PassLock,
   PassDies, Reconcile, Stage, CommitStaged, Evaluate, PassEnd

LEMMA NextReserved == IInv /\ [Next]_vars => Reserved'
<1> SUFFICES ASSUME IInv, [Next]_vars PROVE Reserved'
  OBVIOUS
<1>0. TypeOK /\ LockHeld /\ Reserved
  BY DEF IInv
<1>1. CASE \E u \in Writer : Create(u)
  <2>1. PICK u \in Writer : Create(u)
    BY <1>1
  <2>2. SUFFICES ASSUME NEW w \in Writer, Locked(w), pc'[w] \in {"add", "commit", "unadd", "create"},
                        NEW f \in File, f[1] = at[w][1], NEW v \in registered'[f], Locked(v)
                 PROVE  FALSE
    BY <2>1 DEF Reserved, Create, Locked, mine
  <2>3. w # u /\ pc[w] = pc'[w]
    BY <1>0, <2>1, <2>2 DEF Create, Goto, TypeOK
  <2>4. v \notin registered[f] /\ v = u
    BY <1>0, <2>1, <2>2, <2>3 DEF Reserved, Create, TypeOK
  <2>5. lock = w /\ lock = u
    BY <1>0, <2>1, <2>2, <2>3, <2>4 DEF LockHeld, Create, Registering
  <2> QED
    BY <2>3, <2>5
<1>2. CASE ~\E u \in Writer : Create(u)
  <2>1. registered' = registered /\ role' = role
    BY <1>2, OnlyCreateRegisters
  <2>2. SUFFICES ASSUME NEW w \in Writer, Locked(w), pc'[w] \in {"add", "commit", "unadd", "create"},
                        NEW f \in File, f[1] = at'[w][1], NEW v \in registered[f], Locked(v)
                 PROVE  FALSE
    BY <2>1 DEF Reserved, Locked
  <2>3. CASE Check(w)
    BY <1>0, <2>2, <2>3 DEF Check, Registered, NumberTaken, TypeOK, Goto, Finish, mine
  <2>4. CASE ~Check(w)
    <3>1. at'[w] = at[w] /\ pc[w] \in {"add", "commit", "unadd", "create"}
      <4>1. CASE UNCHANGED vars \/ PassLock \/ PassStep \/ PassDies
        BY <2>2, <4>1 DEF vars, mine, PassLock, PassDies, PassStep, Reconcile, Stage, CommitStaged, Evaluate, PassEnd
      <4>2. ASSUME NEW u \in Writer,
                   Ask(u) \/ Pick(u) \/ TakeLock(u) \/ GiveUp(u) \/ Gate(u) \/ Step(u) \/ Die(u)
            PROVE  at'[w] = at[w] /\ pc[w] \in {"add", "commit", "unadd", "create"}
        <5>1. CASE u # w
          BY <1>0, <2>2, <4>2, <5>1 DEF TypeOK, mine, Ask, Pick, TakeLock, GiveUp, Gate, Die, Step, Write, Release,
             Find, Name, Rerun, Register, Look, Check, Repair, RepairTo, Add, CommitFile, Unadd, Create, Lines,
             Record, Refuse, Goto
        <5>2. CASE u = w /\ (Add(w) \/ CommitFile(w) \/ Unadd(w))
          BY <1>0, <2>2, <5>2 DEF TypeOK, mine, Add, CommitFile, Unadd, Goto
        <5>3. CASE u = w /\ ~(Add(w) \/ CommitFile(w) \/ Unadd(w))
          BY <1>0, <1>2, <2>2, <2>4, <4>2, <5>3 DEF TypeOK, Ask, Pick, TakeLock, GiveUp, Gate, Die, Step, Write,
             Release, Find, Name, Rerun, Register, Look, Repair, RepairTo, Lines, Record, Refuse, Finish, Goto
        <5> QED
          BY <5>1, <5>2, <5>3
      <4> QED
        BY <4>1, <4>2 DEF Next
    <3> QED
      BY <1>0, <2>2, <3>1 DEF Reserved
  <2> QED
    BY <2>3, <2>4
<1> QED
  BY <1>1, <1>2

LEMMA NextNumberHeldOnce == IInv /\ [Next]_vars => NumberHeldOnce'
<1> SUFFICES ASSUME IInv, [Next]_vars PROVE NumberHeldOnce'
  OBVIOUS
<1>0. TypeOK /\ Reserved /\ NumberHeldOnce
  BY DEF IInv
<1>1. CASE \E u \in Writer : Create(u)
  <2>1. PICK u \in Writer : Create(u)
    BY <1>1
  <2>2. at[u] \in File /\ registered' = [registered EXCEPT ![at[u]] = @ \cup {u}] /\ role' = role
    BY <1>0, <2>1 DEF TypeOK, Create
  <2>3. SUFFICES ASSUME NEW f \in File, NEW g \in File, NEW v \in registered'[f], NEW w \in registered'[g],
                        f[1] = g[1], <<f, v>> # <<g, w>>, Locked(v), Locked(w)
                 PROVE  FALSE
    BY <2>2 DEF NumberHeldOnce, Locked
  <2>4. Locked(u) => \A h \in File : h[1] = at[u][1] => \A x \in registered[h] : ~Locked(x)
    BY <1>0, <2>1 DEF Reserved, Create
  <2>5. CASE v \in registered[f] /\ w \in registered[g]
    BY <1>0, <2>3, <2>5 DEF NumberHeldOnce
  <2>6. CASE v \notin registered[f]
    <3>1. f = at[u] /\ v = u
      BY <1>0, <2>2, <2>3, <2>6 DEF TypeOK
    <3> QED
      BY <1>0, <2>2, <2>3, <2>4, <3>1 DEF TypeOK
  <2>7. CASE w \notin registered[g]
    <3>1. g = at[u] /\ w = u
      BY <1>0, <2>2, <2>3, <2>7 DEF TypeOK
    <3> QED
      BY <1>0, <2>2, <2>3, <2>4, <3>1 DEF TypeOK
  <2> QED
    BY <2>5, <2>6, <2>7
<1>2. CASE ~\E u \in Writer : Create(u)
  BY <1>0, <1>2, OnlyCreateRegisters DEF NumberHeldOnce, Locked
<1> QED
  BY <1>1, <1>2

(* Whatever the number of commands and of mishaps, two registrations under *)
(* one number are never both made by a `cc file` or a `cc return`: the     *)
(* number cannot be lost between its check and the registration.           *)
THEOREM NumbersHeldOnce == Spec => []NumberHeldOnce
<1>1. IInv /\ [Next]_vars => IInv'
  BY NextType, NextLockHeld, NextReserved, NextNumberHeldOnce DEF IInv
<1>2. IInv => NumberHeldOnce
  BY DEF IInv
<1> QED
  BY InitIInv, <1>1, <1>2, PTL DEF Spec

-----------------------------------------------------------------------------
(* A return that stands for a task, or stood until it was spoiled.         *)
Kept(f) ==
  /\ f[2] = "return" /\ Registered(f)
  /\ f \in spoiled \/ (disk[f] # Nil /\ head[f] # Nil)

(* A return that stands is in the tree and committed. *)
LEMMA StandsIsKept ==
  ASSUME Stands
  PROVE  \E f \in File : Kept(f)
<1>1. PICK f \in Hits : TRUE
  <2>1. Hits # {}
    BY FS_EmptySet DEF Stands
  <2> QED
    BY <2>1
<1>2. f \in File /\ f[2] = "return" /\ disk[f] # Nil
  BY DEF Hits
<1>3. Registered(f) /\ disk[f] = head[f]
  BY DEF Stands, Clean
<1> QED
  BY <1>2, <1>3 DEF Kept

(* Nobody takes a registration back, and nobody forgets a spoiled file.    *)
LEMMA RegistrationsStay ==
  ASSUME TypeOK, [Next]_vars, NEW f \in File, Registered(f)
  PROVE  Registered(f)'
<1>1. CASE \E w \in Writer : Create(w)
  BY <1>1 DEF TypeOK, Create, Registered
<1>2. CASE ~\E w \in Writer : Create(w)
  <2>1. registered' = registered
    BY <1>2 DEF Next, vars, tree, Step, Register, PassStep, Ask, Pick, TakeLock, GiveUp, Gate, Die, Write, Release,
       Find, Name, Rerun, Look, Check, Repair, Add, CommitFile, Unadd, Lines, Record, Refuse, PassLock,
       PassDies, Reconcile, Stage, CommitStaged, Evaluate, PassEnd
  <2> QED
    BY <2>1 DEF Registered
<1> QED
  BY <1>1, <1>2

LEMMA SpoiledStays ==
  ASSUME TypeOK, [Next]_vars
  PROVE  spoiled \subseteq spoiled'
<1>1. CASE UNCHANGED vars \/ PassLock \/ PassStep \/ PassDies
  BY <1>1 DEF vars, PassLock, PassDies, PassStep, Reconcile, Stage, CommitStaged, Evaluate, PassEnd
<1>2. ASSUME NEW w \in Writer, Repair(w)
      PROVE  spoiled \subseteq spoiled'
  BY <1>2 DEF Repair, RepairTo
<1>3. ASSUME NEW w \in Writer,
             Ask(w) \/ Pick(w) \/ TakeLock(w) \/ GiveUp(w) \/ Gate(w) \/ Step(w) \/ Die(w), ~Repair(w)
      PROVE  spoiled \subseteq spoiled'
  BY <1>3 DEF Step, Register, Ask, Pick, TakeLock, GiveUp, Gate, Die, Write, Release, Find, Name, Rerun, Look, Check,
     Add, CommitFile, Unadd, Create, Lines, Record, Refuse
<1> QED
  BY <1>1, <1>2, <1>3 DEF Next

(* A registered file goes from the tree, or from the history, only by a    *)
(* step that spoils it: the repair that renames it, the refusal that       *)
(* removes it.  A commit puts what the tree holds into the history.        *)
LEMMA StandingOrSpoiled ==
  ASSUME TypeOK, [Next]_vars, NEW f \in File, Registered(f), disk[f] # Nil, head[f] # Nil
  PROVE  f \in spoiled' \/ (disk'[f] # Nil /\ head'[f] # Nil)
<1>1. CASE \E w \in Writer : Write(w)
  BY <1>1, FilingAssumption DEF TypeOK, Write
<1>2. CASE \E w \in Writer : Repair(w)
  <2>1. PICK w \in Writer : Repair(w)
    BY <1>2
  <2>2. CASE disk[at[w]] = Nil
    BY <2>1, <2>2 DEF Repair, git
  <2>3. CASE disk[at[w]] # Nil
    <3>1. PICK new \in File : RepairTo(w, new)
      <4>1. at[w] \in File
        BY DEF TypeOK
      <4>2. \A n \in 1..MaxNumber : <<n, at[w][2]>> \in File
        BY <4>1 DEF File
      <4> QED
        BY <2>1, <2>3, <4>2 DEF Repair
    <3>2. at[w] \in File /\ {disk, index, head} \subseteq [File -> Writer \cup {Author, Nil}]
      BY DEF TypeOK
    <3>3. CASE f = at[w]
      BY <3>1, <3>3 DEF RepairTo
    <3>4. CASE f # at[w]
      <4>1. disk'[f] # Nil
        BY <2>3, <3>1, <3>2, <3>4 DEF RepairTo, Moved
      <4>2. head'[f] # Nil
        BY <2>3, <3>1, <3>2, <3>4 DEF RepairTo, Moved
      <4> QED
        BY <4>1, <4>2
    <3> QED
      BY <3>3, <3>4
  <2> QED
    BY <2>2, <2>3
<1>3. CASE \E w \in Writer : CommitFile(w)
  BY <1>3 DEF TypeOK, CommitFile
<1>4. CASE CommitStaged
  BY <1>4 DEF TypeOK, CommitStaged
<1>5. CASE \E w \in Writer : Refuse(w)
  <2>1. PICK w \in Writer : Refuse(w)
    BY <1>5
  <2>2. CASE f \in Removed(w)
    <3>1. f = at[w] \/ f = origin[w]
      BY <2>2, FilingAssumption DEF TypeOK, Removed
    <3> QED
      BY <2>1, <3>1 DEF Refuse, LeftBehind
  <2>3. CASE f \notin Removed(w)
    BY <2>1, <2>3 DEF TypeOK, Refuse
  <2> QED
    BY <2>2, <2>3
<1>6. CASE ~\/ \E w \in Writer : Write(w) \/ Repair(w) \/ CommitFile(w) \/ Refuse(w)
            \/ CommitStaged
  <2>1. disk' = disk /\ head' = head
    <3>1. CASE UNCHANGED vars
      BY <3>1 DEF vars, tree, git
    <3>2. CASE PassLock \/ PassStep \/ PassDies
      <4>1. UNCHANGED <<disk, head>> \/ UNCHANGED git
        BY <1>6, <3>2 DEF tree, PassLock, PassDies, PassStep, Reconcile, Stage, Evaluate, PassEnd
      <4> QED
        BY <4>1 DEF git
    <3>3. ASSUME NEW w \in Writer,
                 Ask(w) \/ Pick(w) \/ TakeLock(w) \/ GiveUp(w) \/ Gate(w) \/ Step(w) \/ Die(w)
          PROVE  disk' = disk /\ head' = head
      <4>1. UNCHANGED <<disk, head>> \/ UNCHANGED git
        BY <1>6, <3>3 DEF tree, Step, Register, Ask, Pick, TakeLock, GiveUp, Gate, Die, Release, Find, Name, Rerun,
           Look, Check, Add, Unadd, Create, Lines, Record
      <4> QED
        BY <4>1 DEF git
    <3> QED
      BY <3>1, <3>2, <3>3 DEF Next
  <2> QED
    BY <2>1
<1> QED
  BY <1>1, <1>2, <1>3, <1>4, <1>5, <1>6

(* A task completes by Find alone. *)
LEMMA DoneByFind ==
  ASSUME TypeOK, [Next]_vars, NEW w \in Writer, pc'[w] = "done", pc[w] # "done"
  PROVE  Stands /\ UNCHANGED <<tree, spoiled>>
<1>1. CASE UNCHANGED vars \/ PassLock \/ PassStep \/ PassDies
  BY <1>1 DEF vars, PassLock, PassDies, PassStep, Reconcile, Stage, CommitStaged, Evaluate, PassEnd
<1>2. ASSUME NEW u \in Writer,
             Ask(u) \/ Pick(u) \/ TakeLock(u) \/ GiveUp(u) \/ Gate(u) \/ Step(u) \/ Die(u)
      PROVE  Stands /\ UNCHANGED <<tree, spoiled>>
  <2>1. PICK l : pc' = [pc EXCEPT ![u] = l]
    BY <1>2 DEF Ask, Pick, TakeLock, GiveUp, Gate, Die, Step, Write, Release, Find, Name, Rerun, Register, Look,
       Check, Repair, RepairTo, Add, CommitFile, Unadd, Create, Lines, Record, Refuse, Goto
  <2>2. u = w /\ l = "done"
    BY <2>1 DEF TypeOK
  <2>3. Find(u)
    BY <1>2, <2>1, <2>2 DEF TypeOK, Ask, Pick, TakeLock, GiveUp, Gate, Die, Step, Write, Release, Name, Rerun,
       Register, Look, Check, Repair, RepairTo, Add, CommitFile, Unadd, Create, Lines, Record, Refuse, Finish, Goto
  <2>4. Stands
    BY <2>2, <2>3 DEF TypeOK, Find, Goto
  <2> QED
    BY <2>3, <2>4 DEF Find
<1> QED
  BY <1>1, <1>2 DEF Next

(* However many commands register, repair and refuse beside it, a task     *)
(* that completed keeps a registered return, in the tree and in the        *)
(* history unless one of them spoiled that very file.                      *)
THEOREM CompletedKeepsReturn == Spec => []CompletedHasReturn
<1>1. Init => CompletedHasReturn
  BY DEF Init, CompletedHasReturn
<1>2. TypeOK /\ CompletedHasReturn /\ [Next]_vars => CompletedHasReturn'
  <2> SUFFICES ASSUME TypeOK, CompletedHasReturn, [Next]_vars, NEW w \in Writer, pc'[w] = "done"
               PROVE  \E f \in File : Kept(f)'
    BY DEF CompletedHasReturn, Kept, Registered
  <2>1. PICK f \in File : Kept(f)
    <3>1. CASE pc[w] = "done"
      BY <3>1 DEF CompletedHasReturn, Kept
    <3>2. CASE pc[w] # "done"
      BY <3>2, DoneByFind, StandsIsKept
    <3> QED
      BY <3>1, <3>2
  <2>2. Registered(f)'
    BY <2>1, RegistrationsStay DEF Kept
  <2>3. f \in spoiled' \/ (disk'[f] # Nil /\ head'[f] # Nil)
    BY <2>1, SpoiledStays, StandingOrSpoiled DEF Kept
  <2> QED
    BY <2>1, <2>2, <2>3 DEF Kept
<1> QED
  BY <1>1, <1>2, FilingTypes, PTL DEF Spec
-----------------------------------------------------------------------------
(* A registrar's files, from the moment it has one, and a spoiled file may *)
(* be in any shape, from then on for ever.                                 *)
Touched(f) == \E w \in Writer : ~Locked(w) /\ pc[w] # "idle" /\ f \in {at[w], origin[w]}

Excused(f) == f \in spoiled \/ Touched(f)

(* The two shapes that a file which is not clean has otherwise. *)
Loose(f) == disk[f] # Nil /\ index[f] = Nil /\ head[f] = Nil

Added(f) == disk[f] # Nil /\ index[f] = disk[f] /\ head[f] = Nil

LooseAt == {"look", "check", "repair", "add", "create", "refused"}

AddedAt == {"commit", "unadd"}

(* A loose file is being registered by the holder of the lock, or is one   *)
(* the next Reconcile finds, and the pass has not forgotten it since.      *)
LooseHasAReason(f) ==
  \/ Registered(f) /\ (pass = "commit" => f \in (UNION todo) \cup unreconciled)
  \/ \E w \in Writer : Locked(w) /\ at[w] = f /\ pc[w] \in LooseAt

AddedHasAReason(f) ==
  \/ Registered(f) /\ f \in staged
  \/ \E w \in Writer : Locked(w) /\ at[w] = f /\ pc[w] \in AddedAt

Explained(f) ==
  \/ Excused(f) \/ Clean(f)
  \/ Loose(f) /\ LooseHasAReason(f)
  \/ Added(f) /\ AddedHasAReason(f)

(* What the holder of the lock takes its file for. *)
TakenFor(w) ==
  Locked(w) /\ ~Excused(at[w]) =>
    /\ (pc[w] = "check" /\ untracked[w]) \/ pc[w] = "add" => Loose(at[w])
    /\ pc[w] \in AddedAt => Added(at[w])

PassHasLock ==
  /\ pass \in {"reconcile", "commit"} => lock = Dispatcher
  /\ staged # {} => pass = "commit"

RepairFirst ==
  \A w \in Writer : /\ pc[w] = "repair" => at[w] = origin[w]
                    /\ pc[w] = "name" => role[w] = "returner"

CInv ==
  /\ TypeOK /\ LockHeld /\ PassHasLock /\ RepairFirst
  /\ \A f \in File : Explained(f)
  /\ \A w \in Writer : TakenFor(w)


ByWriter(w) == Ask(w) \/ Pick(w) \/ TakeLock(w) \/ GiveUp(w) \/ Gate(w) \/ Step(w) \/ Die(w)

ByPass == PassLock \/ PassStep \/ PassDies

(* A writer moves nobody's place but its own, and leaves the pass alone.   *)
LEMMA WriterFrame ==
  ASSUME TypeOK, NEW w \in Writer, ByWriter(w)
  PROVE  /\ role' = role /\ pass' = pass /\ todo' = todo /\ staged' = staged
         /\ unreconciled' = unreconciled
         /\ \A v \in Writer \ {w} :
              pc'[v] = pc[v] /\ at'[v] = at[v] /\ origin'[v] = origin[v] /\ untracked'[v] = untracked[v]
<1>1. role' = role /\ UNCHANGED round
  BY DEF ByWriter, Ask, Pick, TakeLock, GiveUp, Gate, Die, Step, Write, Release, Find, Name, Rerun, Register, Look,
     Check, Repair, Add, CommitFile, Unadd, Create, Lines, Record, Refuse
<1>2. \E l : pc' = [pc EXCEPT ![w] = l]
  BY DEF ByWriter, Ask, Pick, TakeLock, GiveUp, Gate, Die, Step, Write, Release, Find, Name, Rerun, Register, Look,
     Check, Repair, RepairTo, Add, CommitFile, Unadd, Create, Lines, Record, Refuse, Goto
<1>3. (\E f : at' = [at EXCEPT ![w] = f]) \/ at' = at
  BY DEF mine, ByWriter, Ask, Pick, TakeLock, GiveUp, Gate, Die, Step, Write, Release, Find, Name, Rerun, Register,
     Look, Check, Repair, RepairTo, Add, CommitFile, Unadd, Create, Lines, Record, Refuse
<1>4. (\E f : origin' = [origin EXCEPT ![w] = f]) \/ origin' = origin
  BY DEF mine, ByWriter, Ask, Pick, TakeLock, GiveUp, Gate, Die, Step, Write, Release, Find, Name, Rerun, Register,
     Look, Check, Repair, Add, CommitFile, Unadd, Create, Lines, Record, Refuse
<1>5. (\E b : untracked' = [untracked EXCEPT ![w] = b]) \/ untracked' = untracked
  BY DEF mine, ByWriter, Ask, Pick, TakeLock, GiveUp, Gate, Die, Step, Write, Release, Find, Name, Rerun, Register,
     Look, Check, Repair, Add, CommitFile, Unadd, Create, Lines, Record, Refuse
<1> QED
  BY <1>1, <1>2, <1>3, <1>4, <1>5 DEF TypeOK, round

(* The pass moves no writer. *)
LEMMA PassFrame ==
  ASSUME ByPass
  PROVE  role' = role /\ pc' = pc /\ mine' = mine /\ registered' = registered /\ disk' = disk
BY DEF ByPass, tree, git, PassLock, PassDies, PassStep, Reconcile, Stage, CommitStaged, Evaluate, PassEnd

(* Nobody goes back to where it has no file, and a file that a repair      *)
(* leaves is the one the registrar was given.                              *)
LEMMA ExcusedStays ==
  ASSUME CInv, [Next]_vars, NEW f \in File, Excused(f)
  PROVE  Excused(f)'
<1>0. TypeOK /\ RepairFirst
  BY DEF CInv
<1>1. CASE f \in spoiled
  BY <1>0, <1>1, SpoiledStays DEF Excused
<1>2. CASE Touched(f)
  <2>1. PICK r \in Writer : ~Locked(r) /\ pc[r] # "idle" /\ f \in {at[r], origin[r]}
    BY <1>2 DEF Touched
  <2>2. role'[r] = role[r] /\ pc'[r] # "idle" /\ f \in {at'[r], origin'[r]}
    <3>1. CASE UNCHANGED vars
      BY <2>1, <3>1 DEF vars, mine
    <3>2. CASE ByPass
      BY <2>1, <3>2, PassFrame DEF mine
    <3>3. ASSUME NEW w \in Writer, ByWriter(w), w # r
          PROVE  role'[r] = role[r] /\ pc'[r] # "idle" /\ f \in {at'[r], origin'[r]}
      BY <1>0, <2>1, <3>3, WriterFrame
    <3>4. CASE ByWriter(r)
      <4>1. pc'[r] # "idle"
        BY <1>0, <2>1, <3>4 DEF TypeOK, Finish, ByWriter, Ask, Pick, TakeLock, GiveUp, Gate, Die, Step, Write, Release, Find, Name,
           Rerun, Register, Look, Check, Repair, RepairTo, Add, CommitFile, Unadd, Create, Lines, Record, Refuse, Goto
      <4>2. f \in {at'[r], origin'[r]}
        <5>1. CASE Repair(r)
          <6>1. origin' = origin /\ at[r] = origin[r]
            BY <1>0, <5>1 DEF RepairFirst, Repair
          <6> QED
            BY <2>1, <6>1
        <5>2. CASE ~Repair(r)
          <6>1. ~Ask(r) /\ ~Pick(r) /\ ~Name(r)
            BY <1>0, <2>1 DEF RepairFirst, Locked, Ask, Pick, Name
          <6>2. at' = at /\ origin' = origin
            BY <3>4, <5>2, <6>1 DEF mine, ByWriter, TakeLock, GiveUp, Gate, Die, Step, Write, Release, Find, Rerun,
               Register, Look, Check, Add, CommitFile, Unadd, Create, Lines, Record, Refuse
          <6> QED
            BY <2>1, <6>2
        <5> QED
          BY <5>1, <5>2
      <4> QED
        BY <1>0, <3>4, <4>1, <4>2, WriterFrame
    <3> QED
      BY <3>1, <3>2, <3>3, <3>4 DEF Next, ByWriter, ByPass
  <2> QED
    BY <2>1, <2>2 DEF Excused, Touched, Locked
<1> QED
  BY <1>1, <1>2 DEF Excused

(* While a locking command is at work, no other one is, and no pass reads. *)
Holding(w) == Locked(w) /\ pc[w] \in Registering \cup {"write", "release"}

LEMMA HolderAlone ==
  ASSUME CInv, NEW w \in Writer, Holding(w)
  PROVE  /\ lock = w /\ pass \notin {"reconcile", "commit"} /\ staged = {}
         /\ \A v \in Writer : Holding(v) => v = w
BY FilingAssumption DEF CInv, LockHeld, PassHasLock, Holding

(* A file that a step leaves alone, and whose holder it leaves where it    *)
(* was or one place on, keeps its explanation.                             *)
LEMMA Undisturbed ==
  ASSUME CInv, [Next]_vars, NEW f \in File, Explained(f), role' = role,
         disk'[f] = disk[f], index'[f] = index[f], head'[f] = head[f], registered'[f] = registered[f],
         pass' = pass, todo' = todo, staged' = staged, unreconciled' = unreconciled,
         \A w \in Writer : Locked(w) /\ at[w] = f =>
            /\ pc[w] \in LooseAt => at'[w] = f /\ pc'[w] \in LooseAt
            /\ pc[w] \in AddedAt => at'[w] = f /\ pc'[w] \in AddedAt
  PROVE  Explained(f)'
<1>1. CASE Excused(f)
  BY <1>1, ExcusedStays DEF Explained
<1>2. CASE Clean(f)
  BY <1>2 DEF Explained, Clean
<1>3. CASE Loose(f) /\ LooseHasAReason(f)
  BY <1>3 DEF Explained, Loose, LooseHasAReason, Registered, Locked
<1>4. CASE Added(f) /\ AddedHasAReason(f)
  BY <1>4 DEF Explained, Added, AddedHasAReason, Registered, Locked
<1> QED
  BY <1>1, <1>2, <1>3, <1>4 DEF Explained

LEMMA TakenAsBefore ==
  ASSUME CInv, [Next]_vars, NEW v \in Writer, TakenFor(v), role' = role,
         pc'[v] = pc[v], at'[v] = at[v], untracked'[v] = untracked[v],
         disk'[at[v]] = disk[at[v]], index'[at[v]] = index[at[v]], head'[at[v]] = head[at[v]]
  PROVE  TakenFor(v)'
<1>1. at[v] \in File
  BY DEF CInv, TypeOK
<1>2. CASE Excused(at[v])
  BY <1>1, <1>2, ExcusedStays DEF TakenFor
<1>3. CASE ~Excused(at[v])
  BY <1>3 DEF TakenFor, Loose, Added, Locked
<1> QED
  BY <1>2, <1>3

LEMMA NextPassHasLock == CInv /\ [Next]_vars => PassHasLock'
<1> SUFFICES ASSUME CInv, [Next]_vars PROVE PassHasLock'
  OBVIOUS
<1>0. TypeOK /\ PassHasLock
  BY DEF CInv
<1>1. CASE UNCHANGED vars
  BY <1>0, <1>1 DEF PassHasLock, vars, round
<1>2. CASE ByPass
  BY <1>0, <1>2 DEF PassHasLock, ByPass, PassLock, PassDies, PassStep, Reconcile, Stage, CommitStaged, Evaluate, PassEnd
<1>3. ASSUME NEW w \in Writer, ByWriter(w)
      PROVE  PassHasLock'
  <2>1. lock = Dispatcher => lock' = Dispatcher
    BY <1>3, FilingAssumption DEF ByWriter, Ask, Pick, TakeLock, GiveUp, Gate, Die, Step, Write, Release, Find, Name,
       Rerun, Register, Look, Check, Repair, Add, CommitFile, Unadd, Create, Lines, Record, Refuse
  <2>2. pass' = pass /\ staged' = staged
    BY <1>0, <1>3, WriterFrame
  <2> QED
    BY <1>0, <2>1, <2>2 DEF PassHasLock
<1> QED
  BY <1>1, <1>2, <1>3 DEF Next, ByWriter, ByPass

LEMMA NextRepairFirst == CInv /\ [Next]_vars => RepairFirst'
<1> SUFFICES ASSUME CInv, [Next]_vars, NEW v \in Writer
             PROVE  (/\ pc[v] = "repair" => at[v] = origin[v]
                     /\ pc[v] = "name" => role[v] = "returner")'
  BY DEF RepairFirst
<1>0. TypeOK /\ RepairFirst
  BY DEF CInv
<1>1. CASE UNCHANGED vars
  BY <1>0, <1>1 DEF RepairFirst, vars, mine
<1>2. CASE ByPass
  BY <1>0, <1>2, PassFrame DEF RepairFirst, mine
<1>3. ASSUME NEW w \in Writer, ByWriter(w), w # v
      PROVE  (/\ pc[v] = "repair" => at[v] = origin[v]
              /\ pc[v] = "name" => role[v] = "returner")'
  BY <1>0, <1>3, WriterFrame DEF RepairFirst
<1>4. CASE ByWriter(v) /\ ~Check(v) /\ ~Find(v)
  <2>1. pc'[v] \notin {"repair", "name"}
    BY <1>0, <1>4 DEF TypeOK, Finish, ByWriter, Ask, Pick, TakeLock, GiveUp, Gate, Die, Step, Write, Release, Name,
       Rerun, Register, Look, Repair, RepairTo, Add, CommitFile, Unadd, Create, Lines, Record, Refuse, Goto
  <2> QED
    BY <2>1
<1>5. CASE Check(v)
  BY <1>0, <1>5 DEF TypeOK, Check, Retried, Finish, Goto, mine
<1>6. CASE Find(v)
  BY <1>0, <1>6 DEF TypeOK, Find, Goto
<1> QED
  BY <1>1, <1>2, <1>3, <1>4, <1>5, <1>6 DEF Next, ByWriter, ByPass

(* A `cc register` disturbs its own files only. *)
LEMMA RegistrarKeeps ==
  ASSUME CInv, [Next]_vars, NEW w \in Writer, ByWriter(w), ~Locked(w)
  PROVE  (\A f \in File : Explained(f)') /\ (\A v \in Writer : TakenFor(v)')
<1>0. TypeOK /\ (\A f \in File : Explained(f)) /\ (\A v \in Writer : TakenFor(v))
  BY DEF CInv
<1>1. role' = role /\ pass' = pass /\ todo' = todo /\ staged' = staged /\ unreconciled' = unreconciled
  BY <1>0, WriterFrame
<1>2. pc'[w] # "idle"
  BY <1>0 DEF TypeOK, Finish, ByWriter, Ask, Pick, TakeLock, GiveUp, Gate, Die, Step, Write, Release, Find, Name,
     Rerun, Register, Look, Check, Repair, RepairTo, Add, CommitFile, Unadd, Create, Lines, Record, Refuse, Goto
<1>3. ASSUME NEW f \in File, ~Excused(f)'
      PROVE  disk'[f] = disk[f] /\ index'[f] = index[f] /\ head'[f] = head[f] /\ registered'[f] = registered[f]
  <2>1. f \notin spoiled' /\ f \notin {at'[w], origin'[w]}
    BY <1>1, <1>2, <1>3 DEF Excused, Touched, Locked
  <2>2. pc[w] = "idle" \/ f # at[w]
    <3>1. ~Excused(f)
      BY <1>3, ExcusedStays
    <3> QED
      BY <3>1 DEF Excused, Touched
  <2>3. CASE pc[w] = "idle"
    <3>1. UNCHANGED tree
      BY <2>3 DEF ByWriter, Ask, Pick, TakeLock, GiveUp, Gate, Die, Live, Step, Write, Release, Find, Name,
         Rerun, Register, Look, Check, Repair, Add, CommitFile, Unadd, Create, Lines, Record, Refuse
    <3> QED
      BY <3>1 DEF tree, git
  <2>4. CASE Repair(w) /\ f # at[w]
    <3>1. CASE disk[at[w]] = Nil
      BY <2>4, <3>1 DEF Repair, git
    <3>2. CASE disk[at[w]] # Nil
      <4>1. PICK n \in 1..MaxNumber : RepairTo(w, <<n, at[w][2]>>)
        BY <2>4, <3>2 DEF Repair
      <4>2. f # <<n, at[w][2]>>
        BY <1>0, <2>1, <4>1 DEF TypeOK, RepairTo
      <4>3. ASSUME NEW b \in [File -> Writer \cup {Author, Nil}]
            PROVE  Moved(b, at[w], <<n, at[w][2]>>)[f] = b[f]
        BY <2>4, <4>2 DEF Moved
      <4>4. disk'[f] = disk[f] /\ index'[f] = index[f] /\ head'[f] = head[f]
        BY <1>0, <4>1, <4>3 DEF TypeOK, RepairTo
      <4> QED
        BY <2>4, <4>4 DEF Repair
    <3> QED
      BY <3>1, <3>2
  <2>5. CASE ~Repair(w) /\ f # at[w]
    <3>1. CASE Write(w) \/ Add(w) \/ CommitFile(w) \/ Unadd(w) \/ Create(w)
      BY <1>0, <2>5, <3>1 DEF TypeOK, git, Write, Add, CommitFile, Unadd, Create
    <3>2. CASE Refuse(w)
      <4>1. f \notin Removed(w)
        BY <1>0, <1>3, <3>2, FilingAssumption DEF TypeOK, Locked, Removed
      <4> QED
        BY <1>0, <3>2, <4>1 DEF TypeOK, Refuse
    <3>3. CASE UNCHANGED tree
      BY <3>3 DEF tree, git
    <3>4. CASE UNCHANGED <<git, registered>>
      BY <3>4 DEF git
    <3>5. \/ Write(w) \/ Add(w) \/ CommitFile(w) \/ Unadd(w) \/ Create(w) \/ Refuse(w)
          \/ UNCHANGED tree \/ UNCHANGED <<git, registered>>
      BY <2>5 DEF ByWriter, Ask, Pick, TakeLock, GiveUp, Gate, Die, Step, Release, Find, Name,
         Rerun, Register, Look, Check, Lines, Record
    <3> QED
      BY <3>1, <3>2, <3>3, <3>4, <3>5
  <2> QED
    BY <2>2, <2>3, <2>4, <2>5
<1>4. ASSUME NEW v \in Writer, Locked(v)
      PROVE  pc'[v] = pc[v] /\ at'[v] = at[v] /\ untracked'[v] = untracked[v]
  BY <1>0, <1>4, WriterFrame
<1>5. ASSUME NEW f \in File
      PROVE  Explained(f)'
  <2>1. CASE Excused(f)'
    BY <2>1 DEF Explained
  <2>2. CASE ~Excused(f)'
    BY <1>0, <1>1, <1>3, <1>4, <2>2, Undisturbed
  <2> QED
    BY <2>1, <2>2
<1>6. ASSUME NEW v \in Writer
      PROVE  TakenFor(v)'
  <2>1. CASE Excused(at[v])' \/ ~Locked(v)
    BY <1>1, <2>1 DEF TakenFor, Locked
  <2>2. CASE ~Excused(at[v])' /\ Locked(v)
    BY <1>0, <1>1, <1>3, <1>4, <2>2, TakenAsBefore DEF TypeOK
  <2> QED
    BY <2>1, <2>2
<1> QED
  BY <1>5, <1>6

(* The steps of a locking command that has not taken the lock, the look of *)
(* one that has, its last two, and its death.                              *)
LEMMA QuietKeeps ==
  ASSUME CInv, [Next]_vars, NEW w \in Writer, Locked(w),
         \/ Ask(w) \/ Pick(w) \/ TakeLock(w) \/ GiveUp(w) \/ Die(w) \/ Find(w) \/ Name(w) \/ Rerun(w)
         \/ Gate(w) \/ Lines(w) \/ Record(w) \/ Release(w)
  PROVE  (\A f \in File : Explained(f)') /\ (\A v \in Writer : TakenFor(v)')
<1>0. TypeOK /\ (\A f \in File : Explained(f)) /\ (\A v \in Writer : TakenFor(v)) /\ ByWriter(w)
  BY DEF CInv, ByWriter, Step, Register
<1>1. role' = role /\ pass' = pass /\ todo' = todo /\ staged' = staged /\ unreconciled' = unreconciled
  BY <1>0, WriterFrame
<1>2. disk' = disk /\ index' = index /\ head' = head /\ registered' = registered
  BY DEF tree, git, Ask, Pick, TakeLock, GiveUp, Die, Find, Name, Rerun, Gate, Lines, Record, Release
<1>3. CASE Die(w)
  <2>1. at[w] \in spoiled' /\ at' = at /\ untracked' = untracked
    BY <1>3 DEF Die, mine
  <2>2. ASSUME NEW f \in File
        PROVE  Explained(f)'
    <3>1. CASE f = at[w]
      BY <2>1, <3>1 DEF Explained, Excused
    <3>2. CASE f # at[w]
      <4>1. \A v \in Writer : at[v] = f => pc'[v] = pc[v]
        BY <1>0, <3>2, WriterFrame
      <4> QED
        BY <1>0, <1>1, <1>2, <2>1, <4>1, Undisturbed
    <3> QED
      BY <3>1, <3>2
  <2>3. TakenFor(w)'
    BY <2>1 DEF TakenFor, Excused
  <2>4. ASSUME NEW v \in Writer, v # w
        PROVE  TakenFor(v)'
    BY <1>0, <1>1, <1>2, <2>4, WriterFrame, TakenAsBefore
  <2> QED
    BY <2>2, <2>3, <2>4
<1>4. CASE ~Die(w)
  <2>1. /\ pc[w] \in LooseAt => at'[w] = at[w] /\ pc'[w] \in LooseAt
        /\ pc[w] \notin AddedAt
        /\ pc'[w] \notin {"check", "add"} \cup AddedAt
    BY <1>0, <1>4 DEF TypeOK, LooseAt, AddedAt, mine, Finish, Ask, Pick, TakeLock, GiveUp, Find, Name, Rerun, Gate,
       Lines, Record, Release, Goto
  <2>2. ASSUME NEW f \in File
        PROVE  Explained(f)'
    <3>1. ASSUME NEW v \in Writer, at[v] = f
          PROVE  /\ pc[v] \in LooseAt => at'[v] = f /\ pc'[v] \in LooseAt
                 /\ pc[v] \in AddedAt => at'[v] = f /\ pc'[v] \in AddedAt
      BY <1>0, <2>1, <3>1, WriterFrame
    <3> QED
      BY <1>0, <1>1, <1>2, <3>1, Undisturbed
  <2>3. TakenFor(w)'
    BY <2>1 DEF TakenFor
  <2>4. ASSUME NEW v \in Writer, v # w
        PROVE  TakenFor(v)'
    BY <1>0, <1>1, <1>2, <2>4, WriterFrame, TakenAsBefore
  <2> QED
    BY <2>2, <2>3, <2>4
<1> QED
  BY <1>3, <1>4

(* The holder of the lock sees a simpler world: no pass reads, nobody else *)
(* is at a file, and what is loose is its own or registered.               *)
Seen(f, w) ==
  \/ Clean(f)
  \/ Loose(f) /\ (Registered(f) \/ (at[w] = f /\ pc[w] \in LooseAt))
  \/ Added(f) /\ at[w] = f /\ pc[w] \in AddedAt

LEMMA HolderSees ==
  ASSUME CInv, NEW w \in Writer, Holding(w), NEW f \in File, ~Excused(f)
  PROVE  Seen(f, w)
<1>1. Explained(f)
  BY DEF CInv
<1>2. \A v \in Writer : Locked(v) /\ pc[v] \in LooseAt \cup AddedAt => v = w
  BY HolderAlone DEF Holding, LooseAt, AddedAt, Registering
<1>3. staged = {}
  BY HolderAlone
<1>4. LooseHasAReason(f) => Registered(f) \/ (at[w] = f /\ pc[w] \in LooseAt)
  BY <1>2 DEF LooseHasAReason
<1>5. AddedHasAReason(f) => at[w] = f /\ pc[w] \in AddedAt
  BY <1>2, <1>3 DEF AddedHasAReason
<1> QED
  BY <1>1, <1>4, <1>5 DEF Explained, Seen

(* It is enough that the holder leaves what it would see. *)
LEMMA HolderExplains ==
  ASSUME CInv, [Next]_vars, NEW w \in Writer, ByWriter(w), Holding(w),
         \A f \in File : ~Excused(f)' => Seen(f, w)',
         TakenFor(w)'
  PROVE  (\A f \in File : Explained(f)') /\ (\A v \in Writer : TakenFor(v)')
<1>0. TypeOK
  BY DEF CInv
<1>1. role' = role /\ pass' = pass /\ Locked(w)
  BY <1>0, WriterFrame DEF Holding
<1>2. pass # "commit"
  BY HolderAlone
<1>3. \A f \in File : Explained(f)'
  BY <1>1, <1>2 DEF Explained, Seen, LooseHasAReason, AddedHasAReason, Locked
<1>4. ASSUME NEW v \in Writer, v # w
      PROVE  TakenFor(v)'
  <2>1. Locked(v) => pc[v] \notin Registering
    BY <1>4, HolderAlone DEF Holding
  <2>2. pc'[v] = pc[v]
    BY <1>0, <1>4, WriterFrame
  <2> QED
    BY <1>1, <2>1, <2>2 DEF TakenFor, Locked, Registering, AddedAt
<1> QED
  BY <1>3, <1>4

(* Write: an absent file becomes a loose one, the holder's own.            *)
LEMMA WriteKeeps ==
  ASSUME CInv, [Next]_vars, NEW w \in Writer, Locked(w), Write(w)
  PROVE  (\A f \in File : Explained(f)') /\ (\A v \in Writer : TakenFor(v)')
<1>0. TypeOK /\ ByWriter(w) /\ pc[w] = "write" /\ Holding(w)
  BY DEF CInv, ByWriter, Step, Write, LockHeld, Holding
<1>1. index' = index /\ head' = head /\ registered' = registered /\ at' = at
  BY DEF Write, mine
<1>2. pc'[w] \in {"look", "release"}
  BY <1>0 DEF TypeOK, Write, Goto
<1>3. ASSUME NEW f \in File, ~Excused(f)'
      PROVE  Seen(f, w)'
  <2>1. ~Excused(f)
    BY <1>3, ExcusedStays
  <2>2. Seen(f, w)
    BY <1>0, <2>1, HolderSees
  <2>3. Clean(f) \/ (Loose(f) /\ Registered(f))
    BY <1>0, <2>2 DEF Seen, LooseAt, AddedAt
  <2>4. CASE disk'[f] = disk[f]
    BY <1>1, <2>3, <2>4 DEF Seen, Clean, Loose, Registered
  <2>5. CASE disk'[f] # disk[f]
    <3>1. f = at[w] /\ disk'[f] = w /\ pc'[w] = "look"
      BY <1>0, <2>5 DEF TypeOK, Write, Goto
    <3>2. disk[f] = Nil
      BY <1>0, <1>3, <2>5, <3>1 DEF TypeOK, Write, Excused
    <3>3. index[f] = Nil /\ head[f] = Nil
      BY <2>3, <3>2 DEF Clean, Loose
    <3>4. Loose(f)'
      BY <1>1, <3>1, <3>3, FilingAssumption DEF Loose
    <3> QED
      BY <1>1, <3>1, <3>4 DEF Seen, LooseAt
  <2> QED
    BY <2>4, <2>5
<1>4. TakenFor(w)'
  BY <1>2 DEF TakenFor, AddedAt
<1> QED
  BY <1>0, <1>3, <1>4, HolderExplains

(* Look and Check move no file.  What Look finds untracked is loose.       *)
LEMMA LookKeeps ==
  ASSUME CInv, [Next]_vars, NEW w \in Writer, Locked(w), Look(w) \/ Check(w)
  PROVE  (\A f \in File : Explained(f)') /\ (\A v \in Writer : TakenFor(v)')
<1>0. /\ TypeOK /\ ByWriter(w) /\ Holding(w) /\ pc[w] \in {"look", "check"}
      /\ at[w] \in File /\ TakenFor(w)
  BY DEF CInv, TypeOK, ByWriter, Step, Register, Look, Check, Holding, Registering
<1>1. disk' = disk /\ index' = index /\ head' = head /\ registered' = registered /\ at' = at
  BY DEF Look, Check, mine, tree, git
<1>2. pc'[w] \in LooseAt \/ Registered(at[w])
  BY <1>0 DEF TypeOK, Look, Check, Goto, LooseAt
<1>3. pc'[w] \notin AddedAt
  BY <1>0 DEF TypeOK, Look, Check, Finish, Goto, AddedAt
<1>4. ASSUME NEW f \in File, ~Excused(f)'
      PROVE  Seen(f, w)'
  <2>1. Seen(f, w)
    BY <1>0, <1>4, ExcusedStays, HolderSees
  <2>2. Clean(f) \/ (Loose(f) /\ (Registered(f) \/ at[w] = f))
    BY <1>0, <2>1 DEF Seen, AddedAt
  <2> QED
    BY <1>1, <1>2, <2>2 DEF Seen, Clean, Loose, Registered
<1>5. TakenFor(w)'
  <2> SUFFICES ASSUME ~Excused(at[w])', (pc'[w] = "check" /\ untracked'[w]) \/ pc'[w] = "add"
               PROVE  Loose(at[w])
    BY <1>1, <1>3 DEF TakenFor, Loose
  <2>1. ~Excused(at[w])
    BY <1>0, <1>1, ExcusedStays
  <2>2. CASE Look(w)
    <3>1. index[at[w]] = Nil /\ disk[at[w]] # Nil
      BY <1>0, <2>2 DEF TypeOK, Look, Goto
    <3> QED
      BY <1>0, <2>1, <3>1, HolderSees DEF Seen, Clean, Added
  <2>3. CASE Check(w)
    <3>1. untracked[w] /\ pc[w] = "check"
      BY <1>0, <2>3 DEF TypeOK, Check, Finish, Goto, mine
    <3> QED
      BY <1>0, <2>1, <3>1 DEF TakenFor, Holding
  <2> QED
    BY <2>2, <2>3
<1> QED
  BY <1>0, <1>4, <1>5, HolderExplains

(* Add, CommitFile, Unadd: the holder's file goes from loose to added, and *)
(* from there to clean, or back to loose.                                  *)
LEMMA CommitKeeps ==
  ASSUME CInv, [Next]_vars, NEW w \in Writer, Locked(w), Add(w) \/ CommitFile(w) \/ Unadd(w)
  PROVE  (\A f \in File : Explained(f)') /\ (\A v \in Writer : TakenFor(v)')
<1>0. /\ TypeOK /\ ByWriter(w) /\ Holding(w) /\ pc[w] \in {"add", "commit", "unadd"}
      /\ at[w] \in File /\ TakenFor(w)
  BY DEF CInv, TypeOK, ByWriter, Step, Register, Add, CommitFile, Unadd, Holding, Registering
<1>1. disk' = disk /\ registered' = registered /\ at' = at
  BY DEF Add, CommitFile, Unadd, mine
<1>2. \A f \in File \ {at[w]} : index'[f] = index[f] /\ head'[f] = head[f]
  BY <1>0 DEF TypeOK, Add, CommitFile, Unadd
<1>3. \/ pc'[w] = "create" /\ (Clean(at[w])' \/ Loose(at[w])')
      \/ pc'[w] \in AddedAt /\ Added(at[w])'
      \/ Excused(at[w])'
  <2> SUFFICES ASSUME ~Excused(at[w])'
               PROVE  \/ pc'[w] = "create" /\ (Clean(at[w])' \/ Loose(at[w])')
                      \/ pc'[w] \in AddedAt /\ Added(at[w])'
    OBVIOUS
  <2>1. ~Excused(at[w])
    BY <1>0, <1>1, ExcusedStays
  <2>2. CASE Add(w)
    <3>1. Loose(at[w]) /\ head' = head
      BY <1>0, <2>1, <2>2 DEF TakenFor, Holding, Add
    <3> QED
      BY <1>0, <1>1, <2>2, <3>1 DEF TypeOK, Add, Goto, Loose, Added, AddedAt
  <2>3. CASE CommitFile(w)
    <3>1. Added(at[w])
      BY <1>0, <2>1, <2>3 DEF TakenFor, Holding, CommitFile, AddedAt
    <3> QED
      BY <1>0, <1>1, <2>3, <3>1 DEF TypeOK, CommitFile, Goto, Clean, Added, AddedAt
  <2>4. CASE Unadd(w)
    <3>1. Added(at[w]) /\ head' = head
      BY <1>0, <2>1, <2>4 DEF TakenFor, Holding, Unadd, AddedAt
    <3>2. at[w] \notin spoiled'
      BY <1>1, <2>1, <2>4, <1>0 DEF Excused
    <3> QED
      BY <1>0, <1>1, <2>4, <3>1, <3>2 DEF TypeOK, Unadd, Goto, Loose, Added
  <2> QED
    BY <2>2, <2>3, <2>4
<1>4. ASSUME NEW f \in File, ~Excused(f)'
      PROVE  Seen(f, w)'
  <2>1. CASE f = at[w]
    BY <1>1, <1>3, <1>4, <2>1 DEF Seen, LooseAt
  <2>2. CASE f # at[w]
    <3>1. Seen(f, w)
      BY <1>0, <1>4, ExcusedStays, HolderSees
    <3> QED
      BY <1>1, <1>2, <2>2, <3>1 DEF Seen, Clean, Loose, Registered
  <2> QED
    BY <2>1, <2>2
<1>5. TakenFor(w)'
  BY <1>1, <1>3 DEF TakenFor, AddedAt
<1> QED
  BY <1>0, <1>4, <1>5, HolderExplains

(* Create: what is loose is registered now. *)
LEMMA CreateKeeps ==
  ASSUME CInv, [Next]_vars, NEW w \in Writer, Locked(w), Create(w)
  PROVE  (\A f \in File : Explained(f)') /\ (\A v \in Writer : TakenFor(v)')
<1>0. TypeOK /\ ByWriter(w) /\ Holding(w) /\ pc[w] = "create" /\ at[w] \in File
  BY DEF CInv, TypeOK, ByWriter, Step, Register, Create, Holding, Registering
<1>1. disk' = disk /\ index' = index /\ head' = head /\ at' = at
  BY DEF Create, mine, git
<1>2. Registered(at[w])' /\ (\A f \in File : Registered(f) => Registered(f)')
  <2>1. registered' = [registered EXCEPT ![at[w]] = @ \cup {w}]
    BY DEF Create
  <2> QED
    BY <1>0, <1>1, <2>1 DEF TypeOK, Registered
<1>3. ASSUME NEW f \in File, ~Excused(f)'
      PROVE  Seen(f, w)'
  <2>1. Seen(f, w)
    BY <1>0, <1>3, ExcusedStays, HolderSees
  <2>2. Clean(f) \/ (Loose(f) /\ (Registered(f) \/ at[w] = f))
    BY <1>0, <2>1 DEF Seen, AddedAt
  <2> QED
    BY <1>1, <1>2, <2>2 DEF Seen, Clean, Loose
<1>4. TakenFor(w)'
  BY <1>0 DEF TypeOK, Create, Goto, TakenFor, AddedAt
<1> QED
  BY <1>0, <1>3, <1>4, HolderExplains

(* The next number is nobody's: a bounded set of numbers has a greatest.   *)
LEMMA NextIsFree ==
  ASSUME NEW n, IsNext(n)
  PROVE  n \notin Held
<1> DEFINE S == Held \cup {0}
           T == {k \in Nat : MaxNumber - k \in S}
           R == OpToRel(<, Nat)
<1>1. MaxNumber \in Nat /\ S \subseteq 0..MaxNumber /\ 0 \in S
  BY FilingAssumption DEF Held, File
<1>2. \A x \in S : x \in Nat /\ MaxNumber - x \in Nat /\ MaxNumber - (MaxNumber - x) = x
  BY <1>1
<1>3. T \subseteq Nat /\ T # {}
  BY <1>1, <1>2
<1>4. PICK y \in T : \A z \in T : <<z, y>> \notin R
  <2>1. IsWellFoundedOn(R, Nat)
    BY NatLessThanWellFounded
  <2> HIDE DEF R, T
  <2> QED
    BY <1>3, <2>1, WFMin
<1>5. \A z \in T : ~(z < y)
  BY <1>3, <1>4 DEF OpToRel
<1>6. MaxNumber - y \in S /\ \A x \in S : MaxNumber - y >= x
  <2>1. \A x \in S : MaxNumber - x \in T
    BY <1>2
  <2> HIDE DEF S
  <2> QED
    BY <1>1, <1>2, <1>5, <2>1
<1>7. \A x \in S : Max(S) >= x
  <2> HIDE DEF S
  <2> QED
    BY <1>6 DEF Max
<1>8. n = Max(S) + 1 /\ Max(S) \in S
  <2>1. n = Max(S) + 1
    BY DEF IsNext
  <2>2. Max(S) \in S
    <3> HIDE DEF S
    <3> QED
      BY <1>6 DEF Max
  <2> QED
    BY <2>1, <2>2
<1> QED
  <2> HIDE DEF S
  <2>1. n \notin S
    BY <1>2, <1>7, <1>8
  <2> QED
    BY <2>1 DEF S

(* Repair: a loose file is loose under its new number, a clean one clean.  *)
LEMMA RepairKeeps ==
  ASSUME CInv, [Next]_vars, NEW w \in Writer, Locked(w), Repair(w)
  PROVE  (\A f \in File : Explained(f)') /\ (\A v \in Writer : TakenFor(v)')
<1>0. TypeOK /\ ByWriter(w) /\ Holding(w) /\ pc[w] = "repair" /\ at[w] \in File
  BY DEF CInv, TypeOK, ByWriter, Step, Register, Repair, Holding, Registering
<1>1. registered' = registered /\ pc'[w] \in {"look", "refused"}
  BY <1>0 DEF TypeOK, Repair, RepairTo, Goto
<1>2. \A f \in File : ~Excused(f)' => Seen(f, w) /\ (Clean(f) \/ (Loose(f) /\ (Registered(f) \/ at[w] = f)))
  BY <1>0, ExcusedStays, HolderSees DEF Seen, AddedAt
<1>5. TakenFor(w)'
  BY <1>1 DEF TakenFor, AddedAt
<1>3. CASE disk[at[w]] = Nil
  <2>1. disk' = disk /\ index' = index /\ head' = head /\ at' = at
    BY <1>3 DEF Repair, git
  <2>2. pc'[w] \in LooseAt
    BY <1>1 DEF LooseAt
  <2>3. ASSUME NEW f \in File, ~Excused(f)'
        PROVE  Seen(f, w)'
    BY <1>1, <1>2, <2>1, <2>2, <2>3 DEF Seen, Clean, Loose, Registered
  <2> QED
    BY <1>0, <1>5, <2>3, HolderExplains
<1>4. CASE disk[at[w]] # Nil
  <2>1. PICK n \in 1..MaxNumber : IsNext(n) /\ RepairTo(w, <<n, at[w][2]>>)
    BY <1>4 DEF Repair
  <2> DEFINE new == <<n, at[w][2]>>
  <2>2. new \in File /\ new # at[w] /\ disk[new] = Nil
    <3>1. \A f \in File : f[1] = n => disk[f] = Nil
      BY <2>1, NextIsFree DEF Held
    <3>2. new \in File /\ new[1] = n
      BY <1>0 DEF File
    <3> QED
      BY <1>4, <3>1, <3>2
  <2>3. disk' = Moved(disk, at[w], new)
    BY <2>1 DEF RepairTo
  <2>4. \/ index[at[w]] = Nil /\ index' = index /\ head' = head /\ at'[w] = new /\ pc'[w] = "look"
        \/ index' = Moved(index, at[w], new) /\ head' = Moved(head, at[w], new)
        \/ {at[w], new} \subseteq spoiled' /\ \A f \in File \ {at[w], new} : index'[f] = index[f] /\ head'[f] = head[f]
    BY <1>0, <2>1, <2>2 DEF TypeOK, RepairTo, Moved, Goto
  <2>5. ASSUME NEW f \in File, ~Excused(f)'
        PROVE  Seen(f, w)'
    <3>1. f \notin spoiled'
      BY <2>5 DEF Excused
    <3>2. CASE f \notin {at[w], new}
      <4>1. disk'[f] = disk[f] /\ index'[f] = index[f] /\ head'[f] = head[f]
        BY <1>0, <2>2, <2>3, <2>4, <3>2 DEF TypeOK, Moved
      <4> QED
        BY <1>1, <1>2, <2>5, <3>2, <4>1 DEF Seen, Clean, Loose, Registered
    <3>3. CASE f = at[w]
      BY <1>0, <1>2, <1>4, <2>2, <2>3, <2>4, <2>5, <3>1, <3>3 DEF TypeOK, Moved, Seen, Clean, Loose
    <3>4. CASE f = new
      <4>1. index[f] = Nil /\ head[f] = Nil
        BY <1>2, <2>2, <2>5, <3>4 DEF Clean, Loose
      <4>2. disk'[f] = disk[at[w]]
        BY <1>0, <2>2, <2>3, <3>4 DEF TypeOK, Moved
      <4>3. CASE at'[w] = new /\ pc'[w] = "look" /\ index' = index /\ head' = head
        BY <1>4, <3>4, <4>1, <4>2, <4>3 DEF Seen, Loose, LooseAt
      <4>4. CASE index' = Moved(index, at[w], new) /\ head' = Moved(head, at[w], new)
        <5>1. index'[f] = disk[at[w]] /\ head'[f] = disk[at[w]]
          BY <1>0, <2>2, <3>4, <4>4 DEF TypeOK, Moved
        <5> QED
          BY <4>2, <5>1 DEF Seen, Clean
      <4> QED
        BY <2>4, <3>1, <3>4, <4>3, <4>4
    <3> QED
      BY <3>2, <3>3, <3>4
  <2> QED
    BY <1>0, <1>5, <2>5, HolderExplains
<1> QED
  BY <1>3, <1>4

(* Refuse: what the holder wrote is removed, or was spoiled. *)
LEMMA RefuseKeeps ==
  ASSUME CInv, [Next]_vars, NEW w \in Writer, Locked(w), Refuse(w)
  PROVE  (\A f \in File : Explained(f)') /\ (\A v \in Writer : TakenFor(v)')
<1>0. TypeOK /\ ByWriter(w) /\ Holding(w) /\ pc[w] = "refused" /\ at[w] \in File /\ origin[w] \in File
  BY DEF CInv, TypeOK, ByWriter, Step, Register, Refuse, Holding, Registering
<1>1. index' = index /\ head' = head /\ registered' = registered /\ at' = at /\ pc'[w] = "release"
  BY <1>0 DEF TypeOK, Refuse, Goto, mine
<1>2. ASSUME NEW f \in File, ~Excused(f)'
      PROVE  Seen(f, w)'
  <2>1. Seen(f, w)
    BY <1>0, <1>2, ExcusedStays, HolderSees
  <2>2. Clean(f) \/ (Loose(f) /\ (Registered(f) \/ at[w] = f))
    BY <1>0, <2>1 DEF Seen, AddedAt
  <2>3. f \notin LeftBehind(w)
    BY <1>2 DEF Excused, Refuse
  <2>4. CASE f \notin {at[w], origin[w]}
    <3>1. disk'[f] = disk[f]
      BY <1>0, <2>4, FilingAssumption DEF TypeOK, Refuse, Removed
    <3> QED
      BY <1>1, <2>2, <2>4, <3>1 DEF Seen, Clean, Loose, Registered
  <2>5. CASE f \in {at[w], origin[w]}
    <3>1. index[f] = Nil /\ ~Registered(f)
      BY <2>3, <2>5 DEF LeftBehind
    <3>2. head[f] = Nil /\ (disk[f] = Nil \/ at[w] = f)
      BY <2>2, <3>1 DEF Clean, Loose
    <3>3. at[w] = f => origin[w] = f
      BY <2>3 DEF LeftBehind, Retried
    <3>4. disk'[f] = Nil
      <4>1. at[w] = f => f \in Removed(w)
        BY <1>0, <3>1, <3>3, FilingAssumption DEF TypeOK, Removed, Holding, Locked
      <4> QED
        BY <3>2, <4>1 DEF Refuse
    <3> QED
      BY <1>1, <3>1, <3>2, <3>4 DEF Seen, Clean
  <2> QED
    BY <2>4, <2>5
<1>3. TakenFor(w)'
  BY <1>1 DEF TakenFor, AddedAt
<1> QED
  BY <1>0, <1>2, <1>3, HolderExplains

-----------------------------------------------------------------------------
(* While the pass reads and commits, no locking command is at a file. *)
LEMMA PassAlone ==
  ASSUME CInv, pass \in {"reconcile", "commit"}
  PROVE  \A w \in Writer : ~Holding(w)
BY FilingAssumption DEF CInv, PassHasLock, LockHeld, Holding

LEMMA PassSees ==
  ASSUME CInv, pass \in {"reconcile", "commit"}, NEW f \in File, ~Excused(f)
  PROVE  \/ Clean(f)
         \/ Loose(f) /\ Registered(f) /\ (pass = "commit" => f \in (UNION todo) \cup unreconciled)
         \/ Added(f) /\ Registered(f) /\ f \in staged
<1>1. Explained(f)
  BY DEF CInv
<1>2. \A w \in Writer : ~(Locked(w) /\ pc[w] \in LooseAt) /\ ~(Locked(w) /\ pc[w] \in AddedAt)
  BY PassAlone DEF Holding, LooseAt, AddedAt, Registering
<1> QED
  BY <1>1, <1>2 DEF Explained, LooseHasAReason, AddedHasAReason

(* No step of the pass changes what a command takes its file for: those    *)
(* that touch git's index run while nobody is at a file.                   *)
LEMMA PassTakesNothing ==
  ASSUME CInv, [Next]_vars, ByPass
  PROVE  \A v \in Writer : TakenFor(v)'
<1> SUFFICES ASSUME NEW v \in Writer PROVE TakenFor(v)'
  OBVIOUS
<1>0. TypeOK /\ TakenFor(v) /\ role' = role /\ pc' = pc /\ mine' = mine /\ disk' = disk
  BY PassFrame DEF CInv
<1>1. CASE index' = index /\ head' = head
  BY <1>0, <1>1, TakenAsBefore DEF mine
<1>2. CASE ~(index' = index /\ head' = head)
  <2>1. pass \in {"reconcile", "commit"}
    BY <1>2 DEF ByPass, PassLock, PassDies, PassStep, Reconcile, Stage, CommitStaged, Evaluate, PassEnd, tree, git,
       CInv, PassHasLock
  <2>2. Locked(v) => pc[v] \notin Registering
    BY <2>1, PassAlone DEF Holding
  <2> QED
    BY <1>0, <2>2 DEF TakenFor, Locked, Registering, AddedAt
<1> QED
  BY <1>1, <1>2

LEMMA PassExplains ==
  ASSUME CInv, [Next]_vars, ByPass
  PROVE  \A f \in File : Explained(f)'
<1> SUFFICES ASSUME NEW f \in File, ~Excused(f)' PROVE Explained(f)'
  BY DEF Explained
<1>0. TypeOK /\ Explained(f) /\ ~Excused(f)
  BY ExcusedStays DEF CInv
<1>1. role' = role /\ pc' = pc /\ at' = at /\ registered' = registered /\ disk' = disk
  BY PassFrame DEF mine
<1>2. CASE PassLock \/ Evaluate \/ PassEnd
  <2>1. index' = index /\ head' = head /\ staged' = staged /\ pass' # "commit"
    BY <1>2 DEF PassLock, Evaluate, PassEnd, tree, git
  <2> QED
    BY <1>0, <1>1, <2>1 DEF Explained, LooseHasAReason, AddedHasAReason, Clean, Loose, Added, Registered, Locked
<1>3. CASE PassDies
  <2>1. index' = index /\ head' = head /\ pass' # "commit" /\ f \notin staged
    BY <1>3 DEF PassDies, tree, git, Excused
  <2> QED
    BY <1>0, <1>1, <2>1 DEF Explained, LooseHasAReason, AddedHasAReason, Clean, Loose, Added, Registered, Locked
<1>4. CASE Reconcile
  <2>1. index' = index /\ head' = head /\ staged = {} /\ todo' = Classes
    BY <1>4 DEF Reconcile, git, CInv, PassHasLock
  <2>2. Clean(f) \/ (Loose(f) /\ Registered(f))
    BY <1>0, <1>4, <2>1, PassSees DEF Reconcile
  <2>3. Loose(f) /\ Registered(f) => f \in UNION todo'
    <3>1. ASSUME Loose(f), Registered(f)
          PROVE  f \in UNION Classes
      <4> DEFINE G == {g \in File : Untracked(g) /\ Registered(g)}
      <4>1. f \in G
        BY <3>1 DEF Untracked, Loose
      <4>2. G \in Classes
        BY <4>1 DEF Classes
      <4> QED
        BY <4>1, <4>2
    <3> QED
      BY <2>1, <3>1
  <2> QED
    BY <1>1, <2>1, <2>2, <2>3 DEF Explained, LooseHasAReason, Clean, Loose, Registered
<1>5. CASE Stage
  <2>1. head' = head /\ pass' = pass /\ pass = "commit" /\ staged = {}
    BY <1>5 DEF Stage
  <2>2. Clean(f) \/ (Loose(f) /\ Registered(f) /\ f \in (UNION todo) \cup unreconciled)
    BY <1>0, <2>1, PassSees
  <2>3. PICK g \in todo :
          /\ todo' = todo \ {g}
          /\ \/ /\ staged' = {h \in g : disk[h] # Nil}
                /\ index' = [h \in File |-> IF h \in {x \in g : disk[x] # Nil} THEN disk[h] ELSE index[h]]
                /\ unreconciled' = unreconciled
             \/ unreconciled' = unreconciled \cup g /\ index' = index
    BY <1>5 DEF Stage
  <2>4. f \in (UNION todo) \cup unreconciled => f \in g \cup (UNION todo') \cup unreconciled'
    BY <2>3
  <2>5. CASE Clean(f)
    BY <1>1, <2>1, <2>3, <2>5 DEF Explained, Clean
  <2>6. CASE Loose(f) /\ Registered(f) /\ f \in g
    <3>1. CASE unreconciled' = unreconciled \cup g /\ index' = index
      BY <1>1, <2>1, <2>6, <3>1 DEF Explained, LooseHasAReason, Loose, Registered
    <3>2. CASE /\ staged' = {h \in g : disk[h] # Nil}
               /\ index' = [h \in File |-> IF h \in {x \in g : disk[x] # Nil} THEN disk[h] ELSE index[h]]
      <4>1. f \in staged' /\ index'[f] = disk[f]
        BY <2>6, <3>2 DEF Loose
      <4> QED
        BY <1>1, <2>1, <2>6, <4>1 DEF Explained, AddedHasAReason, Loose, Added, Registered
    <3> QED
      BY <2>3, <3>1, <3>2
  <2>7. CASE Loose(f) /\ Registered(f) /\ f \notin g /\ f \in (UNION todo') \cup unreconciled'
    BY <1>1, <2>1, <2>3, <2>7 DEF Explained, LooseHasAReason, Loose, Registered
  <2> QED
    BY <2>2, <2>4, <2>5, <2>6, <2>7
<1>6. CASE CommitStaged
  <2>1. pass = "commit" /\ pass' = pass /\ todo' = todo /\ unreconciled \subseteq unreconciled'
    BY <1>6 DEF CommitStaged, CInv, PassHasLock
  <2>2. CASE f \notin staged
    <3>1. index'[f] = index[f] /\ head'[f] = head[f]
      BY <1>0, <1>6, <2>2 DEF TypeOK, CommitStaged
    <3> QED
      BY <1>0, <1>1, <2>1, <2>2, <3>1, PassSees DEF Explained, LooseHasAReason, Clean, Loose, Registered
  <2>3. CASE f \in staged
    <3>1. \/ index'[f] = disk[f] /\ head'[f] = disk[f]
          \/ index'[f] = head[f] /\ head'[f] = head[f] /\ f \in unreconciled'
      BY <1>6, <2>3 DEF CommitStaged
    <3>2. Clean(f) \/ (Registered(f) /\ head[f] = Nil /\ disk[f] # Nil)
      BY <1>0, <2>1, PassSees DEF Loose, Added
    <3>3. CASE Clean(f)
      BY <1>1, <3>1, <3>3 DEF Explained, Clean
    <3>4. CASE Registered(f) /\ head[f] = Nil /\ disk[f] # Nil
      BY <1>1, <3>1, <3>4 DEF Explained, LooseHasAReason, Clean, Loose, Registered
    <3> QED
      BY <3>2, <3>3, <3>4
  <2> QED
    BY <2>2, <2>3
<1> QED
  BY <1>2, <1>3, <1>4, <1>5, <1>6 DEF ByPass, PassStep

-----------------------------------------------------------------------------
LEMMA InitCInv == Init => CInv
<1> SUFFICES ASSUME Init PROVE CInv
  OBVIOUS
<1>1. TypeOK /\ LockHeld
  BY InitType, InitIInv DEF IInv
<1>2. PassHasLock /\ RepairFirst /\ (\A w \in Writer : TakenFor(w))
  BY DEF Init, PassHasLock, RepairFirst, TakenFor, AddedAt
<1>3. \A f \in File : Explained(f)
  BY DEF Init, Explained, Excused, Clean, Filled
<1> QED
  BY <1>1, <1>2, <1>3 DEF CInv

LEMMA NextCInv == CInv /\ IInv /\ [Next]_vars => CInv'
<1> SUFFICES ASSUME CInv, IInv, [Next]_vars PROVE CInv'
  OBVIOUS
<1>1. (\A f \in File : Explained(f)') /\ (\A w \in Writer : TakenFor(w)')
  <2>1. CASE UNCHANGED vars
    <3>1. UNCHANGED <<role, pc, mine, tree, lock, round, spoiled>>
      BY <2>1 DEF vars
    <3> QED
      BY <3>1 DEF mine, tree, git, round, CInv, Explained, TakenFor, Excused, Touched, Locked, Clean, Loose, Added,
         LooseHasAReason, AddedHasAReason, Registered
  <2>2. CASE ByPass
    BY <2>2, PassExplains, PassTakesNothing
  <2>3. ASSUME NEW w \in Writer, ByWriter(w), ~Locked(w)
        PROVE  (\A f \in File : Explained(f)') /\ (\A v \in Writer : TakenFor(v)')
    BY <2>3, RegistrarKeeps
  <2>4. ASSUME NEW w \in Writer, ByWriter(w), Locked(w)
        PROVE  (\A f \in File : Explained(f)') /\ (\A v \in Writer : TakenFor(v)')
    BY <2>4, QuietKeeps, WriteKeeps, LookKeeps, CommitKeeps, CreateKeeps, RepairKeeps, RefuseKeeps
    DEF ByWriter, Step, Register
  <2> QED
    BY <2>1, <2>2, <2>3, <2>4 DEF Next, ByWriter, ByPass
<1> QED
  BY <1>1, NextType, NextLockHeld, NextPassHasLock, NextRepairFirst DEF CInv

(* Whatever commands run, fail and die beside it, a pass that reads the    *)
(* tree finds no file that is not clean but one that somebody can account  *)
(* for: never one that a `cc file` or a `cc return` is in the middle of.   *)
THEOREM RefusalHasACause == Spec => RefusedForACause
<1>1. CInv /\ [Next]_vars =>
        [Evaluate => \A f \in File :
           \/ Clean(f)
           \/ f \in spoiled \cup unreconciled
           \/ \E w \in Writer : ~Locked(w) /\ f \in {at[w], origin[w]}]_vars
  <2> SUFFICES ASSUME CInv, Evaluate, NEW f \in File, ~Clean(f), ~Excused(f)
               PROVE  f \in unreconciled
    BY DEF Excused, Touched
  <2>1. pass = "commit" /\ todo = {} /\ staged = {}
    BY DEF Evaluate
  <2>2. f \in (UNION todo) \cup unreconciled
    BY <2>1, PassSees DEF Added
  <2> QED
    BY <2>1, <2>2
<1>2. IInv /\ [Next]_vars => IInv'
  BY NextType, NextLockHeld, NextReserved, NextNumberHeldOnce DEF IInv
<1> QED
  BY <1>1, <1>2, InitCInv, InitIInv, NextCInv, PTL DEF Spec, RefusedForACause
=============================================================================
