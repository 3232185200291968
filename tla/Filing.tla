------------------------------- MODULE Filing -------------------------------
(***************************************************************************)
(* Task files arriving in one repository while its dispatcher runs:        *)
(* `seldon cc file` (core/filing.py), `seldon cc register`                 *)
(* (commands/cc.py), `seldon cc return` and the merge that files a return  *)
(* for the answering task (core/returns.py), and the pass that reconciles  *)
(* the tree before it reads it (core/reconcile.py).  A file is a number    *)
(* and a slug; its bytes are named after the writer of them.  The event    *)
(* store is the set of actors with lines git does not hold.                *)
(***************************************************************************)
EXTENDS Naturals, FiniteSets, FiniteSetsExt

CONSTANTS
  Writer,           \* the commands' processes
  Crew,             \* bound: what the writers may be running
  Author,           \* whoever wrote and registered the files that are there
  Dispatcher,       \* the dispatcher's process
  Nil,              \* no bytes, no holder
  MaxNumber,        \* bound: task numbers
  MaxMishaps        \* bound: processes that die, git commands that fail, waits
                    \* that time out, refusals other than for the number

ASSUME FilingAssumption ==
  /\ {Author, Dispatcher, Nil} \cap Writer = {} /\ Nil # Dispatcher /\ Nil # Author
  /\ Crew \subseteq [Writer -> {"filer", "returner", "registrar"}]
  /\ MaxNumber \in Nat \ {0} /\ MaxMishaps \in Nat

File == (1..MaxNumber) \X {"task", "report", "return", "draft"}
Actor == {"cc", "desktop"}

VARIABLES
  role,          \* what each writer runs
  pc,            \* per writer
  at,            \* per writer: the file it writes and registers
  origin,        \* per writer: the path it was given, before any renumbering
  untracked,     \* per writer: git did not track the file when it looked
  clean,         \* per writer: the store was clean when it looked
  disk, index, head,  \* per file: its bytes in the tree, in git's index, in HEAD
  registered,    \* per file: the writers whose registration names it
  store,         \* the actors of the lines appended since the store's last commit
  lock,          \* the filing lock
  pass,          \* where the dispatcher's pass is
  todo,          \* the groups of paths it has yet to commit
  staged,        \* the group it has added and not committed
  unreconciled,  \* the paths it could not commit
  spoiled,       \* history: the files a death, a refusal or an overwriting left behind
  mishaps

mine  == <<at, origin, untracked, clean>>
git   == <<disk, index, head>>
tree  == <<git, registered, store>>
round == <<pass, todo, staged, unreconciled>>
vars  == <<role, pc, mine, tree, lock, round, spoiled, mishaps>>

Locked(w) == w \in Writer /\ role[w] # "registrar"

Filled(files) == [f \in File |-> IF f \in files THEN Author ELSE Nil]

(* The repository starts empty, or with a registered file and a stray one  *)
(* under its number, from before numbers were checked, which the author    *)
(* has committed or only added.                                            *)
Init ==
  /\ role \in Crew
  /\ pc = [w \in Writer |-> IF role[w] = "returner" THEN "find" ELSE "idle"]
  /\ at = [w \in Writer |-> <<1, "task">>] /\ origin = at
  /\ untracked = [w \in Writer |-> FALSE] /\ clean = [w \in Writer |-> FALSE]
  /\ \E old \in {{}, {<<1, "task">>}}, stray \in {{}, {<<1, "draft">>}} : \E added \in SUBSET stray :
       /\ old = {} <=> stray = {}
       /\ stray # {} => /\ \E w \in Writer : ~Locked(w)
                        /\ \A w \in Writer : role[w] # "returner"
       /\ disk = Filled(old \cup stray) /\ index = disk /\ head = Filled(old \cup (stray \ added))
       /\ registered = [f \in File |-> {Author : g \in old \cap {f}}]
       /\ spoiled = added
  /\ store = {} /\ lock = Nil
  /\ pass = "idle" /\ todo = {} /\ staged = {} /\ unreconciled = {}
  /\ mishaps = 0

ActorOf(w) == IF Locked(w) THEN "cc" ELSE "desktop"

Retried(w) == at[w] # origin[w]

Live(w) == pc[w] \notin {"idle", "over", "done", "blocked"}

Finish(w) == IF Retried(w) THEN "record" ELSE "release"

Goto(w, l) == pc' = [pc EXCEPT ![w] = l]

Mishap == mishaps < MaxMishaps /\ mishaps' = mishaps + 1

(* A hook refuses, or an index.lock is in the way. *)
GitFails == Mishap

-----------------------------------------------------------------------------
(* core/numbering.py *)

Registered(f) == registered[f] # {}

Held == {f[1] : f \in {g \in File : disk[g] # Nil \/ Registered(g)}}

(* next_number, over the graph's holders and the files on disk. *)
IsNext(n) == n \in 1..MaxNumber /\ n = Max(Held \cup {0}) + 1

(* registration_refusal: the number is registered to another file. *)
NumberTaken(f) == \E g \in File : g # f /\ g[1] = f[1] /\ Registered(g)

(* `seldon task number`: an author asks, and names the file later. *)
Ask(w) ==
  /\ role[w] # "returner" /\ pc[w] = "idle"
  /\ \E n \in 1..MaxNumber, slug \in (IF Locked(w) THEN {"task", "report"} ELSE {"draft"}) :
       /\ IsNext(n)
       /\ at' = [at EXCEPT ![w] = <<n, slug>>] /\ origin' = [origin EXCEPT ![w] = <<n, slug>>]
  /\ Goto(w, IF Locked(w) THEN "waiting" ELSE "drafting")
  /\ UNCHANGED <<role, untracked, clean, tree, lock, round, spoiled, mishaps>>

(* `cc register` of a file somebody has left in the tree. *)
Pick(w) ==
  /\ ~Locked(w) /\ pc[w] = "idle"
  /\ \E f \in File : /\ disk[f] # Nil
                     /\ at' = [at EXCEPT ![w] = f] /\ origin' = [origin EXCEPT ![w] = f]
  /\ Goto(w, "look")
  /\ UNCHANGED <<role, untracked, clean, tree, lock, round, spoiled, mishaps>>

-----------------------------------------------------------------------------
(* filing_lock: the flock of core/dispatch.py, polled until a deadline. *)
TakeLock(w) ==
  /\ pc[w] = "waiting" /\ lock = Nil
  /\ lock' = w /\ Goto(w, "write")
  /\ UNCHANGED <<role, mine, tree, round, spoiled, mishaps>>

(* A holder that keeps it past lock_wait_s (a minute, against the seconds  *)
(* that a filing or the pass's reading takes).                             *)
GiveUp(w) ==
  /\ pc[w] = "waiting" /\ lock # Nil /\ Mishap
  /\ Goto(w, IF role[w] = "returner" THEN "blocked" ELSE "over")
  /\ UNCHANGED <<role, mine, tree, lock, round, spoiled>>

(* file_task refuses a path that is there (FILE_EXISTS); write_return      *)
(* looked before it waited for the lock, and writes over what came since;  *)
(* an author does not write over a file.                                   *)
Write(w) ==
  /\ pc[w] \in {"write", "drafting"}
  /\ IF role[w] # "returner" /\ disk[at[w]] # Nil
     THEN Goto(w, "release") /\ UNCHANGED <<disk, spoiled>>
     ELSE /\ disk' = [disk EXCEPT ![at[w]] = w]
          /\ spoiled' = spoiled \cup {f \in {at[w]} : disk[f] # Nil}
          /\ Goto(w, "look")
  /\ UNCHANGED <<role, mine, index, head, registered, store, lock, round, mishaps>>

-----------------------------------------------------------------------------
(* register_task_file (commands/cc.py), one step per place where another   *)
(* process can come between: a refusal, before anything is created; the    *)
(* commit of an untracked file; the artifact; the store's lines.           *)

Look(w) ==
  /\ pc[w] = "look"
  /\ untracked' = [untracked EXCEPT ![w] = index[at[w]] = Nil]
  /\ clean' = [clean EXCEPT ![w] = store = {}]
  /\ Goto(w, IF disk[at[w]] = Nil THEN "refused" ELSE "check")
  /\ UNCHANGED <<role, at, origin, tree, lock, round, spoiled, mishaps>>

Gate(w) ==
  /\ pc[w] = "check" /\ Mishap
  /\ Goto(w, "refused")
  /\ UNCHANGED <<role, mine, tree, lock, round, spoiled>>

\* Mutant: the number is not looked up again at registration.
CheckAllocated(w) ==
  /\ pc[w] = "check"
  /\ Goto(w, IF Registered(at[w]) THEN "release" ELSE IF untracked[w] THEN "add" ELSE "create")
  /\ UNCHANGED <<role, mine, tree, lock, round, spoiled, mishaps>>

(* A taken number is mechanical: `cc file` and `cc register` repair the    *)
(* file and try once more (AD-038-R18), `cc return` does not.              *)
Check(w) ==
  /\ pc[w] = "check"
  /\ Goto(w, CASE NumberTaken(at[w]) /\ (role[w] = "returner" \/ Retried(w)) -> "refused"
               [] NumberTaken(at[w]) /\ role[w] # "returner" /\ ~Retried(w) -> "repair"
               [] ~NumberTaken(at[w]) /\ Registered(at[w]) -> Finish(w)
               [] ~NumberTaken(at[w]) /\ ~Registered(at[w]) ->
                    IF untracked[w] THEN "add" ELSE "create")
  /\ UNCHANGED <<role, mine, tree, lock, round, spoiled, mishaps>>

(* repair (core/ooda.py): the file moves to the next number; one that git  *)
(* tracks is moved, added and committed as the tree has it.  A tracked     *)
(* file that HEAD does not hold cannot be committed by its old path, and   *)
(* the repair is refused after the move.                                   *)
Moved(b, f, g) == [b EXCEPT ![g] = disk[f], ![f] = Nil]

RepairTo(w, new) ==
  /\ disk' = Moved(disk, at[w], new)
  /\ \/ /\ index[at[w]] = Nil
        /\ at' = [at EXCEPT ![w] = new] /\ Goto(w, "look")
        /\ spoiled' = spoiled \cup {f \in {at[w]} : Registered(f)}
        /\ UNCHANGED <<index, head, mishaps>>
     \/ /\ index[at[w]] # Nil /\ head[at[w]] # Nil
        /\ index' = Moved(index, at[w], new) /\ head' = Moved(head, at[w], new)
        /\ at' = [at EXCEPT ![w] = new] /\ Goto(w, "look")
        /\ spoiled' = spoiled \cup {f \in {at[w]} : Registered(f)}
        /\ UNCHANGED mishaps
     \/ /\ index[at[w]] # Nil
        /\ IF head[at[w]] = Nil THEN UNCHANGED mishaps ELSE GitFails
        /\ index' = Moved(index, at[w], new) /\ Goto(w, "refused")
        /\ spoiled' = spoiled \cup {at[w], new}
        /\ UNCHANGED <<at, head>>

Repair(w) ==
  /\ pc[w] = "repair"
  /\ \/ /\ disk[at[w]] = Nil /\ Goto(w, "refused")
        /\ UNCHANGED <<at, git, spoiled, mishaps>>
     \/ /\ disk[at[w]] # Nil
        /\ \E n \in 1..MaxNumber : IsNext(n) /\ RepairTo(w, <<n, at[w][2]>>)
  /\ UNCHANGED <<role, origin, untracked, clean, registered, store, lock, round>>

(* _commit_registered_file: git add, git commit of the path alone, and,    *)
(* when the commit is refused or there is nothing to commit, git rm        *)
(* --cached, so that the pass sees an untracked file.                      *)
Add(w) ==
  /\ pc[w] = "add"
  /\ \/ /\ disk[at[w]] # Nil
        /\ index' = [index EXCEPT ![at[w]] = disk[at[w]]] /\ Goto(w, "commit")
        /\ UNCHANGED mishaps
     \/ /\ IF disk[at[w]] = Nil THEN UNCHANGED mishaps ELSE GitFails
        /\ Goto(w, "create") /\ UNCHANGED index
  /\ UNCHANGED <<role, mine, disk, head, registered, store, lock, round, spoiled>>

CommitFile(w) ==
  /\ pc[w] = "commit"
  /\ \/ /\ disk[at[w]] # head[at[w]]
        /\ index' = [index EXCEPT ![at[w]] = disk[at[w]]]
        /\ head' = [head EXCEPT ![at[w]] = disk[at[w]]]
        /\ Goto(w, "create") /\ UNCHANGED mishaps
     \/ /\ IF disk[at[w]] = head[at[w]] THEN UNCHANGED mishaps ELSE GitFails
        /\ Goto(w, "unadd") /\ UNCHANGED <<index, head>>
  /\ UNCHANGED <<role, mine, disk, registered, store, lock, round, spoiled>>

\* Mutant: a failed commit leaves the file staged.
LeaveStaged(w) ==
  /\ pc[w] = "unadd" /\ Goto(w, "create")
  /\ UNCHANGED <<role, mine, tree, lock, round, spoiled, mishaps>>

(* git rm --cached refuses bytes that neither the tree nor HEAD holds. *)
Unadd(w) ==
  /\ pc[w] = "unadd"
  /\ \/ /\ disk[at[w]] = Nil \/ index[at[w]] \in {disk[at[w]], head[at[w]]}
        /\ index' = [index EXCEPT ![at[w]] = Nil]
        /\ UNCHANGED <<mishaps, spoiled>>
     \/ /\ \/ GitFails
           \/ disk[at[w]] # Nil /\ index[at[w]] \notin {disk[at[w]], head[at[w]]} /\ UNCHANGED mishaps
        /\ spoiled' = spoiled \cup {at[w]}
        /\ UNCHANGED index
  /\ Goto(w, "create")
  /\ UNCHANGED <<role, mine, disk, head, registered, store, lock, round>>

Create(w) ==
  /\ pc[w] = "create"
  /\ registered' = [registered EXCEPT ![at[w]] = @ \cup {w}]
  /\ store' = store \cup {ActorOf(w)}
  /\ Goto(w, "lines")
  /\ UNCHANGED <<role, mine, git, lock, round, spoiled, mishaps>>

(* _commit_registration_lines: only a store that was clean before and has  *)
(* nobody else's lines.                                                    *)
Lines(w) ==
  /\ pc[w] = "lines"
  /\ \/ /\ clean[w] /\ store \subseteq {ActorOf(w)}
        /\ store' = {} /\ UNCHANGED mishaps
     \/ /\ clean[w] /\ store = {ActorOf(w)} /\ GitFails
        /\ UNCHANGED store
     \/ /\ ~(clean[w] /\ store \subseteq {ActorOf(w)})
        /\ UNCHANGED <<store, mishaps>>
  /\ Goto(w, Finish(w))
  /\ UNCHANGED <<role, mine, git, registered, lock, round, spoiled>>

(* commit_journal_append commits whatever lines there are, and only while  *)
(* no pass holds the lease.                                                *)
RetryLine(w) ==
  \/ pass = "idle" /\ store' = {} /\ UNCHANGED mishaps
  \/ pass # "idle" /\ store' = store \cup {ActorOf(w)} /\ UNCHANGED mishaps
  \/ pass = "idle" /\ store' = store \cup {ActorOf(w)} /\ GitFails

(* retry_registration's record of a retry that registered. *)
Record(w) ==
  /\ pc[w] = "record" /\ RetryLine(w)
  /\ Goto(w, "release")
  /\ UNCHANGED <<role, mine, git, registered, lock, round, spoiled>>

\* Mutant: a refused file is left in the tree.
RemovedNever(w) == CASE Locked(w) -> {} [] ~Locked(w) -> {}

(* The refusal, after the record of a retry that was refused.  file_task   *)
(* removes the path it wrote, unless git tracks it, and not the path its   *)
(* retry renamed it to; write_return removes its path; `cc register`       *)
(* removes nothing.                                                        *)
Removed(w) ==
  CASE role[w] = "filer"     -> {f \in {origin[w]} : index[f] = Nil}
    [] role[w] = "returner"  -> {at[w]}
    [] role[w] = "registrar" -> {}

(* What a refusal does not undo: a tracked or registered file, one that    *)
(* another command is registering, the renamed one, the author's own.      *)
LeftBehind(w) ==
  {f \in {at[w], origin[w]} :
     \/ index[f] # Nil \/ Registered(f)
     \/ \E v \in Writer \ {w} : Live(v) /\ at[v] = f}
  \cup {f \in {at[w]} : Retried(w) \/ ~Locked(w)}

Refuse(w) ==
  /\ pc[w] = "refused"
  /\ IF Retried(w) THEN RetryLine(w) ELSE UNCHANGED <<store, mishaps>>
  /\ disk' = [f \in File |-> IF f \in Removed(w) THEN Nil ELSE disk[f]]
  /\ spoiled' = spoiled \cup LeftBehind(w)
  /\ Goto(w, "release")
  /\ UNCHANGED <<role, mine, index, head, registered, lock, round>>

Release(w) ==
  /\ pc[w] = "release"
  /\ lock' = (IF lock = w THEN Nil ELSE lock)
  /\ untracked' = [untracked EXCEPT ![w] = FALSE] /\ clean' = [clean EXCEPT ![w] = FALSE]
  /\ Goto(w, IF role[w] = "returner" THEN "verify" ELSE "over")
  /\ UNCHANGED <<role, at, origin, tree, round, spoiled, mishaps>>

-----------------------------------------------------------------------------
(* core/returns.py *)

Hits == {f \in File : f[2] = "return" /\ disk[f] # Nil}

Clean(f) == disk[f] = index[f] /\ index[f] = head[f]

\* Mutant: a return on disk is taken for a return that stands.
FoundOnDisk == Hits # {}

(* find_return without problems: one file, registered, committed, clean.   *)
Stands == Cardinality(Hits) = 1 /\ \A f \in Hits : Registered(f) /\ Clean(f)

(* find_return before the return is written (a return that stands is done, *)
(* one with problems is reported, none is written), and again after.       *)
Find(w) ==
  /\ role[w] = "returner" /\ pc[w] \in {"find", "verify"}
  /\ Goto(w, CASE Stands -> "done"
               [] ~Stands /\ Hits = {} /\ pc[w] = "find" -> "name"
               [] ~Stands /\ (Hits # {} \/ pc[w] = "verify") -> "blocked")
  /\ UNCHANGED <<role, mine, tree, lock, round, spoiled, mishaps>>

(* allocate, and the return's path from the number. *)
Name(w) ==
  /\ pc[w] = "name"
  /\ \E n \in 1..MaxNumber :
       /\ IsNext(n)
       /\ at' = [at EXCEPT ![w] = <<n, "return">>] /\ origin' = [origin EXCEPT ![w] = <<n, "return">>]
  /\ Goto(w, "waiting")
  /\ UNCHANGED <<role, untracked, clean, tree, lock, round, spoiled, mishaps>>

(* The refusal's remedy: `seldon cc return` again. *)
Rerun(w) ==
  /\ pc[w] = "blocked" /\ Goto(w, "find")
  /\ UNCHANGED <<role, mine, tree, lock, round, spoiled, mishaps>>

-----------------------------------------------------------------------------
(* The pass, under its lease: it takes the filing lock, reconciles, reads  *)
(* the tree, and lets the lock go before it launches.                      *)

\* Mutant: the pass reads the tree without the filing lock.
PassUnlocked ==
  /\ pass = "idle" /\ pass' = "reconcile"
  /\ UNCHANGED <<role, pc, mine, tree, lock, todo, staged, unreconciled, spoiled, mishaps>>

PassLock ==
  /\ pass = "idle" /\ lock = Nil
  /\ lock' = Dispatcher /\ pass' = "reconcile"
  /\ UNCHANGED <<role, pc, mine, tree, todo, staged, unreconciled, spoiled, mishaps>>

Untracked(f) == disk[f] # Nil /\ index[f] = Nil

(* classify: untracked registered files in one group, and each untracked   *)
(* report alone.                                                           *)
Classes ==
  ({{f \in File : Untracked(f) /\ Registered(f)}} \ {{}})
    \cup {{f} : f \in {g \in File : Untracked(g) /\ ~Registered(g) /\ g[2] = "report"}}

\* Mutant: the store is the writers' to commit.
ReconcileFiles ==
  /\ pass = "reconcile"
  /\ todo' = Classes /\ unreconciled' = {} /\ pass' = "commit"
  /\ UNCHANGED <<role, pc, mine, tree, staged, lock, spoiled, mishaps>>

Reconcile ==
  /\ pass = "reconcile"
  /\ todo' = Classes /\ unreconciled' = {} /\ pass' = "commit"
  /\ \/ store' = {} /\ UNCHANGED mishaps
     \/ store # {} /\ GitFails /\ UNCHANGED store
  /\ UNCHANGED <<role, pc, mine, git, registered, staged, lock, spoiled>>

(* commit_paths: the paths that are still there are added, then committed; *)
(* a commit git refuses is followed by git reset of the paths.             *)
Stage ==
  /\ pass = "commit" /\ staged = {}
  /\ \E g \in todo : LET keep == {f \in g : disk[f] # Nil} IN
       /\ todo' = todo \ {g}
       /\ \/ /\ staged' = keep
             /\ index' = [f \in File |-> IF f \in keep THEN disk[f] ELSE index[f]]
             /\ UNCHANGED <<mishaps, unreconciled>>
          \/ /\ GitFails /\ unreconciled' = unreconciled \cup g
             /\ UNCHANGED <<index, staged>>
  /\ UNCHANGED <<role, pc, mine, disk, head, registered, store, lock, pass, spoiled>>

CommitStaged ==
  /\ staged # {} /\ staged' = {}
  /\ LET differ == {f \in staged : disk[f] # head[f]} IN
       \/ /\ differ # {}
          /\ head'  = [f \in File |-> IF f \in staged THEN disk[f] ELSE head[f]]
          /\ index' = [f \in File |-> IF f \in staged THEN disk[f] ELSE index[f]]
          /\ UNCHANGED <<mishaps, unreconciled>>
       \/ /\ IF differ = {} THEN UNCHANGED mishaps ELSE GitFails
          /\ index' = [f \in File |-> IF f \in staged THEN head[f] ELSE index[f]]
          /\ unreconciled' = unreconciled \cup staged
          /\ UNCHANGED head
  /\ UNCHANGED <<role, pc, mine, disk, registered, store, lock, pass, todo, spoiled>>

(* The queue is evaluated over the tree as it is now, and the lock let go. *)
Evaluate ==
  /\ pass = "commit" /\ todo = {} /\ staged = {}
  /\ pass' = "launch" /\ lock' = (IF lock = Dispatcher THEN Nil ELSE lock)
  /\ UNCHANGED <<role, pc, mine, tree, todo, staged, unreconciled, spoiled, mishaps>>

PassEnd ==
  /\ pass = "launch" /\ pass' = "idle"
  /\ UNCHANGED <<role, pc, mine, tree, lock, todo, staged, unreconciled, spoiled, mishaps>>

-----------------------------------------------------------------------------
(* A process dies: the kernel frees its flock, and a later one starts over. *)
Die(w) ==
  /\ Live(w) /\ Mishap
  /\ Goto(w, IF role[w] = "returner" THEN "blocked" ELSE "over")
  /\ lock' = (IF lock = w THEN Nil ELSE lock)
  /\ spoiled' = spoiled \cup {at[w]}
  /\ UNCHANGED <<role, mine, tree, round>>

PassDies ==
  /\ Mishap /\ pass # "idle" /\ pass' = "idle"
  /\ lock' = (IF lock = Dispatcher THEN Nil ELSE lock)
  /\ spoiled' = spoiled \cup staged
  /\ todo' = {} /\ staged' = {} /\ unreconciled' = {}
  /\ UNCHANGED <<role, pc, mine, tree>>

Register(w) ==
  \/ Look(w) \/ Check(w) \/ Repair(w) \/ Add(w) \/ CommitFile(w) \/ Unadd(w)
  \/ Create(w) \/ Lines(w) \/ Record(w) \/ Refuse(w)

Step(w) == Write(w) \/ Register(w) \/ Release(w) \/ Find(w) \/ Name(w) \/ Rerun(w)

PassStep == Reconcile \/ Stage \/ CommitStaged \/ Evaluate \/ PassEnd

Next ==
  \/ \E w \in Writer : Ask(w) \/ Pick(w) \/ TakeLock(w) \/ GiveUp(w) \/ Gate(w) \/ Step(w) \/ Die(w)
  \/ PassLock \/ PassStep \/ PassDies

(* A process that runs goes on; a pass comes round again and again, and a  *)
(* process that polls for the lock is not out of luck for ever; an operator *)
(* runs the command a refusal names.                                       *)
Fairness ==
  /\ \A w \in Writer : WF_vars(Step(w)) /\ SF_vars(TakeLock(w))
  /\ SF_vars(PassLock) /\ WF_vars(PassStep)

Spec == Init /\ [][Next]_vars /\ Fairness

-----------------------------------------------------------------------------
Registering == {"look", "check", "repair", "add", "commit", "unadd", "create", "lines", "record", "refused"}

TypeOK ==
  /\ role \in Crew
  /\ pc \in [Writer -> Registering \cup {"idle", "drafting", "waiting", "write", "release", "over",
                                      "find", "name", "verify", "blocked", "done"}]
  /\ pass \in {"idle", "reconcile", "commit", "launch"}
  /\ at \in [Writer -> File] /\ origin \in [Writer -> File]
  /\ untracked \in [Writer -> BOOLEAN] /\ clean \in [Writer -> BOOLEAN]
  /\ {disk, index, head} \subseteq [File -> Writer \cup {Author, Nil}]
  /\ registered \in [File -> SUBSET (Writer \cup {Author})] /\ store \subseteq Actor
  /\ lock \in Writer \cup {Dispatcher, Nil}
  /\ todo \subseteq SUBSET File
  /\ staged \subseteq File /\ unreconciled \subseteq File /\ spoiled \subseteq File

(* A number names one task: of two registrations under one number, or of   *)
(* one file, at least one was made by `cc register`, which takes no lock   *)
(* and checks the number against a graph it does not hold still.           *)
NumberHeldOnce ==
  \A f, g \in File : \A v \in registered[f], w \in registered[g] :
    f[1] = g[1] /\ <<f, v>> # <<g, w>> => ~Locked(v) \/ ~Locked(w)

(* The queue is refused on a dirty tree (c7) for a reason somebody can     *)
(* act on: a file that a death, a refusal or an overwriting left behind,   *)
(* one that a `cc register` is at or its author is still to register, or   *)
(* one that git refused to commit.  Never a file that `cc file` or         *)
(* `cc return` is writing.                                                 *)
RefusedForACause ==
  [][Evaluate => \A f \in File :
       \/ Clean(f)
       \/ f \in spoiled \cup unreconciled
       \/ \E w \in Writer : ~Locked(w) /\ f \in {at[w], origin[w]}]_vars

(* An answering task that was let complete has a registered return, in the *)
(* tree and in the consumer's history whatever the other writers did since *)
(* (find_return, and the writers' hands off a file that stands); the only  *)
(* return that may be gone is one that a command ended badly over, or that *)
(* a later `cc register` renamed because its number was taken.             *)
CompletedHasReturn ==
  \A w \in Writer : pc[w] = "done" =>
    \E f \in File : /\ f[2] = "return" /\ Registered(f)
                    /\ f \in spoiled \/ (disk[f] # Nil /\ head[f] # Nil)

(* A registered file reaches git's history by itself, by the registration  *)
(* or a later pass, unless something went wrong over that very file.       *)
RegisteredIsCommitted ==
  []<>(\A f \in File : Registered(f) => (Clean(f) /\ head[f] # Nil) \/ f \in spoiled)

(* The lines a registration appended do not keep the queue refused.        *)
LinesAreCommitted == []<>(store = {})

(* `cc return` run again until it is done does file the return, unless a   *)
(* return was left behind or two files return the task.                    *)
ReturnIsFiled ==
  <>(\/ \A w \in Writer : role[w] = "returner" => pc[w] = "done"
     \/ Cardinality(Hits) > 1 \/ \E f \in spoiled : f[2] = "return")
=============================================================================
