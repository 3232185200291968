-------------------------------- MODULE Lease --------------------------------
(***************************************************************************)
(* The lock file of the dispatcher (core/dispatch.py: Lease,               *)
(* acquire_waiting, read_lease, reap_lease).  The flock is the guard and   *)
(* belongs to the inode that was opened; the JSON body is the record and   *)
(* is read through the path.  `seldon dispatch lease reap` unlinks the     *)
(* path.  A process is a pass of the dispatcher, which exits when the      *)
(* lease is held, or a supervisor at its merge, which waits for it.  A     *)
(* pid is used once.                                                       *)
(***************************************************************************)
EXTENDS Naturals, FiniteSets

CONSTANTS
  Pass,        \* pids of dispatcher passes
  Supervisor,  \* pids of supervisors that wait for the lease
  Inode,       \* bound: the files that can be created at the path
  None,        \* no file, no holder
  MaxBeats     \* bound: heartbeats

ASSUME LeaseAssumption ==
  /\ Pass \cap Supervisor = {}
  /\ None \notin Pass \cup Supervisor \cup Inode
  /\ {"blank", "released"} \cap (Pass \cup Supervisor) = {}
  /\ MaxBeats \in Nat

Process == Pass \cup Supervisor

(* What the file says: nothing (just created, or truncated), that nobody   *)
(* holds the lease, or the holder's pid.                                   *)
Blank == "blank"
Released == "released"

Body == Process \cup {Blank, Released}

VARIABLES
  path,    \* the inode the path names
  unused,  \* the inodes not yet created
  body,    \* per inode
  flock,   \* per inode: the process that has it locked
  pc,      \* per process
  handle,  \* per process: the inode it has open
  kept,    \* per process: the body it read and is about to write back
  died,    \* history: the processes that died instead of exiting
  doomed,  \* the reaper has read a dead holder's body and will unlink
  reaped,  \* history: the path has been unlinked
  beats

vars == <<path, unused, body, flock, pc, handle, kept, died, doomed, reaped, beats>>

Started(p) == pc[p] \notin {"new", "gone"}

(* pid_alive: the process runs. *)
Alive == {p \in Process : Started(p)}

(* read_lease, through the path: a missing file and a blank one both read  *)
(* as an empty record.                                                     *)
ReadLease == IF path = None THEN Blank ELSE body[path]

Init ==
  /\ path = None /\ unused = Inode
  /\ body = [i \in Inode |-> Blank] /\ flock = [i \in Inode |-> None]
  /\ pc = [p \in Process |-> "new"]
  /\ handle = [p \in Process |-> None] /\ kept = [p \in Process |-> Blank]
  /\ died = {} /\ doomed = FALSE /\ reaped = FALSE /\ beats = 0

-----------------------------------------------------------------------------
(* __enter__: open in "a+" mode, which creates the file when there is none. *)
Open(p) ==
  /\ pc[p] \in {"new", "poll"}
  /\ IF path = None
     THEN \E i \in unused :
            /\ path' = i /\ unused' = unused \ {i}
            /\ handle' = [handle EXCEPT ![p] = i]
     ELSE /\ handle' = [handle EXCEPT ![p] = path]
          /\ UNCHANGED <<path, unused>>
  /\ pc' = [pc EXCEPT ![p] = "opened"]
  /\ UNCHANGED <<body, flock, kept, died, doomed, reaped, beats>>

(* LOCK_EX | LOCK_NB succeeds; write() then truncates before it writes. *)
Lock(p) ==
  /\ pc[p] = "opened" /\ flock[handle[p]] = None
  /\ flock' = [flock EXCEPT ![handle[p]] = p]
  /\ pc' = [pc EXCEPT ![p] = "locked"]
  /\ UNCHANGED <<path, unused, body, handle, kept, died, doomed, reaped, beats>>

(* LeaseHeld: a pass exits; a supervisor closes the file and polls again.  *)
Refused(p) ==
  /\ pc[p] = "opened" /\ flock[handle[p]] # None
  /\ handle' = [handle EXCEPT ![p] = None]
  /\ pc' = [pc EXCEPT ![p] = IF p \in Supervisor THEN "poll" ELSE "gone"]
  /\ UNCHANGED <<path, unused, body, flock, kept, died, doomed, reaped, beats>>

(* acquire_waiting: the deadline has passed. *)
TimeOut(p) ==
  /\ pc[p] = "poll"
  /\ pc' = [pc EXCEPT ![p] = "gone"]
  /\ UNCHANGED <<path, unused, body, flock, handle, kept, died, doomed, reaped, beats>>

(* write(): the file is truncated, then the body goes down and is flushed. *)
Rewrite(p, from, text, between) ==
  /\ pc[p] = from
  /\ kept' = [kept EXCEPT ![p] = text]
  /\ body' = [body EXCEPT ![handle[p]] = Blank]
  /\ pc' = [pc EXCEPT ![p] = between]
  /\ UNCHANGED <<path, unused, flock, handle, died, doomed, reaped>>

WriteDown(p, from, to) ==
  /\ pc[p] = from
  /\ body' = [body EXCEPT ![handle[p]] = kept[p]]
  /\ pc' = [pc EXCEPT ![p] = to]
  /\ UNCHANGED <<path, unused, flock, handle, kept, died, doomed, reaped, beats>>

\* Mutant: the body is written before the flock is taken.
SignUnlocked(p) == Rewrite(p, "opened", p, "signing") /\ UNCHANGED beats

Sign(p)   == Rewrite(p, "locked", p, "signing") /\ UNCHANGED beats
Signed(p) == WriteDown(p, "signing", "holding")

(* heartbeat(): the body is read back, through the path, and rewritten. *)
Beat(p) ==
  /\ beats < MaxBeats /\ beats' = beats + 1
  /\ Rewrite(p, "holding", ReadLease, "signing")

\* Mutant: the release is not recorded.
ExitSilently(p) ==
  /\ pc[p] = "holding"
  /\ pc' = [pc EXCEPT ![p] = "unlocking"]
  /\ UNCHANGED <<path, unused, body, flock, handle, kept, died, doomed, reaped, beats>>

(* __exit__: the release is recorded before the flock is dropped, and the  *)
(* file stays.                                                             *)
Exit(p)     == Rewrite(p, "holding", Released, "exiting") /\ UNCHANGED beats
Exited(p)   == WriteDown(p, "exiting", "unlocking")

\* Mutant: the holder removes the file as it leaves.
UnlockAndRemove(p) ==
  /\ pc[p] = "unlocking"
  /\ flock' = [flock EXCEPT ![handle[p]] = None]
  /\ handle' = [handle EXCEPT ![p] = None]
  /\ pc' = [pc EXCEPT ![p] = "gone"]
  /\ path' = None
  /\ UNCHANGED <<unused, body, kept, died, doomed, reaped, beats>>

Unlock(p) ==
  /\ pc[p] = "unlocking"
  /\ flock' = [flock EXCEPT ![handle[p]] = None]
  /\ handle' = [handle EXCEPT ![p] = None]
  /\ pc' = [pc EXCEPT ![p] = "gone"]
  /\ UNCHANGED <<path, unused, body, kept, died, doomed, reaped, beats>>

(* The process dies anywhere: the kernel drops its flock, the body stays.  *)
Die(p) ==
  /\ Started(p)
  /\ flock' = [i \in Inode |-> IF flock[i] = p THEN None ELSE flock[i]]
  /\ handle' = [handle EXCEPT ![p] = None]
  /\ pc' = [pc EXCEPT ![p] = "gone"]
  /\ died' = died \cup {p}
  /\ UNCHANGED <<path, unused, body, kept, doomed, reaped, beats>>

-----------------------------------------------------------------------------
(* reap_lease: the body must name a holder whose pid is gone ... *)
FindDead ==
  /\ ~doomed
  /\ ReadLease \in Process \ Alive
  /\ doomed' = TRUE
  /\ UNCHANGED <<path, unused, body, flock, pc, handle, kept, died, reaped, beats>>

(* ... and the path is unlinked, whatever it names by then. *)
Unlink ==
  /\ doomed /\ path # None
  /\ path' = None /\ doomed' = FALSE /\ reaped' = TRUE
  /\ UNCHANGED <<unused, body, flock, pc, handle, kept, died, beats>>

Step(p) ==
  \/ Open(p) \/ Lock(p) \/ Refused(p) \/ TimeOut(p)
  \/ Sign(p) \/ Signed(p) \/ Beat(p) \/ Exit(p) \/ Exited(p) \/ Unlock(p)

Next == (\E p \in Process : Step(p) \/ Die(p)) \/ FindDead \/ Unlink

Spec == Init /\ [][Next]_vars

-----------------------------------------------------------------------------
TypeOK ==
  /\ path \in Inode \cup {None} /\ unused \subseteq Inode
  /\ body \in [Inode -> Body] /\ flock \in [Inode -> Process \cup {None}]
  /\ pc \in [Process -> {"new", "opened", "poll", "locked", "signing", "holding",
                         "exiting", "unlocking", "gone"}]
  /\ handle \in [Process -> Inode \cup {None}] /\ kept \in [Process -> Body]
  /\ died \subseteq Process
  /\ doomed \in BOOLEAN /\ reaped \in BOOLEAN /\ beats \in Nat

(* The processes between their flock and its release. *)
Holders ==
  {p \in Process : pc[p] \in {"locked", "signing", "holding", "exiting", "unlocking"}}

(* Two passes never believe they are one ("the guard is hard"): at most    *)
(* one process holds the lease.                                            *)
OneHolder == \A p, q \in Holders : p = q

(* ... which is so for as long as nobody reaps.                            *)
OneHolderUntilReaped == ~reaped => OneHolder

(* A body that names a running process names the one that has the flock of *)
(* the very file the path leads to.                                        *)
LiveBodyHolds == ReadLease \in Alive => flock[path] = ReadLease

(* A lease left by an ordinary exit never looks like a dead holder's       *)
(* ("report a lease held by a dead PID ... a false alarm after every       *)
(* ordinary pass").                                                        *)
NoFalseAlarm == ReadLease \in Process \ Alive => ReadLease \in died
=============================================================================
