------------------------------ MODULE Closeout ------------------------------
(***************************************************************************)
(* How a session is closed (core/handoff.py, behind `seldon handoff` and   *)
(* seldon_handoff).  A close looks at a window of time, holds the tasks    *)
(* that were filed in it to AD-030-R9 (they need a design note), and       *)
(* leaves a document that begins the next window.  The window is read off  *)
(* the dates of files and the newest lab notebook entry; nothing is        *)
(* locked, and other sessions file tasks and close meanwhile.              *)
(***************************************************************************)
EXTENDS Naturals, FiniteSetsExt

CONSTANTS
  Closer,        \* sessions that close
  NotClosing,
  LastTick,      \* bound: time
  Midnight,      \* the times at which a day begins
  WindowLength   \* session_window_hours

ASSUME CloseAssumption ==
  /\ LastTick \in Nat \ {0} /\ WindowLength \in Nat
  /\ Midnight \subseteq Nat /\ 0 \in Midnight

VARIABLES
  now,
  stamped,    \* tasks filed: the events made that are not yet in the log ...
  filed,      \* ... and those in it, each known by its time stamp
  notes,      \* the modification times of the files under docs/design
  entry,      \* the time of the newest LabNotebookEntry, if there is one
  handoffs,   \* the files: the date in the name, and the modification time
  closing,    \* per session: what it read, until it writes its document
  answered,   \* history: the tasks a written close held to the rule
  excused     \* history: the tasks whose window something went over

closeVars ==
  <<now, stamped, filed, notes, entry, handoffs, closing, answered, excused>>

CloseInit ==
  /\ now = 1 /\ stamped = {} /\ filed = {} /\ notes = {} /\ entry = {}
  /\ handoffs = {} /\ closing = [c \in Closer |-> NotClosing]
  /\ answered = {} /\ excused = {}

(* No two things are stamped with the same time. *)
Tick == now < LastTick /\ now' = now + 1

(* A day goes by the time it begins. *)
DayOf(t) == Max({m \in Midnight : m <= t})

-----------------------------------------------------------------------------
\* Mutant: the modification time, whatever the date in the name.
MtimeOnly(h) == h.mtime

(* handoff_boundary: the modification time, when it agrees with the date;  *)
(* a checkout gives every file a later one.                                *)
Boundary(h) ==
  IF DayOf(h.mtime) = h.day THEN h.mtime ELSE h.day

(* handoff_files: by date, then by modification time. *)
Newest ==
  {h \in handoffs : \A k \in handoffs :
     k.day < h.day \/ (k.day = h.day /\ k.mtime <= h.mtime)}

Marks == entry \cup {Boundary(h) : h \in Newest}

(* session_window: a marker that lies ahead counts for nothing. *)
Start(end) ==
  IF Marks # {} /\ Max(Marks) < end THEN Max(Marks)
  ELSE IF end > WindowLength THEN end - WindowLength ELSE 0

InWindow(t, end) == Start(end) <= t /\ t < end

-----------------------------------------------------------------------------
(* A task is filed by an actor the rule binds (any but `cc`): make_event   *)
(* stamps the event, the append comes later.                               *)
Stamp ==
  /\ Tick /\ stamped' = stamped \cup {now}
  /\ UNCHANGED <<filed, notes, entry, handoffs, closing, answered, excused>>

AppendTask(t) ==
  /\ t \in stamped /\ stamped' = stamped \ {t} /\ filed' = filed \cup {t}
  /\ UNCHANGED <<now, notes, entry, handoffs, closing, answered, excused>>

(* A design note is written, or changed. *)
WriteNote ==
  /\ Tick
  /\ \E old \in {{}} \cup {{n} : n \in notes} : notes' = (notes \ old) \cup {now}
  /\ UNCHANGED <<stamped, filed, entry, handoffs, closing, answered, excused>>

(* `seldon closeout`: its LabNotebookEntry begins a window, and no close   *)
(* looked at the one before.                                               *)
NotebookEntry ==
  /\ Tick /\ entry' = {now} /\ excused' = excused \cup filed \cup stamped
  /\ UNCHANGED <<stamped, filed, notes, handoffs, closing, answered>>

(* A checkout or a fresh clone: every file is as old as that.  On the day  *)
(* of a handoff this looks as if the session had ended then.               *)
Checkout ==
  /\ Tick
  /\ handoffs' = {[h EXCEPT !.mtime = now] : h \in handoffs}
  /\ notes' = {now : n \in notes}
  /\ excused' = excused \cup
       (IF \E h \in handoffs : h.day = DayOf(now) THEN filed \cup stamped ELSE {})
  /\ UNCHANGED <<stamped, filed, entry, closing, answered>>

-----------------------------------------------------------------------------
(* build_handoff: the end of the window is now.  Tasks and no note: the    *)
(* close is refused, and nothing changes.                                  *)
Build(c) ==
  LET seen == {t \in filed : InWindow(t, now)}
      noted == \E n \in notes : InWindow(n, now)
  IN
  /\ Tick /\ closing[c] = NotClosing
  /\ seen = {} \/ noted
  /\ closing' = [closing EXCEPT ![c] =
       [end |-> now, tasks |-> IF noted THEN seen ELSE {},
        unread |-> stamped \cup {t \in filed : Marks = {} /\ t < Start(now)}]]
  /\ UNCHANGED <<stamped, filed, notes, entry, handoffs, answered, excused>>

(* write_handoff, after the session's files have been committed: a new     *)
(* file of that date, or (--force) in the place of one.                    *)
WriteHandoff(c) ==
  LET day == DayOf(closing[c].end)
      ofDay == {h \in handoffs : h.day = day}
  IN
  /\ Tick /\ closing[c] # NotClosing
  /\ \E old \in {{}} \cup {{h} : h \in ofDay} :
       handoffs' = (handoffs \ old) \cup {[day |-> day, mtime |-> now]}
  /\ answered' = answered \cup closing[c].tasks
  /\ excused' = excused \cup closing[c].unread
                        \cup {t \in filed \cup stamped : t >= closing[c].end}
  /\ closing' = [closing EXCEPT ![c] = NotClosing]
  /\ UNCHANGED <<stamped, filed, notes, entry>>

(* A dry run, a file of that name, a death. *)
GiveUpClose(c) ==
  /\ closing[c] # NotClosing /\ closing' = [closing EXCEPT ![c] = NotClosing]
  /\ UNCHANGED <<now, stamped, filed, notes, entry, handoffs, answered, excused>>

TimePasses ==
  /\ Tick
  /\ UNCHANGED <<stamped, filed, notes, entry, handoffs, closing, answered, excused>>

CloseNext ==
  \/ Stamp \/ WriteNote \/ NotebookEntry \/ Checkout \/ TimePasses
  \/ \E t \in stamped : AppendTask(t)
  \/ \E c \in Closer : Build(c) \/ WriteHandoff(c) \/ GiveUpClose(c)

CloseSpec == CloseInit /\ [][CloseNext]_closeVars

-----------------------------------------------------------------------------
CloseRecord == [end : Nat, tasks : SUBSET Nat, unread : SUBSET Nat]

(* What is past lies before now. *)
CloseTypeOK ==
  /\ now \in 1..LastTick
  /\ stamped \subseteq 1..(now - 1) /\ filed \subseteq 1..(now - 1)
  /\ notes \subseteq 1..(now - 1) /\ entry \subseteq 1..(now - 1)
  /\ handoffs \subseteq [day : 0..(now - 1), mtime : 1..(now - 1)]
  /\ closing \in [Closer -> {NotClosing} \cup CloseRecord]
  /\ answered \subseteq Nat /\ excused \subseteq Nat

(* AD-030-R9 is enforced: a task that lies before every window to come was *)
(* in the window of a close that found a note, unless something hid it: it *)
(* was filed while a close was under way (or its line was appended after   *)
(* the close had read the log), a notebook entry began a new window over   *)
(* it, a checkout fell on the day of a handoff, or the first close came    *)
(* later than the hours it looks back.                                     *)
EscapesHaveACause ==
  \A t \in filed : (\E m \in Marks : t < m) => t \in answered \cup excused
=============================================================================
