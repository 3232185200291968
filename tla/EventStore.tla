----------------------------- MODULE EventStore -----------------------------
(***************************************************************************)
(* The ledger (seldon_events.jsonl) and its Neo4j projection, written by   *)
(* any number of processes.  No lock orders them: each command reads the   *)
(* graph, plans its events, appends them in one write and then projects    *)
(* them one by one (core/artifacts.py:commit_writes).  A replayer is a     *)
(* `seldon rebuild` or an incremental_sync.  A process may die between any *)
(* two steps, and in the middle of its write.                              *)
(***************************************************************************)
EXTENDS TaskCommands

CONSTANTS
  Writer,      \* processes that run commands; each acts under its own name
  Sync,        \* whether anybody calls incremental_sync: no command does
  MaxLines,    \* bound: no command is planned that would pass this length
  MaxCrashes,  \* bound: processes that die between two steps
  MaxTorn,     \* bound: processes that die in the middle of a write
  MaxReplays   \* bound: replays started

ASSUME EventStoreAssumption ==
  /\ Writer \subseteq Actor /\ Sync \in BOOLEAN
  /\ {MaxLines, MaxCrashes, MaxTorn, MaxReplays} \subseteq Nat

VARIABLES
  lines,     \* the file: one record per line that was begun
  tail,      \* how the file ends
  graph,     \* the projection
  synced,    \* the line the sync point names, 0 when there is none
  pc, plan,  \* per writer: where it is, and the events it has still to write
  replayer,  \* the process that replays the log
  minted,    \* artifact ids already given out (uuid4 never repeats one)
  drift,     \* history: something happened that parts the graph from the log
  crashes, torn, replays  \* what the bounds have used up

vars == <<lines, tail, graph, synced, pc, plan, replayer, minted, drift,
          crashes, torn, replays>>

-----------------------------------------------------------------------------
(* The file.  ok: json.loads accepts the line. *)
Line == [ev : Event, ok : BOOLEAN]

(* eol: the file is empty or ends with a newline.  cut: the last line is a *)
(* fragment.  open: the last line is whole and lacks its newline, which    *)
(* read_events does not mind.                                              *)
FileEnd == {"eol", "cut", "open"}

(* The append opens the file in "a" mode and never looks at what is there: *)
(* after an unfinished line, the first new line is glued to it and neither *)
(* parses.                                                                 *)
Glued(old) ==
  [i \in DOMAIN old |->
     [ev |-> old[i].ev,
      ok |-> old[i].ok /\ (i = Len(old) => tail = "eol")]]

NewLines(events) ==
  [i \in DOMAIN events |-> [ev |-> events[i], ok |-> i > 1 \/ tail = "eol"]]

(* read_events: line by line, what json.loads accepts; read_events_since   *)
(* keeps what comes after a line.                                          *)
ReadTo(file, k) ==
  LET read[i \in 0..k] ==
        IF i = 0 THEN <<>>
        ELSE IF file[i].ok THEN Append(read[i - 1], file[i].ev) ELSE read[i - 1]
  IN  read[k]

LogView == ReadTo(lines, Len(lines))

Readable == {i \in DOMAIN lines : lines[i].ok}

ReadableAfter(k) == {i \in Readable : i > k}

-----------------------------------------------------------------------------
(* todo: the lines it has read and not yet applied.  clean: nothing has    *)
(* written beside it since it read the log.                                *)
Replayer ==
  [mode : {"idle", "wipe", "apply"}, todo : SUBSET Nat, last : Nat,
   full : BOOLEAN, clean : BOOLEAN]

NoReplay ==
  [mode |-> "idle", todo |-> {}, last |-> 0, full |-> FALSE, clean |-> FALSE]

Projecting == {w \in Writer : pc[w] = "project"}

Replaying == replayer.mode # "idle"

Init ==
  /\ lines = <<>> /\ tail = "eol"
  /\ graph = EmptyGraph /\ synced = 0
  /\ pc = [w \in Writer |-> "idle"] /\ plan = [w \in Writer |-> <<>>]
  /\ replayer = NoReplay
  /\ minted = {} /\ drift = FALSE
  /\ crashes = 0 /\ torn = 0 /\ replays = 0

\* Mutant: the events are projected without having been appended.
PlanUnlogged(w) ==
  /\ pc[w] = "idle"
  /\ \E events \in Commands(graph, Artifact \ minted, w) :
       /\ Len(lines) + Len(events) <= MaxLines
       /\ plan' = [plan EXCEPT ![w] = events]
       /\ minted' = minted \cup Spent(events)
  /\ pc' = [pc EXCEPT ![w] = "project"]
  /\ UNCHANGED <<lines, tail, graph, synced, replayer, drift, crashes, torn,
                 replays>>

(* A command reads the graph and plans everything it will write. *)
Plan(w) ==
  /\ pc[w] = "idle"
  /\ \E events \in Commands(graph, Artifact \ minted, w) :
       /\ Len(lines) + Len(events) <= MaxLines
       /\ plan' = [plan EXCEPT ![w] = events]
       /\ minted' = minted \cup Spent(events)
  /\ pc' = [pc EXCEPT ![w] = "append"]
  /\ UNCHANGED <<lines, tail, graph, synced, replayer, drift, crashes, torn,
                 replays>>

(* append_events: one write, one fsync.  The graph parts from the log when *)
(* another command is half projected, when a replay has read the log, and  *)
(* when the glue swallows a line.                                          *)
AppendEvents(w) ==
  /\ pc[w] = "append"
  /\ lines' = Glued(lines) \o NewLines(plan[w])
  /\ tail' = "eol"
  /\ pc' = [pc EXCEPT ![w] = "project"]
  /\ drift' = (drift \/ Projecting # {} \/ Replaying \/ tail # "eol")
  /\ replayer' = [replayer EXCEPT !.clean = FALSE]
  /\ UNCHANGED <<graph, synced, plan, minted, crashes, torn, replays>>

\* Mutant: only the first write of a command is projected.
ProjectFirst(w) ==
  /\ pc[w] = "project"
  /\ graph' = ApplyEvent(graph, Head(plan[w]))
  /\ plan' = [plan EXCEPT ![w] = <<>>]
  /\ pc' = [pc EXCEPT ![w] = "idle"]
  /\ UNCHANGED <<lines, tail, synced, replayer, minted, drift, crashes, torn,
                 replays>>

(* The writes of the command are projected in order; after the last the    *)
(* command returns.                                                        *)
ProjectOne(w) ==
  /\ pc[w] = "project"
  /\ graph' = ApplyEvent(graph, Head(plan[w]))
  /\ plan' = [plan EXCEPT ![w] = Tail(@)]
  /\ pc' = [pc EXCEPT ![w] = IF Len(plan[w]) = 1 THEN "idle" ELSE "project"]
  /\ UNCHANGED <<lines, tail, synced, replayer, minted, drift, crashes, torn,
                 replays>>

-----------------------------------------------------------------------------
(* full_replay reads the whole log first; an empty log clears nothing.     *)
(* incremental_sync without a sync point falls back to it.                 *)
IsLast(i, numbers) == i \in numbers /\ \A j \in numbers : j <= i

Read(k, mode, full) ==
  \E last \in ReadableAfter(k) :
    /\ IsLast(last, ReadableAfter(k))
    /\ replayer' = [mode |-> mode, todo |-> ReadableAfter(k), last |-> last,
                    full |-> full, clean |-> Projecting = {}]

StartReplay ==
  /\ ~Replaying /\ replays < MaxReplays
  /\ Read(0, "wipe", TRUE)
  /\ replays' = replays + 1
  /\ UNCHANGED <<lines, tail, graph, synced, pc, plan, minted, drift, crashes,
                 torn>>

\* Mutant: a replay that deletes nothing first.
WipeNothing ==
  /\ replayer.mode = "wipe"
  /\ synced' = 0
  /\ replayer' = [replayer EXCEPT !.mode = "apply"]
  /\ UNCHANGED <<lines, tail, graph, pc, plan, minted, drift, crashes, torn, replays>>

(* Every label Seldon owns is deleted, the sync point's node with them. *)
Wipe ==
  /\ replayer.mode = "wipe"
  /\ graph' = EmptyGraph /\ synced' = 0
  /\ replayer' = [replayer EXCEPT !.mode = "apply"]
  /\ UNCHANGED <<lines, tail, pc, plan, minted, drift, crashes, torn, replays>>

(* incremental_sync: what comes after the sync point, and nothing when the *)
(* line it names can no longer be read (read_events_since raises).         *)
StartSync ==
  /\ Sync /\ ~Replaying /\ replays < MaxReplays
  /\ synced \in Readable
  /\ Read(synced, "apply", FALSE)
  /\ replays' = replays + 1
  /\ UNCHANGED <<lines, tail, graph, synced, pc, plan, minted, drift, crashes,
                 torn>>

ApplyNext ==
  /\ replayer.mode = "apply"
  /\ \E i \in replayer.todo :
       /\ \A j \in replayer.todo : i <= j
       /\ graph' = ApplyEvent(graph, lines[i].ev)
       /\ replayer' = [replayer EXCEPT !.todo = @ \ {i}]
  /\ UNCHANGED <<lines, tail, synced, pc, plan, minted, drift, crashes, torn,
                 replays>>

(* The sync point goes down after the last event.  A replay of the whole   *)
(* log that nothing wrote beside leaves no drift; a sync re-applies what   *)
(* the commands since the sync point have projected themselves.            *)
FinishReplay ==
  /\ replayer.mode = "apply" /\ replayer.todo = {}
  /\ synced' = replayer.last
  /\ replayer' = NoReplay
  /\ drift' = ~(replayer.full /\ replayer.clean)
  /\ UNCHANGED <<lines, tail, graph, pc, plan, minted, crashes, torn, replays>>

-----------------------------------------------------------------------------
(* A process dies, or the database fails it, between two steps: what it    *)
(* had planned or had still to project is gone.                            *)
Crash(w) ==
  /\ pc[w] # "idle" /\ crashes < MaxCrashes
  /\ pc' = [pc EXCEPT ![w] = "idle"]
  /\ plan' = [plan EXCEPT ![w] = <<>>]
  /\ drift' = (drift \/ pc[w] = "project")
  /\ crashes' = crashes + 1
  /\ UNCHANGED <<lines, tail, graph, synced, replayer, minted, torn, replays>>

CrashReplay ==
  /\ Replaying /\ crashes < MaxCrashes
  /\ replayer' = NoReplay
  /\ drift' = (drift \/ replayer.mode = "apply")
  /\ crashes' = crashes + 1
  /\ UNCHANGED <<lines, tail, graph, synced, pc, plan, minted, torn, replays>>

(* A process dies inside the write: some whole lines are down and the      *)
(* next one may be cut short or lack its newline.                          *)
TornLines(events, n, end) ==
  [i \in 1..n |-> [ev |-> events[i],
                   ok |-> /\ i > 1 \/ tail = "eol"
                          /\ i = n => end # "cut"]]

TornAppend(w) ==
  /\ pc[w] = "append" /\ torn < MaxTorn
  /\ \E n \in DOMAIN plan[w], end \in FileEnd :
       /\ n = Len(plan[w]) => end # "eol"
       /\ lines' = Glued(lines) \o TornLines(plan[w], n, end)
       /\ tail' = end
  /\ pc' = [pc EXCEPT ![w] = "idle"]
  /\ plan' = [plan EXCEPT ![w] = <<>>]
  /\ drift' = TRUE
  /\ replayer' = [replayer EXCEPT !.clean = FALSE]
  /\ torn' = torn + 1
  /\ UNCHANGED <<graph, synced, minted, crashes, replays>>

-----------------------------------------------------------------------------
Next ==
  \/ \E w \in Writer :
       Plan(w) \/ AppendEvents(w) \/ ProjectOne(w) \/ Crash(w) \/ TornAppend(w)
  \/ StartReplay \/ Wipe \/ StartSync \/ ApplyNext \/ FinishReplay
  \/ CrashReplay

Spec == Init /\ [][Next]_vars

(* The same processes, never two of them at work at once, none that dies   *)
(* inside a write, and none that starts a command while the graph is known *)
(* to have parted from the log: `seldon rebuild` comes first.              *)
Active == {w \in Writer : pc[w] # "idle"} \cup (IF Replaying THEN {Nil} ELSE {})

Serial == Cardinality(Active) <= 1

RebuildFirst ==
  drift => \A w \in Writer : pc[w] = "idle" => pc'[w] = "idle"

SerialNext == Next /\ Serial' /\ RebuildFirst /\ torn' = torn

SerialSpec == Init /\ [][SerialNext]_vars

-----------------------------------------------------------------------------
(* Every variable keeps its type, whoever crashes where. *)
TypeOK ==
  /\ lines \in Seq(Line) /\ tail \in FileEnd
  /\ graph \in Graph /\ synced \in Nat
  /\ pc \in [Writer -> {"idle", "append", "project"}]
  /\ plan \in [Writer -> Seq(Event)]
  /\ replayer \in Replayer
  /\ minted \subseteq Artifact /\ drift \in BOOLEAN
  /\ crashes \in Nat /\ torn \in Nat /\ replays \in Nat

(* Nothing is in the graph that was not first written to the file          *)
(* (core/artifacts.py:commit_writes appends before it projects; a replay   *)
(* applies lines of the file), whatever crashed, was torn, wiped, replayed *)
(* or synced, and in whatever order.                                       *)
Written == {lines[i].ev : i \in DOMAIN lines}

GraphBackedByLog == BackedBy(Written, graph)

(* Unless something parted them (two writers at once, a death after the    *)
(* append, a torn write, a command beside a replay, a sync), the graph is  *)
(* the replay of the log whenever nobody is in the middle of projecting:   *)
(* what core/replay_check.py compares.                                     *)
DriftNeedsACause ==
  (~drift /\ Projecting = {} /\ ~Replaying) => graph = Replay(LogView)

(* What a command is projecting is in the log a rebuild would read         *)
(* (core/artifacts.py:commit_writes: "A graph failure after it is a        *)
(* projection fault that `seldon rebuild` repairs from the log").          *)
AppendedIsReadable ==
  \A w \in Writer : pc[w] = "project" =>
    \A k \in DOMAIN plan[w] : \E i \in Readable : lines[i].ev = plan[w][k]
=============================================================================
