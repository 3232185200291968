# Seldon in TLA+

Seldon is an event-sourced research operating system written in Python. Every
project has a ledger, `seldon_events.jsonl`, to which commands append, and a
Neo4j graph that is a projection of the ledger. On top of the ledger a
*standing dispatcher* picks open tasks, starts Claude sessions on them in git
worktrees, inspects what they do, and merges their branches. These modules model
the parts of Seldon whose correctness depends on the order in which several
processes take their steps, and the algorithms the commands rely on. TLC checks
the models on small instances; TLAPS proves many of the properties for every
value of the constants.

`PROJECT.json` lists, for every definition, the source lines it stands for, and,
for every checked property, a mutation of the code that breaks it.

## Inventory

| Component | State it keeps | Operations | What is hard | What makes it correct |
|---|---|---|---|---|
| Event log (`core/events.py`) | the file | append in one write, read, read since an event | a write can be torn, and the next one does not look at how the file ends; no lock orders the writers | what was appended stays readable; order of the file is the order of events |
| Projection and replay (`core/graph.py`, `core/sync.py`, `commands/rebuild.py`) | the graph, the sync point | apply an event, full replay, incremental sync | crash between append and projection; a rebuild beside a writer; replaying what was already projected | the graph says nothing the log does not; it is the replay of the log unless something named parted them |
| Artifact and task commands (`core/artifacts.py`, `core/state.py`) | nothing of their own | create, update, transition, claim, block, supersede, walk to completed, link | plans are computed from a graph read earlier; several events must go down together | a command is atomic; the log is a legal run of the state machine; reasons agree with states |
| Precedence (`core/precedence.py`) | nothing of its own | add, chain, remove, find cycles, list, ready | acyclicity is checked before the write and not enforced by it; termination of the search | `precedes` is acyclic; refusal is exact; a listing respects it; a stall can be explained |
| Results and staleness (`core/staleness.py`) | states of results and their citers | propagate along citations; decide whether a stale artifact was decided or drifted | the recursion works on states it read before; diamonds and circles of citations; another command in between | every citer of a stale artifact is stale; the walk ends; a verdict rests on a real decision |
| Dispatch lease (`core/dispatch.py`) | the lock file: flock and JSON body | enter, wait, heartbeat, exit, reap | the flock belongs to an inode, the body to a path; holders die; the reaper unlinks | one holder; the body tells the truth about a live holder |
| Dispatch pass (`commands/dispatch.py`, `core/dispatch.py`, `core/reconcile.py`) | the pass ledger, holds | classify, reap, regate, reconcile, evaluate, `plan_launches`, launch | stale evaluation; exclusive tasks behind small ones; a tree that is dirty while somebody files | what runs together does not collide; nobody is starved; the queue is refused for a cause only |
| Worktree dispatch (`commands/dispatch_worktree.py`) | claims, worktree leases, branches, finish records | claim, launch, supervise, gate, merge, sweep, remerge, regate | main moves while a branch is gated; a task's state is read and used some time later; any process may die between two steps | main advances only to gated trees; finished means merged; no work is lost |
| Stations (`core/stations.py`, `commands/dispatch_stations.py`) | per session: records to read, verdicts, stops, the stations lock | tool gate, stop gate, boundary, part complete, first article, inspect, write a stop, reap | several inspectors; a session that works, waits or hangs while it is inspected; several stops at once | no record is answered twice; no hard stop stays unanswered |
| Numbering, filing, returns, registration (`core/numbering.py`, `core/filing.py`, `core/returns.py`, `commands/cc.py`) | task files in the tree, the index and git's history; the filing lock | allocate, file, register, repair a number, commit the file and the lines, return, the completion gate | `cc register` takes no lock; every git command may fail; the pass commits the same paths | a number names one task; what is registered ends up in git's history; a completed answering task has its return |
| Automatic redrive (`core/redrive.py`) | the redrives on record | answer a stop of the dispatcher's own making, lift a block whose waits have landed, redrive by hand | a list of blocked tasks is worked off while people move them; one refusal ends the rest; a stop must be answered once | what has ended is opened again only by a pass that had read it before; one automatic redrive per stop; what can be lifted is lifted |
| Cross-project waits (`core/cross_project.py`, `core/projects.py`) | the waits of a task | add, remove, evaluate against another project's graph, which is only read | that graph may be out; its tasks may be dropped or vanish | no session starts before what it waits for has landed |
| Session closeout (`core/handoff.py`, `commands/handoff.py`) | handoff documents, whose dates are the windows | derive the window, check AD-030-R9, write the document | the window is read off file times and the newest notebook entry; other sessions file and close meanwhile | every task filed by a gated actor falls under some close that looks for a design note |
| Decisions, issues, ontology, paper, governed documents, prior art, recall | documents and graph nodes | parse, generate, score | little control: they are transformations of documents | not modelled; see *What is not modelled* |

How the components interact: a command of any kind goes through
`core/artifacts.py`, which reads the graph, plans its events, calls
`core/events.py` once, and then projects them through `core/graph.py`. Nothing
serialises two such commands. The dispatcher is a set of processes over the same
ledger (passes started by a timer, one supervisor per worktree, the operator's
commands, the session's own commands and hooks) that share the pass lease, one
lease per worktree, the filing lock, the stations lock, the git repository and
the graph.

## Modules

| Module | Models | Checked by |
|---|---|---|
| `Projection` | the five mutating events and what each does to the graph (`_apply_event` and `core/graph.py`) | through `EventStore` |
| `Precedence` | `find_path`, `cycle_if_added`, `topological_order`, readiness, `add_chain`'s validation | through `PrecedenceView`, `TaskCommands` |
| `TaskCommands` | what each command plans from the graph it read | through `EventStore` |
| `EventStore` | the file, the graph, any number of writers, a replayer, crashes, torn writes | `concurrent_store`, `torn_line` |
| `AtomicStore` | the promise: a command sees the whole history and takes effect in one step; which commands there are, and what events make of a graph, are its parameters | as a property of `SerialStore` |
| `SerialStore` | the store with one process at a time, and the refinement | `serial_store`, `concurrent_cycle` |
| `PrecedenceView` | the answers of the precedence commands over every small graph | `graph_readings` |
| `LaunchQueue` | `plan_launches`: which tasks a parallel pass launches | `graph_readings` |
| `Staleness` | `propagate_staleness`, and `decided_not_drifted` | `graph_readings` |
| `CycleSearch` | `find_cycles` step by step | `graph_readings`, `cycle_search_returns` |
| `Closeout` | the window of a session's close and the rule held against it | `graph_readings` |
| `Lease` | the lock file: flock, body, deaths, the reaper | `lease_and_stations`, `lease_reap` |
| `Stations` | one inspected session, its inspectors, its stops | `lease_and_stations` |
| `WorktreeDispatch` | passes, supervisors, sessions, the merge rounds, regate, operators, a moving main | `dispatch`, `regate_ungated` |
| `SerialPass` | the pass with `max_parallel` = 1, automatic redrives, waits on another project | `serial_pass` |
| `Filing` | `cc file`, `cc register`, `cc return` and the pass's reconcile over one repository | `filing` |
| `ProjectionProofs`, `EventStoreProofs`, `PrecedenceProofs`, `GraphReadingsProofs`, `LeaseAndStationsProofs`, `DispatchQueueProofs`, `FilingProofs`, `WorktreeDispatchProofs` | theorems | TLAPS |

`MCEventStore` and `MCSerialStore` extend a module with its symmetry sets,
`MCWorktreeDispatch` with the write sets of a session, `MCFiling` with the pairs
of commands. `MCGraphReadings` and `MCLeaseAndStations` put modules that share no
state side by side: a behaviour picks one of them, and the others stay in a state
of rest in which nothing their fairness names can be done. `*.cfg` give the
constants values.

### State and actions against the code

*EventStore.* `lines` is the file, one record per line that was begun; `ok`
says whether `json.loads` accepts it. `tail` says how the file ends: with a
newline, in the middle of a line (`cut`), or after a whole line that lacks its
newline (`open`, which `read_events` accepts until something is appended).
`graph` maps an artifact id to the list of nodes that carry it, because
`CREATE` does not look for one, and counts parallel relationships. `pc` and
`plan` are a command's place in `commit_writes`: `Plan` reads the graph and
computes every event; `AppendEvents` is the single write; `ProjectOne` is one
iteration of the projection loop. `StartReplay`, `Wipe`, `ApplyNext`,
`FinishReplay` are `full_replay`; `StartSync` is `incremental_sync`. `drift` is a
history variable that records that something happened which parts the graph from
the log. Identity, time stamps, actor and authority of an event are left out,
except for the claim, whose actor is the value of `claimed_by`.

*Lease.* A process moves `new` → `opened` → `locked` → `signing` → `holding` →
`exiting` → `unlocking` → `gone`; a supervisor that finds the lease held goes to `poll`
and opens again, a pass is gone. `Rewrite` truncates and `WriteDown` writes, so
the moment a reader sees an empty file is a state. `Die` is possible everywhere.

*CycleSearch.* The input is a list: repeated pairs and the order of a node's
children matter to the code. `Detect` is the self-loop and Kahn part; `PickRoot`
is an iteration of `while unvisited`; `Descend`, `Report`, `Backtrack`, `GiveUp`
are the branches of `_dfs_find_cycle` and of its caller.

*LaunchQueue.* `queue` holds the waiting and the running tasks in the order they
were created, which is the order `fifo` gives. `Fits` is `plan_launches`' reading
of one task: what runs, what is launched before it in the same pass, and what
waits before it, all keep what they declared, and an exclusive task keeps
everything. `Pass` launches the tasks `Launches` chooses, or a part of them that
holds the first: the disk criterion may stop a pass after any launch. `refused`
are the tasks that another criterion refuses. A task's name is used again once it
has finished, so that the queue never runs dry.

*Staleness.* `frames` is Python's stack: one record per call of
`propagate_staleness` that is under way, with the citers it read and their states
at that moment. `Visit` takes a citer, transitions it with the state that was
read, and calls; `Return` goes back. `Verify` is another command in between,
`WalkDies` a death. `supersededBy` and `withdrawn` are what `_verdict` follows:
its pointers may form a circle, and `Lands` must not end on one; `Verdict[visited]`
are the artifacts that get a verdict when those of `visited` were seen before.

*WorktreeDispatch.* `task[t]` is the task's node (`state`, `claimed`), its lease
file (`flock`, `body`) and the launch of its last `dispatch_finished`. `seen` is the
state that a finish under the pass lease has read of its task and has yet to use,
`found` the lease bodies a pass has read of the claims in flight. `job[l]` is
a launch: a supervisor, its session (`child`), its branch (`writes`, and
`arrived`, the files main changed since the commit the branch is based on).
`main` only grows: a set of landed launches. The order of a launch is

| `pc` | Code | Left by |
|---|---|---|
| `claimed`, `starting` | `_launch_worktree`, `_start_claimed` | `Popen`, `LaunchFails`; `Enter`, `Refused` |
| `session` | `_supervise` (`_run`) | `SessionEnds` |
| `fork`, `gating` | a round of `_merge` outside the pass lease | `Fork`, `Refuse`; `GateGreen`, `GateRed` |
| `ready` | ... that now takes the lease | `Retry`, `Refuse`, `Land` |
| `landed` | `_finish_merged`, in the same lease | `ReadMerged`, then `FinishMerged` |
| `failing`, `refused` | `_finish_launch_failed`, `_finish_unmerged` | `ReadFinish`, then `Finish`; `LeaveUnfinished` |
| `requeue` | the redrive in `_finish_launch_failed` | `Requeue` |
| `checking` | `regate`'s check lines, by a pass | `ChecksPass`, `ChecksFail` |

The pass lease is `Lease` seen from outside: to take it is one step, to release it
another, and the kernel releases it when its holder dies. A finish keeps the lease over several
actions: the fast-forward, the reading of the task's state, and what is done with
it. In between, a process may die and an operator, who takes no lease, may move the
task: `plan_task_transition` does not read it again. A pass goes `reap` (one claim
after the other, by what it read at its start) → `regate` → `launch`, and within
them `mend` (it merges a kept branch, through the supervisor's own actions:
`ByPass`), `claimed`, `sign`, and `unlaunched` (it finishes a launch that failed). `ungated`, `unchecked`
and `erased` are history variables. Which accepted tasks a pass launches is a free
choice in `Evaluate`: what the criteria and `plan_launches` would pick is among
them. A merge's refusals other than a conflict and a red gate are one action,
`Refuse`.

*Stations.* `stops` are the stops written since the launch, in order, with their
kind and their reason; `asked` are the session's parts and first articles. The
session is at `work`, in the `wait` of a first article, in the Stop hook (`gate`)
or `over`. Its commands are tool calls and meet `tool_gate` first: `Denied` is the
refusal that answers a hard stop. `StopGate` is the Stop hook with everything it
appends in one action. An inspector takes the flock without waiting, reads the
log once (`seen`), runs its checks, which may take half an hour, and appends what
it found; the records may be read in any order. Only the holder, which waits on
the session, may `Reap`, and only when the log has not grown since it began
(`calm`). A hook's check lines are assumed to give the answer they gave when
nothing was done since a refused Stop.

*SerialPass.* A task is its `state`, the marker in `claimed_by`, its
`waits_on_external`, and `stop`: the record a redrive would answer, of which
`core/redrive.py` takes the latest of the most specific kind since the launch, and
the redrives that have answered it. A pass goes `redrive` (the stops that are the
dispatcher's own defect, read once into `batch`) → `lift` (the declared blocks whose
waits have landed) → `claim` (the row it chose, one transition at a time) →
`launch` → `session`, and through `finish_session` to `idle`. Wherever the code reads a
task's state and uses it later, the model has two actions: `TakeBlocked` and `Redrive`;
`ReadMerged` and `Complete` (in between, the consumer's return is filed);
`ReadUnmerged` and `BlockHalted`; `ReadUnlaunched`, `BlockUnlaunched` and `Requeue`.
`chosen` holds the task and what was read of it. `RedriveRefused` is the exception
that ends all of `auto_redrive`. `far` and `dark` are the other
project's graph, which is only read. `late` is a history variable: the waits added
to the chosen task since its row was read.

*Closeout.* Time is a counter, and every stamp is one of its values; a day goes by
the time it begins (`Midnight`). `handoffs` holds per document the date in its name and its
modification time, which `Boundary` (`handoff_boundary`) turns into the instant
where the next window begins. A close is two steps: `Build` takes the end of the
window, reads the log and the notes and refuses; `WriteHandoff` leaves the
document. `Stamp` and `AppendTask` part the time stamp of an event from its line in
the log. `answered` and `excused` are history variables.

*Filing.* A file is a number and a slug. Each of its three copies (`disk`,
`index`, `head`) names the author of its bytes, or nobody; `registered` are the
artifacts that name it; `store` are the actors with event lines that git does not
hold. A writer runs `cc file`, `cc register` or `cc return`:

| `pc` | Code | Actions |
|---|---|---|
| `idle`, `drafting`, `find`, `name` | `allocate`; an author who writes a file; `find_return`; `write_return` | `Ask`, `Write`; `Pick`; `Find`; `Name` |
| `waiting`, `write` | `filing_lock`, the file is written | `TakeLock`, `GiveUp`; `Write` |
| `look`, `check`, `repair` | `register_task_file` up to the number check; `retry_registration` | `Look`, `Gate`, `Check`; `Repair` |
| `add`, `commit`, `unadd` | `_commit_registered_file` | `Add`, `CommitFile`, `Unadd` |
| `create`, `lines`, `record` | the artifact; its lines are committed; the retry's record | `Create`, `Lines`, `Record` |
| `refused`, `release` | the file is removed; the lock is let go | `Refuse`; `Release` |
| `verify`, `blocked`, `done` | `find_return` again: the completion gate | `Find`, `Rerun` |

`untracked` and `clean` are what a writer read at `Look` and uses later. A pass
goes `reconcile` → `commit` → `launch`; it holds the filing lock until it has read
the tree (`Evaluate`). `spoiled` is a history variable: the files over which
something went wrong that nobody is still at (a death, a failed command, an
overwriting, a refusal that leaves its file). A mishap (`MaxMishaps`) is a death, a
git command that fails, a wait that times out or a refusal other than for the
number.

## Runs

| Run | Question | Instance and why it is enough |
|---|---|---|
| `serial_store` | Is a command atomic, is the log legal, `precedes` acyclic, do reasons match states, has an id one node? | two tasks, one other artifact, the whole ResearchTask machine, six lines, one death, one rebuild: a walk of three transitions, a chain, a supersession and a rebuild all fit (261 346 states) |
| `concurrent_store` | Whatever interleaves, is everything in the graph in the file, and does drift have a cause? | two writers, a replayer, one death, one torn write, two replays, three lines: every pair of concurrent steps occurs |
| `graph_readings` | Do refusal, listing and readiness mean what they say? Is what `find_cycles` reports a cycle, is no region missed, does a DAG yield nothing? Does what a pass launches collide, and is any task starved? Does staleness reach every citer, and does its walk end? Does a filed task escape a session's close? | every graph over three tasks with every state of each and every set of external waits; every list of up to four pairs over three nodes, with every set of self-loops; three tasks over two paths, two at a time, where an exclusive task, one it waits for and one filed after it all fit; every citation among three artifacts, a diamond's two paths and every circle among them, with one disturbance; two sessions that close, over six ticks and two days: a close, a task behind it and a second close with a checkout or a midnight between them fit, and nine ticks, without the other parts, give no other answer (457 446 states) |
| `lease_and_stations` | One holder, a true body, no false alarm? Is a record answered once, and does every hard stop get its answer? | two passes, a waiting supervisor, three inodes, one heartbeat; one session, its holder and a second inspector, one record beside two ordered stops, so that a hard stop stands behind another one |
| `dispatch` | Is what lands checked together with what it lands on? Has a task one supervisor? Is an operator's withdrawal overtaken by nothing but what was read before it, is `completed` true of main, is an abandoned claim found? | one task, two launches (a redriven task beside its first session), one file, two merge rounds, one death. One task is enough: what the other tasks do to it is to move main (`MainMoves`), to end a pass's `todo`, and to hold the pass lease, which a pass does too (1 407 576 states) |
| `filing` | Is a number held once, is the queue refused for a cause, does everything registered or returned get into git's history? | two writers that run every pair of commands, passes without end, one mishap, four numbers: one is there, two are taken by the writers, and one is left for a repair (`MaxNumber` never stops anybody); three writers without a mishap give the invariants and `RefusedForACause` no other answer (2 699 479 states) |
| `serial_pass` | Does a session ever start before what it waits for? Is a stop answered by one automatic redrive, is what has ended opened by anybody who had not read it before, is what can be lifted lifted? | two tasks of this project, so that one's refusal spoils the other's redrive, one of another; three commands, stops, outages or deaths: a task claimed by hand, blocked and claimed again after a stop, or a command between each two steps of a pass. `BlocksAreLifted` is stated of one of the two tasks, since nothing tells them apart (1 736 637 states) |
| `concurrent_cycle` | May two processes author a cycle? (yes) | two writers, nothing failing |
| `torn_line` | Is what a command projects in the log a rebuild would read? (no) | one writer, one torn write |
| `cycle_search_returns` | Does the search always return? (no) | as the search of `graph_readings` |
| `lease_reap` | Does the reaper keep one holder? (no) | three passes, two inodes |
| `regate_ungated` | Does the project's gate run on whatever main changed under a branch? (no) | one launch, one round, nobody dies |

The bounds (`MaxLines`, `MaxCrashes`, `MaxTorn`, `MaxReplays`, `MaxPairs`,
`MaxBeats`, `MaxDeaths`, `MaxMoves`, `MaxOrders`, `MaxAsked`, `MaxNumber`,
`MaxMishaps`, `LastTick`, and the sets `Inode`, `Launch`, `Job` and `Crew`) are
constants named in the modules and stand in the guards. `Midnight` and
`WindowLength` are parameters: a day begins at 0 and at 5, and a close without a mark
looks back two ticks, less than the time a session may take. Deadlock is not checked where a process may
simply end: the models stop when their bounds are used up or every process has
exited or ended. It is checked in `filing`, whose passes never stop.

### What the violation runs show

* `concurrent_cycle`: `validate_precedes_write` says that no writer can author a
  cycle, because every writer calls it. Two processes that both check before
  either has projected write `a → b` and `b → a`.
* `torn_line`: `commit_writes` says that a graph failure after the append is
  repaired by `seldon rebuild`. After a torn write, the next command's first
  event is glued to the fragment: that command projects and succeeds, and every
  later rebuild drops the event.
* `cycle_search_returns`: `find_cycles` does not terminate on pairs such as
  `2→3, 3→2, 1→2, 2→1`: the search from 1 reports the cycle 2, 3, which leaves 1
  unvisited, and starts from 1 again. It is called by `seldon verify`.
* `lease_reap`: `reap_lease` reads the body, decides that its holder is gone,
  and unlinks the path. A pass that took the flock in between holds an unlinked
  file, and the next pass creates and locks another one.
* `regate_ungated`: `_merge` and `regate` both say that a branch is re-gated when
  main changed a file it changed. `regate` rebases the kept branch onto main before
  it hands it to `_merge`, whose fork is then main: there is no overlap left to
  see, and `gate_command` does not run. What did run is the task's own check
  lines, which is what `GatedOrChecked` says and the `dispatch` run shows.

### What the properties of the passing runs have to exempt

The code does these things, so a property that holds has to name them.

* A task's state is read and used some time later, and a withdrawal in between is
  overwritten, because operators' commands take no lease and `plan_task_transition`
  does not read the task again. `WithdrawnStays` and `EndedStays` say that there are
  no windows but these (`ReadOpen`), and that nobody enters one over a task that
  has ended already:
  - a merged finish, from `dispatch_worktree.py:1272` over the filing of the
    consumer's return (which waits for a lock and runs git) to the walk to
    `completed` at 1286, or to the block in `_finish_merged_unreturned`;
  - an ordinary finish, from 1453 over the record to the block at 1460, and a failed
    launch's, from 788 to the block, and from 792 to the commit of its redrive;
  - a reap, which blocks from a literal `in_progress` (403) the claims that the pass
    read at its start (215); for each one before it a session is killed, a record
    written and a notice sent;
  - a redrive, from `redrive.py:108` over the reading of the log to its commit (134);
  - the rows of the queue, from which `_claim` walks, and a regate, which moves a
    kept task from a literal `blocked` after minutes of checks.
  A person's or a session's own command has such a window too, from its reading to
  its append. Here it is one step; `EventStore` takes commands apart.
* A launch whose `supervising` record was written over (by the pass that signs the
  lease after it started the supervisor, or by a later supervisor of the same task)
  can leave a session that no pass will kill: `OrphanOnRecord` speaks of the others.
* `AbandonedIsFound` leaves out a claim without any lease record, which `_classify`
  reads as an in-place one and which stays until somebody intervenes.
* `cc register` checks a number against a graph that nobody holds still: two of
  them, or one beside a `cc file`, can register one number twice.
  `NumberHeldOnce` says that of two registrations under one number at least one
  took no lock.
* A filing that its retry renumbered and that is refused again removes the path it
  first wrote and leaves the renamed file, although `file_task`'s docstring
  (`core/filing.py:185`) says "so a refused filing leaves the project's tree as it
  was". In `RefusedForACause` that file is one of the causes (`spoiled`).
* Two returners of one task look before either writes. They can end with two
  returns, and both refuse from then on: `ReturnIsFiled` names the case.
* A return that a task was let complete with stays in the tree and in git's history
  (`CompletedHasReturn`), but for a second `cc register` of that very file: when
  another registration has taken its number too, the repair renames the return that
  stands, and its registered path is gone. It takes a returner and two registrars.
* Every way into a session goes through `_claim`, which `commands/dispatch.py:1530`
  calls "the compare-and-set": it walks from the state of a row read earlier and
  compares nothing. `EndedStays` therefore exempts it. It also exempts the finish
  after an outage, `_finish_unreadable`, which reads nothing and writes its block
  from the state the claim left.
* `AnsweredOnce` speaks of what inspectors answer. A session's own `huddle` answer, and
  `first-article --no-wait`, take no stations lock.
* `LaunchedWaitsMet` exempts a wait added after the queue was read: nothing looks at
  the waits again before the session starts.
* `BlocksAreLifted` names `ClaimLeft`: a task that a person resumes after a block
  keeps the dispatcher's claim, reads as in flight, and holds up every pass, with
  its redrives, until somebody intervenes. One refused redrive ends the rest of
  that pass's, which the next pass does again. `pass_parallel` never redrives by
  itself (`_auto_redrive` is called from the serial pass only), and a launch that
  failed redrives a block even where a person set it.
* `EscapesHaveACause` lists how a task gets past AD-030-R9: filed while a close is
  between its reading of the log and its document (or stamped before and appended
  after), covered by a lab notebook entry, a checkout on the day of a handoff (whose
  file then seems to have been written at the checkout), or a first close later than
  `session_window_hours`.
* `HardStopAnswered` says that a hard stop is answered, and not that the session
  ends: a session that was denied a call and goes on working gets no second stop
  for the same reason.

## Fairness

`CycleSearch` and `Staleness` assume weak fairness of their next step, because one
thread runs the loop and nothing it calls can wait. `SearchReturns` fails under
that fairness, so its counterexample is the code's loop and not a process that
stopped.

`LaunchQueue` assumes that passes go on (launchd starts one every few minutes) and
that a task that runs finishes: `EveryJobRuns` asks whether the queue starves a
task, not whether a session ends.

`WorktreeDispatch` assumes that passes go on (weak fairness of `PassStep`): launchd
starts one every few minutes, and what a pass waits for is bounded by
`check_timeout_s` and `gate_timeout_s`; that a merge done by a pass goes on; and
that a supervisor that holds the pass lease, which a pass waits for, goes on to
record its finish and to let it go. It does not assume that a session ends, since `_run` sets no limit
to it, that a supervisor that waits for the lease gets it, or that anybody stops
moving main.

`SerialPass` assumes that passes go on, that a session ends (`Stations` is about
whether one does), and that the other project's graph comes back after an outage.
It does not assume that anybody commands anything, or that the other task lands.

`Filing` assumes that a command that runs goes on, that one that waits for the
filing lock gets it when it comes free again and again (`lock_wait_s` is two minutes
by default and a holder keeps it for seconds, so a wait that times out counts as a mishap),
and that passes go on. `Rerun` is part of a returner's steps: the completion gate
names the command that is to be run again, and `ReturnIsFiled` asks whether running
it again helps.

`Stations` assumes that a session that does not hang goes on, that one that hangs
falls silent, that time passes, that the holder, whose tick comes round for ever,
gets the stations lock when it comes free again and again, that an inspection
that began ends (its checks have a timeout), and that the holder reaps what it may
reap. It does not assume that a session ever ends by itself, or that an operator
inspects.

The other specifications assume none: their properties are safety properties.

## Proofs

Every safety property that a run checks is proved, for every value of the
constants. A proof follows one argument: an invariant that implies the property
holds initially and is kept by every action, one lemma per action. What is assumed
of the constants is in the assumption each module names, which TLC evaluates on the
instances.

*Induction.* Much of what is proved is about recursions: a replay of the log, a
breadth-first search, Kahn's rounds, a chain of pointers. The library's induction
theorems take an operator as a parameter, which none of the installed provers
can instantiate. `PrecedenceProofs` therefore begins with induction stated for a
set (`UpTo`: a set that holds 0 and the successor of what it holds, holds
everything, for otherwise what it misses had a least member, which
`NatLessThanWellFounded` and `WFMin` give), and with the existence of a function
defined by recursion over `0..m` (`IterationExists`). Each recursion of a
model is shown to have a value by it, and what it computes is then a set to which
`UpTo` applies. Arguments that go down a measure take a least counterexample
(`LeastNatural`, `GreatestNatural`) instead.

* `PrecedenceProofs`, of `Precedence`: `find_path` computes the least set that holds
  the start and is closed under successors (`ReachedIsLeast`, `ReachedIsClosed`). As
  many rounds as there are nodes are enough because a growing chain of subsets fills
  the set or stands still (`ChainStops`). From this follow what `cycle_if_added`
  answers (`CheckIsExact`) and what `topological_order` lists
  (`TopologicalOrderIsAll`; `CycleBehind` finds the cycle behind whatever never
  becomes ready).
* `ProjectionProofs`: what one event does to the graph (its type, its backing), what a
  sequence of events does (`ApplyAll` of a concatenation, of one more event), and
  what a command may plan. `Ledger(h, g)` says that `g` is the graph a legal
  history `h` stands for: every node is in the state of its last move, `precedes` is
  acyclic, no id has two nodes. `Fits(g, e)` says that event `e` may be written when
  the graph is `g`; an event that fits keeps `Ledger` (`EventKeeps`), hence so does a
  sequence that fits event by event (`Fitting`), and every command of
  `TaskCommands` plans such a sequence (`CommandKeeps`), a walk of several
  transitions and a chain, whose later links are checked beside its earlier ones,
  among them.
* `EventStoreProofs`, of `EventStore`: `TypeCorrect` and `NothingUnlogged`. The
  invariant adds to `TypeOK` and `GraphBackedByLog` that what a writer in `project`
  has still to project is in the file (`Held`) and that the lines a replayer has
  still to apply exist (`TodoInFile`): without these, projecting an arbitrary event
  would put something in the graph that no line says.
  `DriftHasACause` needs more, since `DriftNeedsACause` says nothing of the
  moments in between. `Faithful`: with no drift, the graph is the replay of the
  file, or becomes it when the one writer that projects has applied what it still
  holds. `Rebuilding`: a replay of the whole log that nothing wrote beside has built
  the graph of the lines it has come to. `CleanIsQuiet`: nobody projects beside such
  a replay, and so the graph it leaves is the one of the file.
  Of `SerialStore`: `SerialInvariant`, and from it `LogStaysLegal`,
  `PrecedesStaysAcyclic`, `ReasonsStayMatched`, `NodesStaySingle`. `SerialInv` adds to
  the above that every line parses (`Whole`), that at most one process is at work
  (`Alone`), that an id in the log was minted (`Accounted`), that every prefix of the
  file is a legal history with its graph (`Booked`), that the reasons agree at its end
  (`Reasoned`), and that a command's plan comes from the graph of the whole log
  (`Planned`): without `Planned` the append could write anything. `NodesStaySingle`
  speaks of the graph at every moment, halfway through a projection or a rebuild
  too, and takes `Midway` for it: the graph is that of some prefix of the file.
  A sync replays lines that were projected before and breaks that, so the
  theorem assumes `~Sync` (as `serial_store` does; no command calls
  `incremental_sync`); the others do not.
  `CommandsStayAtomic` is the refinement of `AtomicStore`: while a process is at work
  the abstract graph is the replay of the log (`SettledIsReplay`), so the append is
  the step at which a command takes effect, and every other step, a death and a
  rebuild included, is a stutter (`CommandIsOneStep`).
* `GraphReadingsProofs`, of `CycleSearch`: `TypeCorrect`, `OnlyCycles`,
  `DagsReportNothing`, `RegionsAreReported`. The first invariant is the type together
  with `PathIsPath`: a closed path without repetition is a cycle. In a graph that can be
  numbered upwards there is none, by its greatest number. That no region is missed
  takes three more things. Kahn's residue keeps every node that leads to
  itself: what it leads to has a parent in the same set for every member, and a node
  is removed only when all of its parents were (`EveryParentCounts`, by
  cardinalities: repeated pairs only make a removal less likely). A node is
  `Hopeless` when no set in which everyone has a child holds it; `Explored` says that
  what the search backed out of is hopeless, so a root that is given up leads to no
  cycle. `InHand` puts them together: whatever leads to itself is on a reported cycle
  or still unvisited. `RegionInv` was checked by TLC first.
  Of `PrecedenceView`: `RefusalsAreExact`, `OrdersRespectPairs`, `StallsHaveACause`,
  from `PrecedenceProofs`; a stall has a cause because, of the open tasks before a
  stalled one, the first in a numbering that goes up waits for none of them: what it
  waits for is rejected, or in another project.
  Of `Staleness`: `NobodyIsLeftBehind`. `WalkCovers` says while the walk runs that a
  verified citer of what it made stale is awaited: some call still has it in its
  list, as verified. `DecisionsAreAnchored`: `_verdict` is a recursion over the
  artifacts seen before; `VerdictIsDefined` gives it a value (the least set of cases
  that settles itself), what it decides lies in every anchored set, and an artifact
  without a verdict lies in a trap, artifacts that lead only to one another
  (`UndecidedIsTrapped`). Both follow pointers until no artifact is left unseen, which
  is why `StalenessAssumption` has finitely many artifacts.
  Of `Closeout`: `NoTaskEscapes`. `EscapesHaveACause` speaks of the newest
  document only; `MarksCover` says the same of every document there is, since a
  checkout may put any of them first, and `CloseCovers` that a close under way knows
  of every task before its end. That `Max` of a bounded set of times is one of them
  (`MaxIsReached`) is taken from the well-foundedness of `<` on the naturals.
* `LeaseAndStationsProofs`, of `Lease`: `TypeCorrect`, `MutualExclusion`, `LiveBodyIsHolder`,
  `NoFalseAlarmEver`. The invariant ties each process's place to the inode it has
  open and to the flock it holds, says that until a reap everybody has the path's
  inode open, and says what the body can be while its holder is between
  truncating and writing.
  Of `Stations`: `StationsTypes` and `NeverAnsweredTwice`. `AnsweredOnce` alone
  is not inductive: an inspector writes what it decided long before. `Reading` adds
  that who is reading has the lock and that no record it has yet to answer has a
  verdict; it is kept because whatever else gives a verdict needs the lock.
* `DispatchQueueProofs`, of `LaunchQueue`: `LaunchTypes` and `NothingInCommon`.
  `NoConflict` is inductive with the type once two things are known of a pass: two
  tasks it chose fit beside each other, because the later of them was read with the
  earlier one before it (`Ahead`), and there are slots for all of them, because
  everything chosen before the last place counted against its slot (`SlotsSuffice`,
  by cardinalities). Of `SerialPass`: `EndedIsKept`, `WaitsAreMet`,
  `OneRedrivePerStop`, all from `SerialInv`. Its part `PassMemory` says what the pass may still rely on of what it read:
  a record it holds to redrive has no automatic answer yet, whatever other commands
  wrote meanwhile, and nothing has answered the stop of a session that runs.
  `EndedIsKept` needs, beside it, only the actions one by one: each that moves a task
  from a state it does not look at is in a phase that `ReadOpen` names.
  `RedrivenOnce` alone is not inductive: a redrive would count one up from a record
  of which nothing is known.
* `FilingProofs`: `FilingTypes`, `NumbersHeldOnce`, `CompletedKeepsReturn` and
  `RefusalHasACause`. `LockHeld` says that a
  command of the locking kind has the lock from the write to the release;
  `Reserved`, that once its number check has passed no other registration of that
  kind has the number. Without `Reserved` the artifact is created on the word of a
  check made four steps earlier. `CompletedKeepsReturn` needs no more than the types:
  nobody takes a registration back, and whatever takes a registered file from the
  tree or from the history spoils it (`StandingOrSpoiled`). `RefusalHasACause` has an
  invariant of its own, `CInv`: a file that no registrar has touched and nothing has
  spoiled is clean, or is loose (only in the tree) and registered or its writer's, or
  is added and its writer's or the pass's, and the writer takes it for what it is
  (`TakenFor`). `HolderSees` and `PassSees` say what is left of that for whoever holds
  the lock; the steps then go one by one. `NextIsFree` is why a renumbered file lands
  on no other.
* `WorktreeDispatchProofs`: `DispatchTypes`, `NeverTwoSupervisors`,
  `NothingLandsUnchecked`, `WithdrawalStands`, `CompletedIsTrue`, all from one
  invariant, and `OrphansAreOnRecord`. `Placed` says that who is at work on a task has the flock of its
  lease file, that a supervisor on its way out does nothing else, and that
  whoever has landed is on main and still has the pass lease; `Counted`, that a
  round that begins has not used up the rounds; `Rebased`, that what no check has
  seen beside a branch is still to arrive by a rebase (`NothingLandsUnchecked`
  follows, since a branch lands only when nothing has arrived); `Named` and
  `PassPlaced`, that lease bodies and the pass speak of launches that exist.
  `WithdrawalStands` adds `SInv`: a state that was read is used by who read it, while
  it has the pass lease still. Without it the state that one finish has read could
  be used by another, for another task. From it every action either leaves a
  withdrawn task alone, and nobody comes to a reading of it (`Stands`), or goes on
  from a reading that was there before.
  `OrphansAreOnRecord` adds `Flocked` (who has the flock wrote the body, unless a pass
  wrote over it since) and `Recorded` (while a session runs, its launch does nothing
  that ends it, and the body says so or was written over): an exit releases the body
  of its own launch only, because nobody else can have entered.

The type invariants of `EventStore`, `CycleSearch`, `Lease`, `LaunchQueue`,
`Stations`, `Filing`, `SerialPass`, `Closeout` and `WorktreeDispatch` are proved, and no run
checks them again.

### Only model-checked

Liveness, which the proof system does not reach: `DagIsEmpty`, `WalkEnds`,
`EveryJobRuns`, `AbandonedIsFound`, `HardStopAnswered`, `BlocksAreLifted`,
`RegisteredIsCommitted`, `LinesAreCommitted` and `ReturnIsFiled`. Of `DagIsEmpty` the
half that says nothing is reported is proved (`DagsReportNothing`); that the search of
a DAG returns is not. The violation runs are counterexamples, and TLC's.

## What is not modelled

* Transformations of documents: the ontology parser, the paper pipeline, governed
  documents, prior art, recall, decisions. They have little control, and what can
  go wrong in them is in the text. They are most of the source: the share of it
  that the map covers is small for that reason.
* Reports: `go`, `status`, `session`, `verify` (but `find_cycles`, which it calls,
  is), `docs`, `events`; and the MCP server and the CLI, which put arguments in
  front of commands.
* In the worktree dispatcher: the sweeps (they remove worktrees and branches nobody
  needs, and nothing in the model reads one again), `remerge_breaker_green` (it
  answers finishes recorded before breaker trips of green sessions went straight to
  the merge), the gate record, a database outage, a kept worktree that somebody
  dirtied, an exclusive task that runs in the primary checkout, a failure between
  the start of a supervisor and its record, the operator's own `seldon dispatch
  regate` (it does for one task what a pass does), and the time between the reading
  and the append of a person's command.
* In the pass: the criteria other than the tree's and `plan_launches`' own, the
  OODA sessions (but the repair of a number is in
  `Filing`), cadence.
* In the stations: what the finish makes of the stop gate's verdict, the premise
  review, huddles, the chart, the disk ceiling (it is the spend ceiling with
  another reading), inspections of sessions that are over, and the session of a
  parallel supervisor, which has no inspector of its own.
* In filing: numbers that other worktrees hold, a registration's links, lints and
  rulings, closing a filing by its return, and the governed commit.
* In the closeout: what the document says, the commit of the session's files, a
  handoff without a date in its name, `require_design_note` switched off, and the
  notice that `seldon go` gives of the session before. That notice repeats the check
  over the window of the last two documents with the files' times of now: a note
  edited after its session's close falls out of that window and raises a false alarm.
* Of the other projects: resolving a project's name and a task's short id, and the
  view of tasks over all projects. An answering task's return is written into the
  consumer's repository; it is `Filing`'s return.
* In the ledger: the five DELETEs of a wipe one by one (`Wipe` is one step), audit-only events, the ontology restore at the end of a replay,
  legacy records and their derived ids, and a write torn inside a multi-byte
  character (which makes the log unreadable: `read_events` does not catch the
  decoding error).

## Plan

1. (done) The ledger, the task commands, precedence, the lease; their proofs.
2. (done but for the sweeps and the gate record) `WorktreeDispatch`, and its proofs.
3. (done within one ledger) `Filing`: numbers, registration, returns, reconcile.
4. (done) `Staleness`, `LaunchQueue`, `Stations`, and their proofs.
5. (done) `SerialPass`: automatic redrive and cross-project waits, and its proofs;
   `Closeout`, and its proof.
6. Next: the finish of a session whose stop gate refused it; cadence; the notice of
   `seldon go`.
7. (done) Theorems for every safety property the runs check, the refinement of
   `AtomicStore` among them.
8. Next: what those theorems say of the log carried over to `concurrent_store`, where
   only `NothingUnlogged` and `DriftHasACause` hold; an abstract specification of the
   pass lease, which `WorktreeDispatch` takes as given, implemented by `Lease` until
   the first reap.
