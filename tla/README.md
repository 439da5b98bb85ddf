# re:agent in TLA+

Specifications of re:agent, a coding agent for the terminal: TLA+ modules
translated from the source, TLC configurations that check them on small
instances, and TLAPS proofs for every value of the constants. Two programs of the
repository are modelled: the agent itself, from its Go implementation under
`src/internal/reagent` (Go line numbers below are its), and the parity suite
under `src/parity`, which records what a pinned reference does and holds the Go
implementation and its Rust port to it.

    tlc -workers 2 -config RunLoop.cfg MCRunLoop.tla
    tlapm RunLoop_proofs.tla

## 1. Inventory

### The agent

| Component (Go files) | State | Operations | Hard behaviour | What makes it correct | Module |
|---|---|---|---|---|---|
| Run loop (`loop.go`) | `Run`: steps, calls, resumable, persistence error; the session's transcript | `Execute`, `validateResponse`, `reserve`, `dispatch`, `recordResult`, `recordNotExecuted`, `finish` | cancellation between any two steps; a failed checkpoint at any of them; a batch cut short | a call executed at most once, every accepted call answered, no request with a call unanswered, uncertain effects stop the run, budgets | RunLoop |
| Session (`session.go`) | history, accepted call ids, pending submission, phase and in-flight call of the last checkpoint, blocked | `Turn`, `Compact`, `checkpoint`, `restore`, `recoverInterrupted`, `Reset` | crash anywhere; a second crash during recovery | recovery never denies what began, and settles | RunLoop, SessionHistory |
| Chat loop (`chat.go`, `cli.go`) | the conversation: session, persistence error, auto-compaction | a line of input is a turn, a command, or `!` | message waiting for a compaction; save after every line | a message is submitted once and not lost | RunLoop |
| Compaction in a run (`run_compact.go`) | steps, failures, retry point | summary request within the run | shares the step budget | budgets | RunLoop |
| Session store (`session_store.go`) | directory with `lock`, `checkpoint.json`, temporary files | open, load, save, close | two processes; crash and power loss between system calls | one writer; an atomic, durable replacement | SessionStore |
| Agents (`agents.go`, `tool_agents.go`) | tree under one mutex: per agent context, queue, results, working/ended/blocked | spawn, send, wait, cancel, dismiss, reset; deliver, stop, close | one goroutine per agent, a condition variable, contexts of contexts | no orphan, each result reported once, capacity, cancellation ends | AgentTree |
| File tools (`workspace.go`, `tool_read_file.go`, `tool_write_file.go`, `tool_edit_file.go`) | per conversation the digests it was shown; one guard shared by all | read, write, edit, delete, delete recursively | several conversations and outside processes on one file; check, stage and publish are separate steps | no version replaced that was neither shown nor named; a deletion reports what is gone | FileTools |
| Exec (`tool_exec.go`, `exec_processes.go`, `agent_exec.go`) | process tree, pipes, deadlines; output kept | run, chain, terminate, notice of concurrent commands | exit, timeout, Ctrl-C and held pipes race; the tree changes while it is read and killed | the effect is never understated, no process of the group runs on, nothing foreign is signalled | Exec, ExecOutput |
| Plan mode (`plan.go`) | flag, markers | toggle | | no write in plan mode | RunLoop (dispatch) |
| ChatGPT authorization (`chatgpt_auth.go`, `chatgpt_login.go`) | credential file, its lock, cached token | token, refresh, login, logout | rotating token, several processes, lost response, crash | a refresh token is not spent twice | no |
| Transport (`transport.go`, `openai_stream.go`) | attempt, window, usage so far | send, retry, 401 refresh | timers against cancellation | usage counted once, no retry after the window | no |
| Auto routing, model switch (`auto.go`, `model_switch.go`, `jev.go`) | config, model, handoff, dwell and switch counters | route at a boundary, switch | replaced in the middle of a run | the three replaced together | no |
| Context GC (`context_gc.go`) | dropped results, last pass, inherited originals | collect | decides by digests that age | drops only what a later read supersedes | no |
| Workspace selection (`workspace_selection.go`) | active handle, approved destinations | request, approve, switch | the destination changes during consent | every consumer switched at once, nothing without consent | no |
| Terminal (`lineinput.go`, `terminal_*.go`, `region*.go`, `editor.go`, `picker.go`) | editor, screen region, polling goroutine | edit, draw, pause, resume | type-ahead during a turn and during consent | keys typed before a question do not answer it | no |
| Git recipes (`tool_git_do.go`), search, listing, providers, display, traces | little or none | | | | no |

`chat` reads a line and calls `runTurn`, which may compact first and then calls
`Session.Turn`; that creates a `Run` and executes it. The run calls the model and
the tools, and the session's `checkpoint` before each of them; `checkpoint` calls
the store's `save`. Agents are sessions without a store, each running `Turn` on
its own goroutine; a run delivers its children's results at the top of its loop,
and joins or stops them before it ends. Root and agents share the guard of the
file tools and the list of running commands, not the record of what each was
shown. Ctrl-C cancels the context of the turn, from which all others derive.

### The parity suite

| Component (Python files) | State | Hard behaviour | What makes it correct | Module |
|---|---|---|---|---|
| Case processes (`processes.py`, `Context` of `run.py`) | owned lifetimes, leaks, a monitor thread | the table is listed and read one by one while processes fork, exit and pids are reused | what is killed is reported; with pidfds `cleanup` signals only what was claimed, and a group is signalled as itself while it lasts (findings: what was claimed may be foreign; a group's number may be a stranger's later) | CaseProcesses |
| Scripted provider (`provider.py`, `Context.close`) | connections, scripts, barriers, recorded requests | handler threads against the main thread that judges and closes | a pass means exactly what was scripted, and the evidence is final | Provider |
| Runs (`run.py`: `_main`, `schedule_cases`; `capture_lock.py`) | workers, workload lock, results | a worker dies; two want the machine; a phase breaks | exit status 0 is earned, exclusive cases run alone | ParityRuns |
| Reference cache (`golden.py`) | cached lane, stamp, working tree, capture lock | kills between files; the tree is edited meanwhile | a comparison uses what is sealed | ReferenceCache |
| Oracle locks (`locks.py`, `samples.py`) | lock per case, inventory, samples, manifest | killed updates, migrations of a format, two changes of the reference | only reviewed changes come in | OracleLocks |
| Lanes (`run.py`: freeze, repack, extend, revise) | evidence of a run, frozen cases, lanes | kills, damage, a newer observer, two jobs for one name | nothing truncated is frozen, derived lanes keep what they derive from | Lanes |
| Terminal sessions (`terminal.py`, `observe_cli_terminal.py`) | journal, screen, reader thread, screenshots | a query in two reads; a screenshot during a redraw; helpers that keep the terminal | the journal replays to the screens that were taken | TerminalSession |
| Screen (`vt.py`) | grid, cursor, scroll region | halves of wide glyphs, pending wrap | no half glyph; a followed cell is found | ScreenGrid |
| Cases, observers, normalisation, mutations, benchmarks | data, or one process and no state | | | no; the cases of the file tools and of exec run against FileTools and Exec |

A run starts workers; a worker takes the workload lock, gives its case a
Provider, a process guard and perhaps a terminal, judges, closes, and leaves
evidence; evidence is compared with the cached reference, whose digests the
locks seal, or frozen into a lane.

## 2. Modules

    CheckpointStore  (abstract: what a checkpoint file promises)
      ^ used by: RunLoop (extends SessionHistory)     MCRunLoop, MCEnds
      ^ implemented by: SessionStore                  MCLanes
    AgentTree                                         MCAgentTree, MCEnds
    FileTools  <- FileCases                           MCFiles
    Exec       <- ExecCases        ExecOutput         MCExec, MCEnds
    CaseProcesses, Provider                           MCCase, MCEnds
    ParityRuns                                        MCHarness
    Lanes                                             MCLanes
    ReferenceCache, OracleLocks, ScreenGrid,
    TerminalSession                                   MCEvidence, MCEnds

    RunLoop_proofs       RunLoop, with SessionHistory and CheckpointStore
    AgentTree_proofs     AgentTree
    FileTools_proofs     FileTools
    Exec_proofs          Exec
    Case_proofs          CaseProcesses, Provider
    ParityRuns_proofs    ParityRuns
    Publication_proofs   SessionStore, Lanes
    Evidence_proofs      OracleLocks, ReferenceCache, ScreenGrid, TerminalSession

### The agent

**CheckpointStore** is the abstract specification of a save: it succeeds, it
changes nothing, or it renames without becoming durable. `file` is the readable
checkpoint, `survivors` all a power loss may leave.

**SessionHistory** holds the transcript and the pure functions on it:
`Loads` is the validation of `load` (session_store.go:253-299), `Recovered` is
`recoverInterrupted` (session.go:219-274). The order in which recovery labels
calls follows the transcript; entries are records with the fields the properties
tell apart, a message is its number.

**RunLoop** is one chat session. `s` is the `Session` (with the phase and
in-flight call of its last good checkpoint), `run` the `Run`, `batch` the calls
still to dispatch, `pc` the place in the code: "prompt", "start", "append",
"compact", "compacting", "withdraw" for chat.go; "loop", "ready", "summarize",
"summarizing", "model", "dispatch", "tool", "deny", "finish" for loop.go and
run_compact.go; "down" when the process is gone. Actions run from one checkpoint
or external call to the next:

| Action | Code |
|---|---|
| `Submit`, `SubmitAfterCompaction`, `BeginTurn`, `Withdraw` | `runTurn` chat.go:936-1003 |
| `CompactCommand`, `RequestCompaction`, `CompactionSucceeds`, `CompactionFails` | chat.go:375-455, `Compact` session.go:318-406 |
| `Shell`, `TogglePlan`, `SaveAtPrompt`, `StopAfterFailure`, `Leave` | `chat` chat.go:724-873 |
| `AppendUser`, `CancelledBetweenRequests`, `Request` | `Execute` loop.go:146-202 |
| `ModelFails`, `ModelRejected`, `ModelReplies`, `ModelCalls` | loop.go:203-293, `validateResponse` 296-337, `reserve` 339-357 |
| `SummarySkipped` ... `SummaryAccepted` | `compactWithinRunAfterGC` run_compact.go:31-173 |
| `CallDenied`, `CallRefused`, `StartTool`, `ToolReturns`, `BatchDone` | `dispatch` loop.go:361-443 |
| `Denied`, `NotExecuted` | `recordNotExecuted` loop.go:497-506 |
| `Finish` | `finish` loop.go:508-553 |
| `Crash`, `PowerLoss`, `ResumeSettled`, `ResumeInterrupted` | the environment; `restore`, `recoverInterrupted`, cli.go:412-423 |

Every save takes an outcome of CheckpointStore. With `DiskRecovers = FALSE` a
failed save is followed only by failed saves (a full or broken disk), with TRUE a
later one may succeed. `inputs`, `crashes`, `started` are history variables.

**SessionStore** has one action per system call of `save`, `openSessionStore`,
`load` and `close`. A file has the contents a reader sees and the contents a
power loss leaves; a directory has the file `checkpoint.json` names and all those
the disk may name. `ImplementsStore` is the refinement: `file <- named.cache`,
`survivors <- {f.durable : f \in entries}`, with "no checkpoint yet" as one more
value.

**AgentTree** is agents.go and the parts of loop.go that call it. An action is
one critical section of the tree's mutex; `act` is what each session's goroutine
does, and a call that sleeps on the condition variable is a state ("waiting",
"cancelling", "dismissing", "resetting", "joining", "stopping") that `Wake`,
`Join` or `AgentsStopped` leaves. `above` is an agent's chain of parents, from
which contexts derive. `work` is `Publish`; `deliverAgents` is `Delivered`;
`cancelLocked`, `removeEndedLocked` and `retireLocked` are `Cancelled` and
`Retired`. `carried` is the effects list of each run, by the runs they came from;
the root's is kept over its turns, as what its recaps have said.

**FileTools** is a tree of files, directories and links (`fs`, by path: the
sequence of names below the root; what lies outside begins with "..") under
several conversations, each with what it was shown (`seen`, `digests`) and one
call at a time, of which `pc` names the step: "read", "remember" (the snapshot
was taken, not yet recorded: workspace.go:60), "lock", "check", "publish",
"create", "recheck", "remove", "plan", "entry", "unlink". `holder` is the guard
of tool_write_file.go:142. A content is a sequence of pieces of text and its own
digest. `resolve` is `filepath.EvalSymlinks` with its checks, as a walk along
names. `Outside...` are commands, the user, an editor, which take no guard.
`touched`, `shown` and `slipped` are history: the names outsiders changed since
the check, the versions a conversation was shown, and those that went between
the snapshot and its record. **FileCases** states every case of
`parity/cases/tools_files.py` as a tree, its calls and its outcomes.

**Exec** has one record per process (`proc`: running, dying, zombie or gone;
parent, group, output held, whether it resists SIGTERM) and one per agent's call
(`ex`). A command's processes fork, leave their group or session, join the
harness' group, redirect, resist and exit as they like. `Start`, `Wait`,
`OutputEnds`, `OutputGivenUp` and `Classify` are `run` and `runChain`;
`ex[a].w` is the goroutine behind `command.Cancel` (`SnapshotBegins`, `ReadStat`
one process at a time, `Term`, `Kill`, `Checked`: exec_processes.go:46-117).
`hit` is who was signalled. **ExecCases** runs the cases of
`parity/cases/tools_exec.py`, with what each process does given by its script.
**ExecOutput** is `boundedWriter`, `middleOutput` and `trimToResultBudget`; a
byte is known by its rune, its place in it and the rune's length, and the result
is compared with `reference`, the test's own rendering of all bytes at once.

### The parity suite

**CaseProcesses**: lifetimes (pid with start time) that fork and exit; two
threads, each listing the pids and then reading them one by one (`Begin`,
`ReadProcess`, `End`); `Claimed` is the rule by which a row becomes the case's.
A process remembers who founded its group; the code has only the number (`Pgid`,
`Number`), which is nobody's pid while the group has a process (`FreePid`) and is
reused afterwards. `StartCandidate`, `WaitReturns`, `WaitTimesOut`, `Poll`,
`NoteGroupLeaks`, `TermGroup`, `WaitAgain`, `KillGroup` and `InvocationReturns` are
`Context.invoke` with `_terminate`; beside it a reader that has read too much
(`Overflows`) and a controller that raises (`ControllerRaises`) signal the group by
the same number at any moment. `StopMonitor` to `Judge` are the guard's `close`,
which gives up at once if the monitor cannot be joined (`MonitorStuck`). `_signal`
is two steps: `Verify`, the identity behind the pid, and `SignalSurvivors`, which
with pidfds (`PidFds`) looks again through the descriptor and without them signals
the bare pid. `young`, `unnoted`, `struck` and `silent` are history: what was
forked since a listing began, what was signalled (by number only while the
candidate's group had a process), and what of that is in no leak report.

**Provider**: a handler thread per connection (`conn[c].pc`), from `Receive` and
`Match` over the two barriers to `EndResponse`, or to `Unused` and `Abortive`
when the server stops; a body cut off on the way is an error or is passed over (`ReadFails`);
the main thread (`main`) runs the case, asserts, stops the
server, sets the events, drains, kills the candidate, collects and asserts again.

**ParityRuns**: `run` (phase, submitted and collected cases, verdict), `job` per
case (taken, sharing the lock, wanting it alone, executing, closed), the workload
lock read off the jobs. Workers die at any point, which breaks the pool
(`WorkerDies`); their candidates stay (`alive`).

**ReferenceCache**: one capture at a time under the capture lock, comparisons
beside it, the suite's files as a working tree that is checked out and edited; a
failed update restores them, which may itself fail half way (`RestoreFails`).
The lock file and the samples are one file each. **OracleLocks** takes them
apart: one `lock` entry with its ledger per case, the inventory, the samples and
the manifest's seal, published file by file with kills in between; `Accepted` is
the decision table of `update_lock` with the reviewed migrations and the two
changes of the pinned reference.

**Lanes**: what a run leaves (`capture`), what is frozen and published (`lane`),
and jobs that make one lane from another. `truth` and `origin` are history: what
really happened in a run, and what a lane was derived from.

**TerminalSession**: the candidate, its waiter, the reader and the test's thread;
reading a descriptor and interpreting what was read are two steps, what is done
under `_state` is one. The test's thread sends (`Send`), resizes (`ResizePty`), takes
screenshots (`SnapshotBegins`, `SnapshotFails`, `SnapshotEnds`) and
finishes (`Finish` to `Close`), one at a time, each under `_control`; a screenshot copies
the screen under `_state`, and its entry goes into the journal where the copy was
taken, though the reader may have gone on. The reader gives up when a candidate's
exit makes `_terminate` raise (`ReadExitFails`). The screen is the history of what changed
it. `Replay` is the second program's reading of the same bytes and journal. **ScreenGrid**
has an action per control of `vt.py`, on real cells.

### Model checking modules

A question is a run; where it takes several instances, the MC module has a
*scene* for each: `scene` picks one at the start and the next-state relation is
theirs by cases. The constants of a component are an envelope of its scenes, and
most scenes are played on the component's own variables: the component with
smaller constants (MCExec, MCFiles, MCLanes), a constraint on what may begin
(`Within` in MCAgentTree and MCHarness), or what a scene starts with (MCCase,
MCEvidence). So the invariants a cfg names are those the theorems state, checked
in every such scene. Modules that have nothing to do with each other
(CaseProcesses and Provider; OracleLocks, ReferenceCache, ScreenGrid and
TerminalSession; SessionStore and Lanes) share an MC module, each with its own
variables, of which the others rest at an initial state. A copy of the variables
is left where a scene's constants are outside the envelope (compactions, summaries
and the disk of MCRunLoop, the scripted cases of FileCases) and in MCEnds, where
modules share names.

## 3. Runs

| Run | Scenes | Shows |
|---|---|---|
| `loop` (RunLoop.cfg) | "run": 2 inputs, a write and a command, 2 steps, 2 calls, 2 crashes or power losses. "compaction": 3 inputs that wait for compactions, 2 crashes. "summaries": 6 steps with summaries inside the run. "disk": a disk that works again | `AtMostOnce`, `Barrier`, `WithinBudget`, `RecoveryHolds`, `SubmittedOnce`, `LedgerGrows`, `InputsKept`; `VariantsHold` |
| `loop_loads` | "disk" | a finding: `DiskLeavesCheckpoint` is violated |
| `agents` (AgentTree.cfg) | "tree": 3 agents, room for 2, depth 2. "messages": 2 agents that run twice and are sent to, over 2 turns | `NoOrphans`, `WithinCapacity`, `ResultsArrive` |
| `exec` (Exec.cfg) | "tree" of 3 processes that resist, leave, and reads that fail; "groups" of 2 that join other groups; "chains"; a "pair" of agents; the scripted "cases"; the "output" of two streams | `TreesEnd`, `OutcomesTrue`, `OwnProcessesOnly`; `OutputKept`, `ExecCasesHold` |
| `exec_outlives` | as `exec` | a finding: `NoneOutlives` is violated |
| `files` (Files.cfg) | "files": 2 conversations with 2 calls each on one file, and an outsider; "aliases"; "deletions" of four kinds of tree; the scripted "cases" | `VersionsKept`, `AbsenceKept`, `DeletionsTrue` (in the first three scenes); `FileCasesHold` |
| `evidence` (Evidence.cfg) | "cache": a capture, two comparisons, two versions. "locks": 6 cases, the three pins of the reference, 3 edits, durations missing or not. "replay": up to two screenshots and a resize while an update is drawn, up to the finish. "finish": a terminal that helpers keep. "grid": up to 3 by 3 | `ComparedIsSealed`, `LocksAreSealed`, `ScreenIsWhole`, `CaptureReplays`, `OnlyReviewedChanges`, `CapturesAreKept` |
| `publication` (Lanes.cfg) | "session": 2 processes, 2 checkpoints. "chain" of 3 lanes, "race" of 2 jobs, "damaged" files | `OwnCheckpoint`, `ImplementsStore`; `EvidenceIsKept`, `PublishedStays` |
| `case` (Case.cfg) | processes: 2 lifetimes of the case and a foreign one, 3 pids, 2 invocations, with pidfds. provider: 2 connections with 2 requests each, 2 scripts of one key, the second of which resets and closes | `CaseIsWatched`, `SignalsOnlyClaimed`; `EvidenceIsScripted`, `EvidenceComplete` |
| `case_claims` (Case_claims.cfg) | 2 lifetimes of the case and 2 foreign ones, 3 pids, one invocation | a finding: `ClaimsNoOther` is violated |
| `harness` (Harness.cfg) | "machine": 2 runs, a case that needs the machine alone, 2 workers, one dies. "gate": one comparison, of any cases. "capture": a comparison beside a capture | `SuccessIsEarned` |
| `ends` (Ends.cfg) | calls of a run, a cancelled turn, a command that never ends, a case, a terminal | `EverythingEnds`, under fairness |

Every property of a passing run is also violated by a plausible defect in a
mapped definition (the `mutants` of PROJECT.json).

Bounds. Two inputs are a turn and the one after it, two calls in a batch one that
runs and one left over, two crashes one in the run and one in the recovery from
it; three inputs let a message wait for a compaction of two earlier ones.
`MaxLive`, `MaxDepth`, `MaxQueue` are the code's limits (16, 3, 8) made small
enough to be met: three agents that want room for two, a child that is a parent.
In Exec three processes are a command, its child and what the child left behind,
and one failed read meets every use of the table; in FileTools two calls of two
conversations are a read and the write that rests on it, on either side of
another's, and one change by an outsider falls into every gap between two steps.
Two connections are one that is judged and one that comes late; one dying worker
meets every state of the others. The bounds of the environment (`MaxEdits`,
`MaxDamage`, `MaxDeaths`, `MaxOutside`, `MaxFaults`, `EditsDuringCapture`) are
named in the modules. What the theorems of section 4 state does not depend on
any of them.

Deadlock is checked in `exec`, `files`, `harness` and `case`: there a state
without a step must be the end (`BoundReached`, `Quiet`, `Over`), and as these
modules have no cycle but those of their counted inputs, that no call can hang
follows. Elsewhere the system may stop: a session that was left, agents that
were closed, a suite nobody runs.

Fairness (`ends`). RunLoop assumes weak fairness of `Progress`: the goroutine
runs, requests end by an answer, an error or the retry window, tools have
timeouts; nothing is assumed of the user, crashes or resumption. AgentTree
assumes it of each session's turn and of `Publish`, one goroutine each: a
sleeper's condition stays true once it is, so weak fairness is enough. Exec
assumes it of the harness' goroutines, of the deadline (a timer) and of processes
that were killed (`Die`), not of a command that may run for ever. CaseProcesses
assumes it of the main thread and the monitor, TerminalSession of the waiter, the
reader and the finishing thread. MCEnds joins the fairness of its scenes: a behaviour stays in
its scene, so weak fairness of a disjunction over scenes is that of each.
Symmetry is used for safety only.

## 4. Proofs

All theorems hold for every value of the constants that the named assumptions
allow (the `...Assumption` of each module), which say that sets are finite where they
are counted, numbers are numbers and names are strings; for OracleLocks also what
the kinds of cases have to do with each other (what is approved is a case, what
covers a removed one is there), for Lanes that a run's artifacts are its cases',
and for FileTools that names have an order, so that a directory's entries are
listed in one. TLC evaluates them in every run.

**RunLoop_proofs.** `TypeCorrect`. `ExecutedAtMostOnce`: that `StartTool` never
meets a call that has started rests on the accepted ids; the invariant adds
`Ledger` (an execution's call is in the ids of every surviving checkpoint, and
those are in the ids of a live process) and `BatchFresh` (the calls of a batch
differ, are in the ids, and have not started, except the first while its tool
runs). `LedgerOnlyGrows` follows from it. `CheckpointsAreBarriers`: a tool starts,
and the model is asked, only after a save that succeeded, which leaves one
survivor. `BudgetsHold`: the code checks no budget where it makes a request;
`BudgetInv` says what has been left for it at each point.

Its second part is about what a crash leaves. `NothingBegunIsDenied` (any
disk): by `DenialInv`, of the calls that the transcript in memory or a survivor
accepts, those it denies have not begun, and the only open one that has is the
call in flight. `UncertainEffectsStop` (any disk): by `UncertainInv`, wherever a
run may come to ask the model again its transcript is settled.
`RecoveryIsSound` (`[]RecoveryHolds`) needs `~DiskRecovers`, for `loop_loads`
shows that otherwise it is false: `LoadInv` says that every survivor loads, that
the transcript in memory is one `load` accepts, and that until the first failed
save its open calls are those of the batch, and its phase is "tool" only while a
tool runs. After a failed save nothing is written. That there is exactly one recovery rests
on a lemma about enumerations: a finite strict order has only one.
`EachMessageOnce` (any disk) and `MessagesAreKept` (`~DiskRecovers` again): a
message is in the history once or still pending, and `InputInv` says at which
points which; `KeepInv`, that what every survivor has the memory has too, until a
save fails. Each step is reduced to the session it saves or keeps in memory
(`Yields`), and most sessions say of messages what the last one did (`Mute`).

**Publication_proofs.** `NoLostUpdate` and `DirectoryImplementsStore` for any
number of processes and checkpoints: a process outside "closed" holds the lock;
every file an entry names was synced before it was renamed; a process at
"rename" has a synced temporary file. Then each step is a step of CheckpointStore
or a stutter.

**AgentTree_proofs.** `CapacityHolds`: nearly every step only shrinks the tree,
also when a delivery cancels and retires whole subtrees; `Spawn`, `Send` and
`Publish` are taken one by one. `NoAgentOrphaned`: NoOrphans is not inductive; an
agent that publishes has no child at work, and `Family` gives the child on the
way from an ancestor to any node below it. `ResultsAreDelivered`: the effects of
every finished run are in exactly one place (an agent's undelivered result, a
session's list, or what the root has told; `ResultsPlaced`), and a session that is
done has taken what its children left and handed on what it carried
(`ResultsTaken`).

**FileTools_proofs.** `VersionsAreKept`: whoever publishes or removes holds the
guard, and what it checked still stands (`FileInv`: the file at the resolved name
is the version shown or named, or an outsider has touched the name since). That
resolving a path twice gives the same name while nothing changes, and that
removing or adding a file does not turn other names, is proved along the walk of
names, by induction on its length (`UpFromZero`, from the library's well-founded
minimum). `AbsenceIsKept` and `DeletionsAreTrue` rest on a second invariant,
`SafeInv`: the tree stays a tree whatever outsiders do; a call at "publish" or
"remove" has a path the tools may touch (`Replacing`), one at "create" a directory
that leads where it did (`Ready`), and a recursive deletion has removed exactly the
tail of its plan, but for what outsiders touched (`Progress`); a conversation has a
record of all it was shown, but for what slipped (`Told`). Below it are lemmas
about the operators: `WalkDir` lists everything under a path once, children before
their directory; adding, removing and rewriting a file keep a tree a tree and leave
directories and links as they are (`Firm`).

**Exec_proofs.** The processes of a command do as they like, so every step of
theirs, of any agent, and of the kernel is first shown to make the processes
only *evolve*: what is dead stays dead, owners stay, a process changes its group
only for one of its own or the harness', and is born of a parent with the same
owner or as a command. What the invariant `ExecInv` says of a call is kept by
any evolution (`CallStays`); what remains is one lemma per step of the harness.
Its parts: who owns parents and groups; the rows of a snapshot, stale as they
may be, are of one owner (`RowsOwned`); where the call, its command and the
goroutine are (`Placed`); after the signals nothing of the group runs
(`Stopped`); what the outcome will say (`Told`). `TreesAlwaysEnd`,
`OutcomesAreTrue` and `OnlyOwnProcesses` follow. What is said of effects and of
chains is said of an agent's first call, since processes are not told apart by
call.

**ParityRuns_proofs.** `SuccessIsAlwaysEarned`: `RunInv` has the lock's exclusion
(`Alone`), what each result says of its case (`CaseOK`) and how a run's verdict
stands on its collected results (`RunOK`), whatever workers die.

**Case_proofs.** `EvidenceIsAlwaysScripted` and `EvidenceIsComplete`:
`ProviderInv` says that handlers are quiet after the drain unless an error was
recorded, that the scripts taken come before the remaining ones of their key, and
that what is collected is what was recorded when the verdict is given.
After the drain a handler rests (`Resting`): it
is between requests, or about to leave one that has ended, since a body that was
cut off may leave without an error. `CaseIsAlwaysWatched` and
`OnlyClaimedAreSignalled`: a listing is read pid by pid
while processes fork, exit and take over pids, so `CaseInv` says of every process
of the case that its row is in the table, its pid is still to be read, or it was
forked after the listing (`Covered`); from that follows what each completed listing
achieves (`Noted`, `Cleared`). Groups do not mix the case with strangers
(`Families`); while a process of the candidate's group exists its number is taken, so
whoever has the number then is of the group (`Numbers`, `GroupIsOwn`). That is all a
signal by number can count on, and `OnlyClaimedAreSignalled` says no more: once the
candidate was waited for and its group is empty, `killpg` may hit anybody (section 6,
run.py:413). With pidfds what `cleanup` reaches is the lifetime it has claimed; for
a machine without them the theorem says nothing.

**Publication_proofs**, second part: `EvidenceIsAlwaysKept` and
`PublishedIsNeverReplaced`, for any number of lanes, jobs and cases. Files of a
lane may be damaged, its index is what it was when published; so what can be read
of it is what was frozen (`Traced`), and a job, whose source stays where it is, can
only hand on what its source had (`Derives`). Jobs race for a name; the rename
decides, and a lane that exists is never the target of another.

**Evidence_proofs.** *Locks*: `LocksAreAlwaysSealed`,
`NothingRefreshedUnreviewed`. An update copies its files one by one and may be
killed between any two; `IInv` says that a file is the sealed one, that of the
update in progress, or torn, that the locks in the tree are a reviewed change of
the sealed ones at every moment, and that an inventory of the first reference never
stands beside a lock of a later one. That `Accepted` keeps to reviewed changes is
proved for ledgers with any set of missing durations. *Cache*:
`ComparedIsAlwaysSealed`, `CapturesAreAlwaysKept`, under the hypothesis
`~EditsDuringCapture`, without which they are false (section 6, golden.py:364). A
capture holds the lock alone; `CacheInv` says what it knows at each step: what it
saved, which files are written by now, that the suite is sealed, and that what it
staged claims what it holds. *Screen*: `ScreenIsAlwaysWhole`, for every size:
`ScreenInv` says that all lines of the grid and of the scrollback are of those
whose wide glyphs have both halves and whose followed cell is where it was printed;
each control of the terminal is shown to map such lines to such lines. *Terminal*:
`CapturesReplay`, for any output in any portions, any answers, screenshots and
resizes. `JournalInv` says that what is recorded explains the screen there is: for
every entry of the journal there is the screen after it and the number of
screenshots so far, each drawn from the one before by the bytes in between; a
screenshot in progress has its place among them. The folds of the code (`Feed`,
`FeedTty`, `Replay`) are followed token by token and entry by entry, by induction on
their length; a screenshot that goes into the journal where its copy was taken,
before entries that came since, leaves the explanation one. `StreamInv` says that
nothing that was written is lost on its way through the kernel and the reader, and
`CourseInv` what `finish` knows at each of its steps.

Only model-checked: all liveness (`EverythingEnds`: the prover does no fairness
or ENABLED); the scripted cases, which are particular inputs (`FileCasesHold`,
`ExecCasesHold`); `OutputKept`, whose functions are recursive operators;
`VariantsHold`, which sets the theorems' parts for other constants beside what
holds on a recovering disk.

## 5. What the models leave out

- Token estimates: whether a compaction or summary is due, and whether it helped,
  is nondeterministic. Names, wording, sizes, traces and usage are left out.
- In RunLoop, agents, routing and context GC inside a run; `/reset` and a model
  switch to a fresh session are `Leave` for this one (the new id is a new
  session). A refused model turn is a completed one: both are continuable. An
  error in making a trace path, and in encoding a compaction request, are the
  failure of the step that contains it.
- A power loss leaves one of the directory's entries. The session directory's own
  entry in its parent is never synced by the code; the model assumes that it
  survives with the first directory sync.
- In AgentTree, a context and all that derive from it are done at once (Go cancels
  them one after the other under the parent's lock); `runningAgents` and the
  `deliverAgents` after it are one action, since only the same goroutine could
  start a child in between; the final summary of a capped agent is part of its
  failing turn; names, receipts, meters, notices, and the ended agents shown after
  `--resume` are left out. A failed checkpoint of the root is a failed request.
- In FileTools, modes, wording and byte sizes; outsiders write, put and remove
  files, not directories; links lead straight to their final target.
- In Exec, both output pipes are one, pids are not reused, and
  `command_wait_failed`, the kill after WaitDelay, environment, argument bytes and
  the size limits of notices are left out; in ExecOutput the JSON size is `Budget`.
- In CaseProcesses, helper threads that outlive the join of their invocation (a late
  reader's `killpg` goes by the number of a candidate before this one),
  `Context.interrupt`, a listing that raises inside `_terminate`, and sessions, which
  reserve numbers as groups do; the pidfd's opening and second look are one step with
  its signal, which goes to that lifetime or nobody. In ReferenceCache,
  `cli-acceptance.json`; in OracleLocks, `policy.json`, retired samples, and edits
  while a lane is held; in Lanes, all but one artifact of a kind; in Provider,
  pipelining and scripts that are expected late; in TerminalSession, the plain
  stdout pipe and a terminal that refuses input; in ScreenGrid, styles, modes and
  the parsing of bytes; in ParityRuns, reporting and timing.
- Not modelled at all: the components marked "no" in section 1; the reasons are in
  PROJECT.json.

## 6. Findings

With a run that TLC finds violated:

1. `loop_loads` (chat.go:869). After a save failed inside a run, the session's
   phase and in-flight call are those of the last good save, its history is not.
   The save after the turn writes that mixture; if it succeeds, `load` refuses
   it, and the session is lost to `--resume`.
2. `exec_outlives` (tool_exec.go:356). `classifyRun` looks at the contexts once
   more after the command was waited for. A timeout or a cancellation that comes
   then is reported, but the tree was never terminated: a background process of
   the group runs on and is not named, against tool_exec.go:241.
3. `case_claims` (processes.py:148). `discover` looks up a parent by its bare pid in
   a table that is not of one moment. A stranger is read, its parent exits, and the
   parent's pid is taken by a process of the case that is read after it: the stranger
   is claimed, reported as a leak and killed, against processes.py:138 ("without
   claiming other cases").

Met while modelling, and why the properties above are stated as they are:

- loop.go:366, 434. `recordNotExecuted` stops at a failed save and dispatch goes
  on without a status: on a disk that works again the next request has accepted
  calls without results. loop.go:396: the same after a refused call, whose batch
  goes on and may start a tool.
- workspace.go:61. `remember` gives up when the path no longer resolves: a file
  that goes between the snapshot and its record was shown but is not recorded, and
  can be created again without an absence read (`slipped` in `CreatesTold`).
- tool_exec.go:476. A rune across the end of the head of a stream that is kept
  whole is shown as two replacement characters (`Straddles` in ExecOutput).
- processes.py:139. A child forked after the listing, whose parent exits before it
  is read, is attributed to nobody; it may be killed without a leak, or run on
  (`KilledIsReported` and `SurvivorsAreYoung` except what was forked after the listing).
- run.py:413, 421 (and 279, 308 from the helper threads). `_terminate` waits for the
  candidate, lists all processes, and then signals its group by `process.pid`; up to a
  second later again. If no process of the group is left, the number may have become a
  stranger's, whose whole group is signalled (`struck` counts a signal by number only
  while the candidate's group has a process).
- processes.py:202. Without pidfds (macOS) `_signal` checks the identity and then calls
  `os.kill` by pid; the pid may have changed hands in between (`PidFds` in
  `SignalsOnlyClaimed`).
- golden.py:364. `regenerate` computes the identity of the suite from the files as
  they are after the capture; a checkout in between gives an old oracle a new
  identity (`EditsDuringCapture = FALSE` in `cache`).
- run.py:515. A worker that dies releases the workload lock while its candidate
  runs on; run.py:432: when `Provider.close` raises, the process guard is not
  closed. Processes then run beside an exclusive case (`ExclusiveAlone` speaks of
  cases, not of candidates).
- provider.py:292. `close` waits for connections that are being handled. One that
  is accepted and not yet handled, or between two requests, is not waited for, and
  what it brings is in no evidence (`EvidenceComplete` speaks of the verdict).
- run.py:1257. `freeze_lane` skips results that did not pass, and publishes a lane
  that `read_lane_inventory` refuses.

## 7. Plan

Next theorems: `KeepsEnds` of ExecOutput, once its trimming is written without a
RECURSIVE operator; `RecoveryHolds` for what remains true on a recovering disk.

Next modules: ChatGPT authorization (several processes, a rotating refresh token,
lost responses, crashes), transport and retries (attempts, window, the 401
refresh), routing, model switch and context GC as writers of one projection of
the history, workspace selection, and the pause and resume of the terminal's
polling goroutine.
