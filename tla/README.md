# A TLA+ model of the canvas workspace

The repository is a local canvas application: a browser page that edits a
document (tasks, nodes, collections, edges), and a daemon on the same machine
that owns the document on disk, keeps its history in a Git repository of its
own, runs agents whose results go back into the canvas, and binds nodes to
files of the user. This directory specifies the parts that must not lose or
corrupt work, model-checks them with TLC and proves theorems about all of them
with TLAPS: the branch store, the store of the browser, versioning, Canvas Git,
the catalog, the lease, runs, transports, the page that follows a run, the plans
of a run and the files bound to nodes.

Paths are relative to `src/`. `PROJECT.json` lists components, runs, the lines
each definition stands for, hazards and theorems.

## 1. Inventory

| Component | State | Operations | Talks to | What makes it hard | What makes it correct |
|---|---|---|---|---|---|
| Branch store `daemon/canvasCommandStore.ts` | `snapshot.json` (document, revision, Git anchor, mutation receipts), `revisions/<n>.json`, a cached envelope, a promise queue | get, readRevision, commit, commitLatest, setLastCheckpoint, materialize, applyCheckpoint, drain | `atomic-file.ts`, the reducer | three files per write and no transaction; crash, failing write, retry with the same mutation id | a mutation id takes effect once; what was acknowledged or shown survives; the branch always loads |
| Store manager `canvasCommandStoreManager.ts` | one store per branch | the same, by path; drain and evict | project lease | eviction against a late request | one store at a time on a branch |
| Reducer `src/canvas/commands.ts`, `model.ts` | none | applyCanvasCommand | run by page and daemon | a hundred rules over five maps; receipts of trusted plans as permanent evidence | a valid document, the same document, or an error; receipts stand |
| Browser store `src/canvas/store.ts`, `daemonClient.ts`, `persistence.ts` | IndexedDB outbox; in memory the envelope, the optimistic document, the status, `#acknowledgedRevision` | dispatch, load and reload, flush, retry, save conflict as branch | HTTP routes; versioning panel and run controller call it | four activities interleave at awaits, lost and late messages, closed pages, other writers | nothing dispatched is lost; order is kept; "saved" means saved |
| Version manager `daemon/workspaceVersioning.ts` | branch locks, debounce timers; in files the runtime of each branch and its Git history | getCanvas, commitCanvas, commitLatestCanvas, checkpoints, createBranch, restoreAsNewBranch, saveConflictBranch, previewMerge, executeMerge, project deletion, close | branch stores, Canvas Git | two stores and no transaction; Git may be missing, fail or be interrupted at any command | neither store overwrites or loses the other's work; destructive commands stay recoverable; a merge is the one confirmed |
| Canvas Git `canvasGit.ts`, `canvasGitCodec.ts` | repository, worktrees and indexes, the degraded flag | init, checkpoint, create, restore, preview, merge, recoverable merge | the git executable | several commands per operation, each may fail early or late; worktrees left dirty | a branch only advances, by whole documents; an operation leaves order |
| Projection plans `projectionPlanStore.ts`, `canvasProjectionCoordinator.ts` | pending and dismissed plans | createPending, dismiss, reconcile, materialize, accept, take the graph | branch store (`commitLatest`) | lookup, commit and settlement are three steps; any order, twice, or after a deletion | a receipt is permanent; what it says was made is not made again |
| Run manager `runs.ts` | runs, leases of branch and task, deletion fence, subscribers | create, cancel, subscribe, withIdleTasks, deletion, close | transports, run logs, plans | cancel against completion, destructive commands and deletions against creations, failing files | one run per task; one end per stream; deletion alone |
| Run logs and recovery `runLogs.ts`, `runRecovery.ts` | `events.jsonl`, `events.idx`, `summary.json` | append, finish, replay from an id, recover | run manager, plans | torn appends; a crash between close, plan and summary | what a client was told is durable; the plan follows the close |
| Run controller and SSE client `src/canvas/runController.ts`, `src/agent/*` | logs, phases and offers of the page | run, reconcile, recover, attach, settle | daemon routes, browser store | replay, window and stream overlap; answers and streams are lost | no event is skipped; an end is final; outputs are shown |
| Project lease `projectLease.ts` | lock, recovery and maintenance files; operation counts | acquire, recover, release, maintenance, withProjectOperation, close | every store | several daemons, dead owners, deletion while requests run | one holder per project; maintenance excludes operations |
| Project catalog and initialization `projectCatalog.ts`, `canvasInitialization.ts` | catalog file, directories, tombstones, reset journal | create, list, open, delete, reset | lease, version manager, run manager | crash between rename, catalog write and removal | a listed project is there, a deleted one stays deleted |
| Filesystem service `filesystemService.ts` | bindings and conflicts in SQLite, watchers | bind, save, reconcile | metadata store, branch store | other programs, renames, echoes of its own writes, activities that are not serialized | no edit on disk unnoticed, none overwritten unseen |
| Node executions `nodeExecutions.ts`, `computeExecutor.ts` | executions and approvals in SQLite | start, approve, cancel | metadata store | approval against edits, a crash while running | see section 7 |
| Agent transports `transport/acpx.ts`, `codex.ts`, `process.ts` | active runs and sessions, child processes and their terminations | run, cancel | run manager, agents | an acpx client hands its prompt to a process of another group; `acpx cancel` knows sessions, not prompts; children that do not stop | a confirmed cancellation leaves nothing at work and hits no other run; every cancellation ends |
| Artifacts, metadata, capabilities, plugins, skills, PDF, presentation, Source Git, CLI, UI | adapters, tables and files | | | mostly input and output | not modelled |

The daemon is one Node process: code between two awaits is atomic, and every
await is a point where others run. That is the grain of the detailed models:
an action is what happens between two awaits that matter. The repository has no
lock around most of what it does in several steps; where it has one (the
promise queue of a store, branch locks, task leases) the lock is in the model.

```
 page  CanvasStore ──POST /canvas/commands──▶ WorkspaceVersionManager ──▶ branch store ──▶ files
   │      │  ▲                                      │      ▲                   ▲
   │   outbox └── GET /canvas                       │      │ commitLatest      │ commitLatest
   │ (IndexedDB)                                    ▼      │                   │
   │                                            Canvas Git │               FilesystemService ⇄ user's files
   └─ run controller ──POST /runs, SSE──▶ RunManager ──▶ plan registry ──▶ coordinator
                                               └──▶ event log, summary
 every route: workspace lease ── project lease ── catalog
```

## 2. Modules

| Module | Models | Relation to the others |
|---|---|---|
| `CanvasReducer` | documents, commands and `applyCanvasCommand` as an opaque function | extended by `CanvasLedger`, `CanvasCommandStore`, `CanvasSync`, `WorkspaceVersioning` |
| `CanvasLedger` | the abstract branch: one register, receipts, exactly once | abstract specification |
| `CanvasCommandStore` | the branch store over files, with crashes | implements `CanvasLedger` |
| `CanvasCommandStoreProofs` | theorems about it | TLAPS |
| `CanvasSync` | one tab, its outbox, the network, other writers | instantiates `CanvasLedger` as the daemon's branch |
| `CanvasSyncProofs` | theorems about it | TLAPS |
| `CanvasDocument` | the document and the commands that change its structure, with the validation of the result | what `CanvasReducer` leaves opaque |
| `ProjectionPlans` | settlement of a run's plan between canvas, registry and requests | extends `CanvasDocument` |
| `WorkspaceVersioning` | runtime and Git history of the branches | its runtime is the ledger without receipts, its Git what `CanvasHistory` promises |
| `WorkspaceVersioningProofs` | theorems about it | TLAPS |
| `CanvasHistory` | the abstract Git history: commits are added, branches advance | abstract specification |
| `CanvasGit` | repository, worktrees and indexes under a series of Git commands | implements `CanvasHistory` |
| `CanvasGitProofs` | theorems about it | TLAPS |
| `RunLifecycle` | run manager, logs, plan registry, materialization and recovery of the runs of one project | composes four source modules |
| `RunLifecycleProofs` | theorems about it | TLAPS |
| `RunFollower` | a page that starts, recovers and follows the runs of a task | over the outside of what `RunLifecycle` has inside |
| `RunResultProofs` | theorems about `RunFollower` and `ProjectionPlans` | TLAPS |
| `AgentTransport` | the processes of runs, the owners of acpx sessions, cancellations | what `RunLifecycle` takes for granted of a transport |
| `ProjectLease` | the lease files under several daemons, operations and maintenance inside one | |
| `ProjectCatalog` | catalog, directories, tombstones, the reset behind its journal | |
| `ProjectProofs` | theorems about `ProjectCatalog` and `ProjectLease` | TLAPS |
| `FilesystemSync` | nodes bound to files, other programs, events, reconciles and saves | its canvas is the ledger's `commitLatest` |
| `OutsideProofs` | theorems about `AgentTransport` and `FilesystemSync` | TLAPS |
| `Nothing` | the one constant for an absent value | extended by the modules that share it |
| `MC…` | small instances | |

A proof module about two components extends both; they have no variable in
common, and none of its theorems is about both. Where both would have had an
`Init` or an invariant of one name, one of them says whose it is (`LeaseSpec`,
`AgentSpec`, `PageSpec`).

The layers meet at the two abstract specifications. The store is shown to
implement `CanvasLedger`, crashes included, by TLC and by TLAPS; `CanvasSync`,
`WorkspaceVersioning` and `FilesystemSync` may therefore use a branch as atomic.
`CanvasGit` is shown to implement `CanvasHistory` by both as well, which is what
`WorkspaceVersioning` relies on, with the exception named in section 6.

**CanvasReducer.** Documents and commands are opaque; `Reducer` is a function
into documents or `Rejected`, `Receipted` the pairs for which a trusted plan
command returns its argument. The assumptions say what the code guarantees: the
empty document carries no receipt, and a replay leaves the document alone.

**CanvasCommandStore.** `snapshot` and `archive` are the files, `memory` is
`#envelope`, `queue` is `#operationTail`. An operation at the head of the queue
goes through `queued` (load if `#envelope` is null), `decide` (the body of
commit, commitLatest, …: receipts first, then revision, then reducer), `ensure`
(`#ensureRevisionRecord`), `archive`, `snapshot` and `install`, as
`#persistSemanticEnvelope` orders them. `WriteFails` rejects the operation at
any file, `Crash` drops everything but the files, `Evict` is
`drainAndEvictProject`. With `LateFailures` the fsync of the directory may fail
after the rename (`atomic-file.ts:33`): the caller sees an error and the file is
new. `acked` and `seen` are history variables: what callers were told.

**CanvasSync.** `tab` is `CanvasStoreState` with `#acknowledgedRevision`;
`dispatch`, `flush`, `load` and `save` are the program counters and locals of
the four activities; `LockFree` is `#withOutboxLock`. `FlushPost … FlushRebase`
follow `flushOutbox` with its single refetch and rebase, `FlushCheck`,
`FlushMore`, `FlushEnd` the drain loop and `#flushRequested`. `Serve` is the
ordinary-command part of `POST /canvas/commands`; `ServeOrphan` a request the
tab has given up. `ForeignCommit` is any other writer. `Crash` closes the page:
only the outbox stays. `dispatched` and `saved` are history variables.

**CanvasDocument and ProjectionPlans.** A command of the reducer is a guard and
an assignment; `PlainCommand`, `DestructiveCommand` and `PlanCommand` conjoin
`validateInvariants` on the result, so a command that throws is not enabled. An
id of `deterministicCanvasId` is the key it is made from. `PlanAssumption` says
what that means for two plans, which have no key in common because their ids
are part of it, and what `inspectGraphMaterializationPlan` (`graphPlan.ts`)
checks of a graph. `ProjectionPlans` adds the registry, the requests of two browsers in
three steps (look the plan up and check what the browser showed; commit; settle
the registry) with a crash after any, automatic materialization and the
reconciliation of plans whose task is gone.

**WorkspaceVersioning.** An operation that holds its locks is a record with the
list of steps it still has to take; `Start` checks `#withBranchLocks`, each step
is one effect in one store, `Fail` ends an operation at any step with or without
the degraded flag, `Crash` ends all. `runtime[b].anchor` is `lastCheckpoint`,
`tip[b]` the ref, `commits` the Git graph. `Browse` stands for the requests
without a branch lock, which set or clear the degraded flag at any moment.

**CanvasGit.** `trees` has for every branch and for the detached preview the
worktree with its index, files, `MERGE_HEAD` and lock; `heads` are the refs.
`op` is the operation `#runExclusive` admits, with the place it has come to. A
command fails early (without effect) or late (killed after it took effect), and
the clean-up of the operation runs as the code's `catch` and `finally` have it.

**RunLifecycle.** `run[r].pc` is where `#execute`, `#settleAndFinish` and
`#finish` are; `summary`, `log`, `torn`, `plans`, `canvas`, `tasks` are the
files; `leases`, `mutating`, `deletion` the reservations; `recovery` the one
recovery a process makes when it first opens the logs. `Write` takes an event
from the queue of a run to the log, beside the run. `seen` is what a subscriber
that is always there was sent. An append that fails (`NotAppended`), in a process
that goes on or with one that is killed, leaves nothing, the record without its
place in `events.idx`, or a part of it: `Cut` stands for a line without its end,
on which the next record lands, and a log that has one is not `Legible`.

**AgentTransport.** `run[r]` is where `transport.run` is, `child[r]` the process
group behind its entry in `#children` and `stop[r]` the promise in
`#terminations`; `cancel[r]` is where `#cancelActiveRun` is and then what
`#cancelRun` answers. `owner[s]` are the prompts the owner of an acpx session
has; `acpx cancel` (`Ended`) ends the first of them, as the repository's
`README.md` says it cannot name one. `Closing` are the steps after a child's
`close`, `Finally` the block that keeps the session while a cancellation is under
way. Microtasks that wait for nothing but each other are one step.

**RunFollower.** `log`, `first` and `held` are what the daemon offers, `runtime`
and `follow` what the page shows and executes. `Attach` decides between window
and 409, `FillGap` replays the log, `SettleRun` reloads the
canvas. The page may be reloaded, lose an answer or a stream at any time.

**ProjectLease.** `pc[d]` is where the one acquisition of a process is: link,
check the recovery directory and the maintenance file, retreat, or recover from
a dead owner (read it, mkdir, read again, remove, rmdir). A killed process
leaves its files. `gap` remembers that a recovery found the lock gone at its
second reading (section 6).

**ProjectCatalog.** `op.todo` are the file operations still to come; a kill or a
failure ends the operation at any of them, and a removal may stop half way.
`requireReady` runs before a page may open a project, and resets an old one.

**FilesystemSync.** `act` are the calls of the service, which nothing
serializes; `files` the text and inode of each path; `rows` and `conflicts` the
tables; `hints` the events and `sweep` the delayed pass over the root. A digest
is the text. `Read` compares as `#reconcileBinding` does with the row its caller
read; `Check` and `Rename` are the two ends of `atomicCasWriteText`. A row that
follows its file (`FollowFile`) may meet the path of another row, which a UNIQUE
constraint of `node_bindings` forbids (`Taken`): the statement throws, and the
call ends with it.

## 3. Runs

| Run | Question | Distinct states |
|---|---|---|
| `store_safety` | Two requests, crashes, evictions, failing writes: does the store implement the ledger and keep what it acknowledged and showed? | 0.4 million |
| `store_answered` | With late fsync failures: is every queued request answered? | 0.15 million |
| `sync_safety` | Two commands, a foreign writer, a late request, page crashes: is anything lost, reordered or left unsent, and is "saved" true? | 2.7 million |
| `versioning_safety` | Do runtime and Git history ever lose or overwrite each other's work? | 0.3 million |
| `plans_safety` | Two browsers settle a plan while commands copy, move and delete what it made: do its receipts stand? | 0.41 million |
| `lease_owners` | Two daemons and two requests, with kills: one holder, exclusive maintenance, every request answered? | 0.13 million, liveness |
| `catalog_safety` | Creation, deletion, opening and reset, killed at every file operation | 11 thousand |
| `runs_safety` | Runs of one task with destructive commands, project deletion, failing files and kills with recovery | 0.77 million |
| `follower_page` | A page follows two runs over log, window and stream, with one fault | 0.78 million, liveness |
| `transport_cancel` | Two acpx runs of one session and a codex run, cancelled at any point, with two faults: does a cancellation stop what it says and only that, and does it end? | 0.34 million, liveness |
| `git_store` | Every Git operation under early and late failures and crashes: is order left, and does it implement the abstract history? | 0.67 million |
| `files_safety` | A bound file under edits, other programs, saves, two activities, faults | 1.3 million |

What the properties say (each has a mutant in `PROJECT.json` that TLC refutes):

- Store: `AckedDurable`, `SeenReadable`, `ServesDurable`, `NeverWedged`,
  `ImplementsLedger` relate the files to what memory holds and callers were
  told; `Answered`: an operation that throws does not block the promise chain.
- Sync: `NothingLost`: a dispatched command is in the outbox, in the branch or
  in a conflict branch. `CommitOrder`: FIFO. `SavedIsCurrent`: a store at rest
  with status saved holds an archived revision that includes its own commits.
  `Drained`: a store comes to rest with an unsent command only when it says so.
- Versioning: `AnchorInHistory`; `NothingDestroyed`: what the user had is in
  Git before a destructive command, and neither store is overwritten with less;
  `MergeAsPreviewed`, `SavedIsRecovered`.
- Git: `LeavesOrder`: a refused operation leaves the branches, and any
  operation leaves worktrees as before or clean. `RefusalRepairs`: a checkpoint
  refused for a dirty worktree puts it in order. `ImplementsHistory`.
- Plans: `AgentEdgesReceipted`: no modelled command (section 7 has the others)
  leaves an edge that passes for the agent's without a receipt. `ReceiptsStand`: no receipt is taken back, nothing
  is made twice, nothing is made of a dismissed plan.
- Lease: `HolderKeepsLock`, `MaintenanceIsExclusive`, `Answered`.
- Catalog: `ListedIsThere`, `DeletedStaysDeleted`, `WorkKept`.
- Runs: `OneStream`: the stream has one end, the records of the log are events that
  were told, in order; a log closed as done or cancelled is the whole stream, and a
  recovery closes no log that a cut-off record has spoilt. `ToldIsDurable`,
  `PlanFollowsClose`, `TaskIsReserved`, `DeletionIsExclusive`, `Cancelled`.
- Follower: `FollowsOn`, `NotRevived`, `Released`; `NothingMissed`: outputs are
  shown and the plan is offered, whichever way the page learns of the end.
- Transports: `CancelledStops`: after a confirmed cancellation no process works
  for the run or will. `SparesOthers`: no other run loses its turn. `Returns`:
  every cancellation is answered and its run ends.
- Files: `NoSilentEdit`: when the service is at rest, a bound file holds a text
  its node has had, or is under an open conflict. `NothingUnseen`: a save never
  replaces a text the canvas has not had.

## 4. Bounds

Store: two callers are enough for every interleaving the promise queue admits:
one works, one waits. Two mutations distinguish a retry from a reuse; two
revisions separate the record of the current revision from the next. The tab
needs two commands for order and rebase of a tail, one foreign mutation for a
conflict, and one orphan for a request served late.

Versioning and Git have `main` and one other branch: every operation involves
at most two. `MaxCommits` bounds what starts, not what is under way. Three
documents make every outcome of a merge reachable; two faults allow a failure
in the clean-up of a failure, or a crash after one.

Plans: one plan with two outputs, two proposals and a graph; a client command
between its steps, from every start document of `MCStart`, which holds the
results of the commands a single edit could not reach.

Lease: two daemons, so that one may be dead or dying while the other recovers
from it, and two requests; `Attempts = 1` because a further attempt begins like
the first. Three daemons are needed for the race of section 6. Catalog: two
projects, of which one may be old, and no bound on the number of operations.

Runs: `Within` admits a second run of the task or a second fault, but not both
and texts besides; a first run killed and a second one beside its recovery is
within. Follower: a first run of three events and a second of none, with a
window of one and pages of two, so that gap, page boundary and window differ;
one fault.

Transports: two runs that want one session, since the hazard is between a run
and its successor; codex shares nothing with them. Two faults: a first cancel
that fails and a child that does not stop, or a cancel that fails twice.

Files: one node, one binding, two paths and three texts (base, canvas and disk
may all differ), three inodes (both paths and a temporary file), two activities,
three inputs besides the binding itself. An input is an edit of the node, a save
request, a change by another program or a failure. What takes two
rows is left to the proof, and to `FilesystemSync_pair.cfg`, which is run by hand
(`tlc -config FilesystemSync_pair.cfg MCFilesystemSync`, 1.6 million states): two
nodes bound to two files that other programs rename over each other, two texts
and the one mode that goes both ways. A rename and one more input are enough for
a row to follow its file to a path that another row has.

Deadlock checking is off where a behaviour may stop because its inputs, faults
or edits are used up (`lease_owners`, `plans_safety`, `follower_page`,
`files_safety`, `transport_cancel`): the daemon then idles. Symmetry is used for callers, mutation
ids, projects, activities, texts, nodes and inodes, which no definition distinguishes,
and in safety runs only.

## 5. Fairness

- Store: weak fairness of each caller's next step: the event loop runs a
  settled continuation, and a file operation completes or fails.
- Lease: every live daemon's next step, and the end of operations and
  maintenance that have started. A daemon may be killed, which answers nobody:
  its requests are then no longer pending.
- Runs: the steps of `#execute` and `#finish`, of the log queue and of the
  recovery; a transport that was asked to cancel returns: this is `Returns` of
  `AgentTransport`. An agent that is not asked may run for ever.
- Transports: the daemon's timers and continuations run, and a process that was
  sent SIGKILL ends some time, perhaps after the daemon gave up waiting. Agents
  and owners may work for ever.
- Follower: the daemon finishes what it began, and the page's next step.

Nothing is assumed of users, other writers, other programs, the network or
failures.

## 6. What the models show of the code

No run is kept for the following; each was met while a property was stated, and
the property is stated so that it excludes it, or the model leaves it out, as
said here.

*Store.* If the directory fsync of the snapshot fails after its rename, memory
stays behind, and the next commit rewrites the archive record of the revision on
disk (`docs/CANVAS-PERSISTENCE.md:12` calls it immutable); after a crash the
record contradicts the snapshot and every later semantic write is refused. All
safety properties assume `~LateFailures`.

*Browser store.* The reply to a command and the page are lost together: the
reload replays the entry over a document that has it, and a committed command is
reported as a conflict (`CANVAS-PERSISTENCE.md:37`). An acknowledgement counted
twice, by a load and by the flush, sends a later command with a base one too
high, over a foreign revision the page was never told of (`:46`). A reload reads
canvas and outbox concurrently (`store.ts:535`). A rebased command the reducer
rejects ends in the error state: its code is not one `isPreconditionCode` knows
(`daemonClient.ts:512`). FIFO order rests on `createdAt`: when the clock does not advance, the
random mutation id decides; the model takes it to advance. A reload that listed
the outbox before a dispatch may install its older document after the flush of
that command failed, and show "saved" over the error: the exception in `Drained`.

*Versioning.* Git initialized and the first commit failed: `main` does not load
(`CANVAS-PERSISTENCE.md:44`). `createBranch` interrupted between ref and
runtime: a merge preview checkpoints the empty runtime over the branch. A create
request for an existing branch cancels its debounced checkpoint (`:38`).

*Git.* A crash in a merge that changes nothing leaves `MERGE_HEAD` in a clean
worktree, and the next checkpoint becomes a commit with two parents
(`CanvasHistory.Conclude`, which `WorkspaceVersioning` does not have); after a
second crash that commit is taken for a merge. A `worktree add -b` killed half
way leaves a branch without a worktree, which nothing repairs. A worktree whose
lock answered late cannot be rolled back with one `--force`. A merge, unlike a
checkpoint, refuses a dirty worktree without repairing it. `LeavesOrder` is
stated for at most one command failing early.

*Plans.* A dismissal is committed, and another browser's request for the graph
of the plan still goes through, because the replay checks for a graph ignore the
dismissal and the registry is settled later (`docs/GRAPH-PROPOSALS.md:20`);
`ReceiptsStand` says outputs and proposals. A stale reconcile can dismiss a live
plan when a task id is used again. Accepting proposals settles the registry, and
the graph of the plan can no longer be taken.

*Lease.* Recovery takes a lock file that has gone for that of a dead owner and
removes the path. With three daemons: one releases while another recovers, the
third links its file and is given the lease, and its lock is removed
(`projectLease.ts:260` says a new owner's lease is never removed). `gap` marks
such behaviours, and `HolderKeepsLock` is stated for the others. The recovery
directory of a killed recoverer is never removed.

*Catalog.* The removal of a tombstone that fails half way has taken the identity
marker, and every later reading of the catalog is refused
(`projectCatalog.ts:239`: "restart-safe"). A creation whose catalog write fails
late leaves a listed project without a directory; a deletion whose write fails
late makes a project invisible. Hence the premises of `ListedIsThere`.

*Runs.* `#appendRecord` (`runLogs.ts:339-345`) neither truncates nor repairs after
a write that failed half way (a full disk), and the queue of the run goes on: the
next record is written on the line of the partial one. No reader decodes that
line: `page` (`:187-203`) throws on it, so the events behind it are never
replayed, and `inspectEventLogTail` (`:698-701`) refuses to put a recovered close
behind it, so that a run killed then stays interrupted without one. The failed
append is remembered (`logError`) and the run closes as an error, whose close is
found through its offset in `events.idx` even on such a line. `OneStream`
therefore promises a whole log only of runs closed as done or cancelled, and
nothing about reading the log of a run closed as an error, or never closed, to
its end. A record that lacks only its newline is one cut off in the model; `page`
still shows it while it is the last. `RunFollower` takes the pages of its log to
be answered in the end, which excludes these logs. A plan may be offered before
it is durable (`docs/CLI.md:71`). A crash
between `events.jsonl` and `events.idx` makes `terminalClose` throw, and the run
stays interrupted without a close. A close followed by a failing summary is told
as an error, and after a restart its plan is materialized.

*Follower.* A first attach asks from event 0, for which no gap is ever reported
(`runs.ts:772`), so a page that attaches after the window has moved skips
events; `FollowsOn` is stated for cursors above 0. A page that learns of a close
from the log, or recovers a run whose summary is already terminal, reloads
before the outputs are written, or not at all; `NothingMissed` speaks of outputs for runs
streamed to their end. A creation that arrives after three 404s leaves a run the
page does not follow. The comment at `runController.ts:474-476` has live events
move a run that shows an output back to running; an output exists only behind
the close, after which no such event comes, so `NotRevived` holds beside it.

*Transports.* A client that dies by itself, or for its output limit, after it
handed its prompt over leaves a turn nobody watches: the run ends and its session
is free. A later cancellation in that session ends that turn and confirms its
own; so does one whose first `acpx cancel` came too early and whose client then
died within the grace period, although the comment above `clientStopped`
(`acpx.ts:187`) and `README.md` have the second cancel catch it. `stray` marks
the sessions. A descendant that keeps the pipes of a child open lets `spawn` and
its cancellation wait as long.

*Files.* The mutation id of a synchronization is made of the binding and the
digest: when the file returns to an earlier text the id is spent, the canvas
stays behind, and the binding is clean (`docs/FILESYSTEM.md` says disk changes
update the canvas); `NoSilentEdit` therefore asks for a text the node has had,
not has. An edit between `canvas.get` and `commitLatest` is overwritten without a
conflict. A reconcile may write its verdict over a newer one. After
`#applyDiskText` the inode in the row is the old one, and renames are no longer
followed. An edit between the last digest check and the rename is overwritten
(`slipped` excludes it). A crash between the row and the commit of a binding
leaves a row whose UNIQUE constraints refuse every later attempt. A file moved to
the path of another bound file makes the event or the pass over the root fail at
the UNIQUE constraint, and with it what the same pass had still to look at.
Changes while nobody watches, and calls that fail, are not noticed (`missed`).

## 7. Not modelled

- *Node executions and compute.* The rows of executions and approvals would be a
  module of their own. Nothing recovers an execution that a crash or a close
  left running, no route calls `cancel`, and a cancellation between the end of
  the executor and the completion of its row is not honoured, so that what
  remains to say is that an execution runs what was approved. `FilesystemSync`
  and it share only the document.
- *Source Git*: no module refers to it, and `docs/CANVAS-PERSISTENCE.md:114`
  and `docs/AGENT-ARCHITECTURE.md:74` call the path deprecated; its worktree
  registry would be worth a module if it were used. `translator.ts`, probing and
  the registry of transports turn protocols of agents into events; *artifacts*, *capabilities*, *plugins*,
  *skills*, *PDF*, *presentations*, *instances* are checks, conversions and
  files written once. The *CLI* and the *views* hold no state beyond the stores.
- Of modelled components: geometry, titles, skills, executions and instances of
  the document (`CreateInstance`, `DetachInstance`), decomposition plans
  (`MaterializeDecompositionPlan`); the commits of the filesystem service in
  `WorkspaceVersioning`, which take the store's queue but no branch lock
  (`filesystemService.ts:467`; `FilesystemSync` has them); a directory that the
  failing `rm` of a failed creation leaves (`projectCatalog.ts:175`), which no
  record names unless the catalog write failed late; a second tab on one outbox; view state; the deletion of a
  project in the version manager, `close()` beyond a crash, `switchBranch`; lock
  files a killed Git leaves; capacity, sessions, artifacts and node-studio runs
  of the run manager; Windows and the close of the pools in the transports;
  `deleteLog`; permissions and ghosts of the run controller;
  directories and binary files of the filesystem service.
- Beyond the tools: liveness and refinement of fairness are model-checked only;
  what recursive definitions compute is not proved.

## 8. Proofs

`CanvasCommandStoreProofs` proves, for every set of callers, mutations,
commands, documents and checkpoints, every reducer that satisfies
`ReducerAssumption` and `ReceiptedAssumption`, and every `MaxRevision`:

| Theorem | Says | Hypothesis |
|---|---|---|
| `TypeCorrect` | `TypeOK` | none |
| `AcknowledgedMutationsSurvive` | `AckedDurable` | `~LateFailures` |
| `ShownRevisionsReadBack` | `SeenReadable` | `~LateFailures` |
| `BranchStaysUsable` | `SnapshotLoads`, `NeverWedged` | `~LateFailures` |
| `ServesWhatIsDurable` | `ServesDurable` | `~LateFailures` |
| `ArchiveIsImmutable` | `RecordsImmutable` | `~LateFailures` |
| `StoreImplementsLedger` | `ImplementsLedger` | `~LateFailures` |

None of the invariants is inductive alone. `IInv` adds: `Exclusive`, only the
head of the queue is past the queue and works on the envelope memory holds;
`Agreement`, memory and snapshot differ only between the replacement of the
snapshot and the assignment of `#envelope`; `Work`, the envelope being persisted
derives from memory in one of the five ways an operation has; `LedgerOK`, the
receipts parse and revision zero is the empty branch; `ArchiveOK`, one record
per revision, with the current record in place before the next is written and
both before the snapshot moves. From `Work` and `Agreement` the replacement of
the snapshot is one step of the ledger; `ArchiveOK` is why a record at or below
the durable revision is never touched: an operation writes only the record it
found to agree, and one above. `~LateFailures` is needed there and nowhere
before.

The proof has one lemma per kind of step and part of the invariant
(`…TypeInv`, `…Safe`), and `LedgerStep` for the refinement.

`CanvasSyncProofs` proves, for any number of commands, other writers and late
requests and every reducer (`SyncAssumption`: the ids of this browser are its
own; `SyncValuesAssumption`: null is neither an envelope, an entry nor a list;
`ReducerAssumption`), with the page closing and messages lost between any two
steps:

| Theorem | Says |
|---|---|
| `TypeCorrect` | `TypeOK` |
| `NothingIsLost` | `NothingLost` |
| `OrderIsKept` | `CommitOrder` |
| `SavedShowsItsOwn` | `SavedIsCurrent` |
| `NothingForgotten` | `Drained` |

`CommitOrder` takes three parts of `IInv`: every journal, the outbox as well as
what a conflict branch is saved from, is in the order of dispatch (`Journals`),
so that what stands before the head of the outbox is no longer in it and, by
`NothingLost`, committed or recovered; a request has this from the moment it is
sent, and keeps it after it was given up (`Requests`); therefore a late request
cannot overtake either (`Ordered`). For `NothingLost` the acknowledgement of a
flush needs the receipt of what it acknowledges (`Flushing`), and that of a save
needs that the outbox is still what was saved (`Recovered`), which the outbox
lock guarantees (`Exclusive`).

`SavedIsCurrent` holds at rest, the invariant has to say something in between:
an envelope covers every command that is committed and no longer queued. That
is so of what a flush has in hand (`Flushing`), but not of what the store shows
or a load has fetched while the flush is about to show something newer. `Showing`
and `Loading` therefore claim it only of a store that is `Settled`, and of the
load only if its envelope is not behind; the step from the end of a flush to
`Settled` is where the guard of `#load` is needed. `NothingForgotten` adds
`First`: until the first load is over nothing else touches the outbox.

`WorkspaceVersioningProofs` proves, for any branches, documents, commands and
bounds (`VersioningAssumption`, `ReducerAssumption`), with failures and crashes
between any two steps:

| Theorem | Says |
|---|---|
| `TypeCorrect` | `TypeOK` |
| `AnchorsAreHistory` | `AnchorInHistory` |
| `NothingIsDestroyed` | `NothingDestroyed` |
| `MergesAsPreviewed` | `MergeAsPreviewed` |
| `SavedIsThere` | `SavedIsRecovered` |

An operation is the list of steps it has left, so the invariant (`IInv`) says
of every step on the list what holds now or will have been made to hold by the
steps before it (`Courses`): an anchor to be written is that of the document the
runtime still has (`Anchoring`); a destructive command comes right after the
checkpoint of its branch, or finds its document in the history (`Committing`); a
branch is only created at a commit, and settled only once it is there
(`Growth`); a merge comes right after the checkpoint of its target (`Joining`).
That these survive what others do is the lemma `Others`: locks of two
operations are disjoint (`Apart`), and a step changes only what its operation
has locked. `Commits` says that a commit knows its ancestors and that all share
the first one; a merge base therefore exists, and it is the greatest common
ancestor because ancestors have smaller numbers (`HasGreatest`).

`CanvasGitProofs` proves, for any branches, documents, outcomes of a merge and
bounds (`GitAssumption`; `NothingAssumption`: what stands for no worktree and no
operation is neither):

| Theorem | Says |
|---|---|
| `TypeCorrect` | `TypeOK` |
| `KeepsHistory` | `ImplementsHistory` |
| `OperationsLeaveOrder` | `LeavesOrder` |
| `RefusalsRepair` | `RefusalRepairs` |

`KeepsHistory` is the refinement: `git commit` is `Root`, `Checkpoint`,
`Conclude` or `Merge` of `CanvasHistory`, depending on the parents Git gives it;
the end of a successful creation is `Branch`; every other step is a stutter,
because a branch that is being created is not visible until the operation ends.
To know that what is committed is a whole document, with the document a merge
of these two commits has, takes the invariant: `Trees` says of every worktree
that a `MERGE_HEAD` in it is a commit the branch does not have, and that its
index is what Git made of the two, or the merge changed nothing (the one case a
checkpoint may conclude, section 6); `Course` says for each kind of operation
what it can rely on at each place, and how much of that is left after a command
failed (`Mild`: at most one, and early); `Elsewhere` that it touches one branch
and one worktree; `Reached` that every commit is part of a visible branch, which
`CanvasHistory` promises; `Whole` is as `Commits` above. Each lemma on a command
has three outcomes: it works, fails early, or fails late.

`RunLifecycleProofs` proves, for any runs, tasks and bounds (`RunAssumption`;
runs are numbered in the order of their ids, by which recovery goes):

| Theorem | Says |
|---|---|
| `TypeCorrect` | `TypeOK` |
| `StreamsAreOne` | `OneStream` |
| `ToldStays` | `ToldIsDurable` |
| `PlansFollow` | `PlanFollowsClose` |
| `TasksReserved` | `TaskIsReserved` |
| `DeletionsExclude` | `DeletionIsExclusive` |

`IInv` has a part on reservations (`Locks`: who is busy holds the lease of its
task, a lease is held once, and never beside a destructive command), a part on
recovery (`Recovers`: it is over before the first run starts, so nobody else
writes the log of the run it is at) and a `Story` for each run: the reason it
ended with is that of its one done (`Reasoned`), the stream is numbered and
closed at its end (`Streamed`), what waits for the log was told and comes after
what is in it (`Queued`, `Logged`), a close told with a result is in the log
(`Durable`), and a plan is in the registry before the close that names it and in
the canvas after it (`Planned`). `OneStream` and `PlanFollowsClose` compare two
of stream, log, registry and canvas, which a run changes at different steps;
`Story` is what links each of them to the place the run is at. The lemma
`Others` says that a run's story is not about the others.

`OneStream` needs a second invariant, `KInv`, inductive beside `IInv`. `Kept`
says of a run without a remembered log error that log and queue together are the
stream, each record at the place of its id and none cut off; `Covered` keeps
for every close in the log what was true of the records before it when it was
written. A failing append breaks `Kept`'s premise in the same step as the log,
and from then on the run can only close as an error (`Logged` in `IInv`), for which
`Covered` asks nothing.

`ProjectProofs` proves about `ProjectCatalog`, for any projects, old ones among them, and kills
and failures at any file operation (`CatalogAssumption`):

| Theorem | Says |
|---|---|
| `TypeCorrect` | `TypeOK` |
| `ListedIsKept` | `ListedIsThere` |
| `DeletionsStand` | `DeletedStaysDeleted` |
| `WorkSurvives` | `WorkKept` |

`IInv` says where an operation can be (`Routes`) and of which project
(`Subject`), that ids never given out are nowhere (`Born`), that what was moved
aside keeps its marker and was not under a reset (`Sound`), and what a creation
and a deletion have done where they are (`Creating`, `Deleting`). For `WorkKept`
it needs `Untouched`: where a reset is unfinished nobody has been let in, so
there is no work for it to take.

`ProjectProofs` proves about `ProjectLease`, for any daemons, any number of attempts and any
finite set of requests (`LeaseAssumption`; finite, because the daemon counts the
operations under way):

| Theorem | Says |
|---|---|
| `LeaseTypeCorrect` | `LeaseTypeOK` |
| `MaintenanceAlone` | `MaintenanceIsExclusive` |
| `HolderKeepsItsLock` | `HolderKeepsLock` |
| `OneHolder` | two daemons that hold the lease are one, unless `gap` |

There are two invariants, for neither is needed for the other's steps but for
its types. `InsideInv` is about the requests of one daemon: the counter is the
number of operations under way (`Counted`), maintenance has its fence up from
its arrival on (`Fenced`) and no second one behind it (`Single`), so that a
counter at zero stays there while it has the project (`Quiet`). `OutsideInv` is
about the files: only living processes act (`Living`), one recovers at a time
(`OneRecovery`), and unless `gap`, whoever linked the lock file has it until it
removes it (`Owning`) and a recovery about to remove one removes that of a dead
process (`Stale`). `Stale` is what the second reading under the recovery
directory is for, and `gap` is the one reading that does not establish it.

`OutsideProofs` proves about `AgentTransport`, for any acpx and codex runs, sessions, assignment
of sessions and number of faults (`TransportAssumption`):

| Theorem | Says |
|---|---|
| `AgentTypeCorrect` | `AgentTypeOK` |
| `ConfirmedCancelsStop` | `CancelledStops` |
| `CancelsSpareOthers` | `SparesOthers` |

`AgentIInv` has one part for each run (`RunInv`) and one for the owners (`Turns`). A
child belongs to a run that waits for it (`Attended`); a run has its session
until its finally block is through (`Scoped`), and that waits for the
cancellation (`Phases`), so two runs never have a client or a cancel at one
session: this is `SparesOthers`. An owner whose session is not in `stray` has at
most one prompt (`Turns`): whoever hands one over has the session, and any
earlier prompt there would be one that `Accounted` calls unknown. Therefore the
second `acpx cancel` ends the prompt it is meant for, and `CancelledStops`
follows. The lemma `Others` says what a run needs of the steps of the others.

`OutsideProofs` proves about `FilesystemSync`, for any nodes, paths, texts,
inodes, bindings, activities and number of inputs (`FilesAssumption`: bindings
are numbered in the order of their creation; `NothingAssumption`: null is no
row):

| Theorem | Says |
|---|---|
| `TypeCorrect` | `TypeOK` |
| `Invariant` | `IInv` |
| `NoEditIsSilent` | `NoSilentEdit` |
| `NothingIsUnseen` | `NothingUnseen` |

`NoSilentEdit` speaks of a service at rest. `Noticed` is what holds in between:
the text of a bound file is one its node has had, or disputed, or somebody is
still to look at it (`Due`): an event for its path is to come, a reconcile will
read it, or one that has read it is about to commit or to record a conflict. At
rest there is nobody. What an activity carries is old, since nothing serializes
activities, and `Had` is why that does no harm: every text in a row, in a copy
of a row and in the base of a patch was one the canvas had or the user saw when
they bound the file (`Honest`, `Call`), and such texts only become more. So a
stale verdict may be wrong about who is ahead, but not about what is known; and
a save that has compared the digest replaces a known text, or one that `slipped`
in, which is `NothingUnseen`. `Once` and `Linked` are needed for the places
where a row, a node and an activity could mean different bindings: a binding has
one row, written by the one activity that made it, a node or a path has one
binding, and who commits or saves for a binding finds its node attached. The
UNIQUE constraint on paths is needed: with `Taken` false, `Once` fails, and
`FilesystemSync_pair.cfg` has a silent edit.

`RunResultProofs` proves about `RunFollower`, for any runs, events, window, page
size and faults (`BoundsAssumption`; `NothingAssumption`: null is no runtime):

| Theorem | Says |
|---|---|
| `TypeCorrect` | `TypeOK` |
| `PageInvariant` | `PageIInv` |
| `PagesMissNothing` | `NothingMissed` |
| `FollowsOnHolds` | `FollowsOn` |
| `NeverRevived` | `NotRevived` |

`Logged` is about the daemon: a close is the last entry of a log and there from
one stage of the run on, and the outputs come after it. `Single`: the page waits
for one thing at a time and shows the run it starts or follows. `AsRead`: what
the page has read of canvas and summaries was so and stays so. `Following` ties
a follow to its log: what a stream brings next is the entry after the cursor,
if there was one before it, and once the run is shown as over a live follow has
nothing but the close left to come, which is `NeverRevived`; a replay may still
go by old events, for it does not touch the phase. `Owed` adds to
`NothingMissed` that a run is settled only at its close, and that one streamed
to its end is past its materialization.

`RunResultProofs` proves about `ProjectionPlans`, for any plans, client ids,
types, browsers and start documents (`PlanAssumption`; `StartAssumption`: a
branch is opened with documents of this shape that have no edge of a plan yet):

| Theorem | Says |
|---|---|
| `Invariant` | `IInv` |
| `EdgesAreReceipted` | `AgentEdgesReceipted` |
| `ReceiptsAreKept` | `ReceiptsStand` |

The invariant is short: every edge of a plan joins what the receipts of that
plan name (`AllAccounted`), nodes and edges keep their fields and receipts speak
of the keys of their own plan (`Shaped`), and a request that goes on to commit
names a plan (`Asked`). The work is in the commands. Those that name no plan
share one lemma, `UsersOwnSafe`: they leave the receipts alone, and any node or
edge they write is the user's or was there before. The four trusted commands
each extend the receipts by what they make; acceptance, which rewrites the
receipt of the materialization, keeps its old outcomes and adds those it lacked
(`MissingOutputs`). `PlanOf` makes the receipts of one plan evidence for its own
keys only. The proofs nowhere use that the result of a command is validated:
`validateInvariants` looks at neither property, and the handlers guarantee both.
A type invariant is not among the theorems, because the ids a document may hold
are nested as deep as collections were copied.

**Only model-checked.** Liveness, which rests on fairness: `Answered` of the
store and of the lease, `Cancelled` of the runs, `Released` of the page and
`Returns` of the transports. A proof would need `ENABLED` of the actions, which
the installed provers do not have. `Drained`, a property of steps, is proved;
that a store comes to rest at all is not claimed. No proof uses the fairness of
a specification.

## 9. Plan

1. Modules: done as far as section 2 goes.
2. Proofs: every safety invariant and action property of the runs is a theorem.
3. For the store: the theorems that survive `LateFailures` without their
   hypothesis.
4. A module for node executions, when a run can be spared for it.
