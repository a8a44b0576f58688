-------------------------- MODULE WorkspaceVersioning --------------------------
(***************************************************************************)
(* src/daemon/workspaceVersioning.ts: the WorkspaceVersionManager keeps,   *)
(* for every branch of a project, the runtime document (the branch store,  *)
(* CanvasCommandStore) and its Git history (canvasGit.ts) in step.  There  *)
(* is no transaction over the two: an operation takes the locks of its     *)
(* branches and then goes through steps, each of them atomic in one of the *)
(* two stores.  The daemon may crash, and Git or the disk may fail, at any *)
(* step; operations on other branches, timers and status requests go on in *)
(* between.                                                                *)
(*                                                                         *)
(* An operation is a record of what it locked and of the steps it still    *)
(* has to take; a step that throws ends it.  The runtime of a branch is    *)
(* what CanvasLedger promises without its receipts.                        *)
(*                                                                         *)
(* Not modelled: a worktree that an interrupted Git command left dirty or  *)
(* unlocked, and the repair the next checkpoint makes (to an operation it  *)
(* is a failure); a Git directory that is there but no repository; a       *)
(* request the ledger answers as a retry; switchBranch, which nothing      *)
(* calls; close(), which is its timers firing early and then a crash; the  *)
(* deletion of a project.  MaxCommits and MaxRevision bound what TLC       *)
(* starts.                                                                 *)
(***************************************************************************)
EXTENDS Naturals, FiniteSets, SequencesExt, CanvasReducer

CONSTANTS
  Branches,         \* the branch names in use
  Main,             \* "main"
  Destructive,      \* the commands of isDestructiveCanvasCommand
  Conflicting,      \* Git could not merge two documents
  Merged,           \* [base \X target \X source -> document or Conflicting]
  Nothing,          \* an operation without an argument
  Failures,         \* may Git and the disk fail?
  Crashes,          \* may the daemon crash?
  MaxCommits,       \* bound: nothing starts that needs more Git commits
  MaxRevision       \* bound: a branch at this revision gets no command

ASSUME VersioningAssumption ==
  /\ Main \in Branches
  /\ Destructive \subseteq Commands
  /\ Conflicting \notin Documents
  /\ Merged \in [Documents \X Documents \X Documents -> Documents \cup {Conflicting}]
  /\ Failures \in BOOLEAN /\ Crashes \in BOOLEAN
  /\ MaxCommits \in Nat /\ MaxRevision \in [Branches -> Nat]

VARIABLES
  initialized,  \* the Git directory exists
  commits,      \* Git commits; past holds the numbers of a commit's ancestors
  tip,          \* the commit of each branch, 0 while Git does not know it
  runtime,      \* the envelopes; anchor is lastCheckpoint, 0 for null
  degraded,     \* #degraded: some Git command failed and none succeeded since
  scheduled,    \* branches with a debounced checkpoint to come: the timer
                \* runs, or has fired and its task waits for the lock
  running,      \* the operations that hold their locks
  expected      \* the merge preview shown last

vars == <<initialized, commits, tip, runtime, degraded, scheduled, running,
          expected>>

git == <<initialized, commits, tip>>

NoRuntime == [revision |-> 0, document |-> EmptyDocument, anchor |-> 0]

Init ==
  /\ initialized = FALSE
  /\ commits = <<>>
  /\ tip = [b \in Branches |-> 0]
  /\ runtime = [b \in Branches |-> NoRuntime]
  /\ degraded = FALSE
  /\ scheduled = {}
  /\ running = {}
  /\ expected = Nothing
------------------------------------------------------------------------------
(***************************************************************************)
(* Git and the runtime stores.                                             *)
(***************************************************************************)
Past(k) == commits[k].past
TipDocument(b) == commits[tip[b]].document
HasSnapshot(b) == runtime[b].revision > 0 \/ runtime[b].anchor # 0

\* status(), which forgets a failure as long as there is no repository.
Status ==
  IF ~initialized THEN "uninitialized"
  ELSE IF degraded THEN "degraded" ELSE "ready"

NewCommit(document, parents) ==
  [document |-> document, parents |-> parents,
   past |-> (UNION {Past(p) : p \in ToSet(parents)}) \cup {Len(commits) + 1}]

CommitOnto(b, document, parents) ==
  /\ commits' = Append(commits, NewCommit(document, parents))
  /\ tip' = [tip EXCEPT ![b] = Len(commits) + 1]

\* canvasGit.checkpoint: the first one creates the repository and its main
\* branch; without a change there is no new commit.
GitKnows(b) == tip[b] # 0 \/ b = Main

GitCheckpoint(b, document) ==
  /\ initialized' = TRUE
  /\ IF tip[b] = 0 THEN CommitOnto(b, document, <<>>)
     ELSE IF TipDocument(b) = document THEN UNCHANGED <<commits, tip>>
     ELSE CommitOnto(b, document, <<tip[b]>>)

\* recoverableMergeTip: the tip is a merge that the runtime never took over.
PendingMerge(b) ==
  /\ runtime[b].anchor # 0 /\ tip[b] # 0
  /\ Len(commits[tip[b]].parents) = 2
  /\ commits[tip[b]].parents[1] = runtime[b].anchor

\* #reconcileCommittedCanvasMerge
Reconciles(b) ==
  PendingMerge(b) => runtime[b].document = commits[runtime[b].anchor].document

Reconciled(b) ==
  IF PendingMerge(b)
  THEN [revision |-> runtime[b].revision + 1, document |-> TipDocument(b),
        anchor |-> tip[b]]
  ELSE runtime[b]

\* materialize at revision 0, else #alignRuntimeAnchor of the runtime r.
Settles(b, r) ==
  r.revision = 0 \/ r.anchor = tip[b] \/ r.document = TipDocument(b)

\* Mutant: rev-parse HEAD in the main worktree.
SettledAtMain(b, r) ==
  IF r.revision = 0
  THEN [revision |-> 1, document |-> TipDocument(b), anchor |-> tip[Main]]
  ELSE [r EXCEPT !.anchor = tip[Main]]

Settled(b, r) ==
  IF r.revision = 0
  THEN [revision |-> 1, document |-> TipDocument(b), anchor |-> tip[b]]
  ELSE [r EXCEPT !.anchor = tip[b]]

\* #loadBranchCanvas answers ...
Loads(b) ==
  \/ Status = "degraded" /\ (b = Main \/ HasSnapshot(b))
  \/ Status = "uninitialized" /\ b = Main
  \/ Status = "ready" /\ tip[b] # 0 /\ Reconciles(b) /\ Settles(b, Reconciled(b))

\* ... with this envelope.
Loaded(b) ==
  IF Status = "ready" THEN Settled(b, Reconciled(b)) ELSE runtime[b]

\* The merge base, and the document of the merge of s into t.
MergeBase(s, t) ==
  CHOOSE k \in Past(s) \cap Past(t) : \A j \in Past(s) \cap Past(t) : j <= k

MergeOf(s, t) ==
  Merged[commits[MergeBase(s, t)].document, commits[t].document, commits[s].document]
------------------------------------------------------------------------------
(***************************************************************************)
(* Operations.                                                             *)
(***************************************************************************)
\* #withBranchLocks: all predecessors of the branches have settled.
Unlocked(branches) == \A o \in running : o.locks \cap branches = {}

Start(kind, on, from, given, todo) ==
  /\ Unlocked({on, from})
  /\ running' = running \cup
       {[kind |-> kind, locks |-> {on, from}, on |-> on, from |-> from,
         given |-> given, todo |-> todo]}

\* The operation rejects, or returns.
End(o) == running' = running \ {o}

\* The step is taken, and these follow.
Follow(o, todo) ==
  running' = (running \ {o}) \cup
             IF todo = <<>> THEN {} ELSE {[o EXCEPT !.todo = todo]}

\* #cancelScheduled comes too late for a timer that has fired.
CancelScheduled(branches) == scheduled' \in {scheduled, scheduled \ branches}

Rest(o) == Tail(o.todo)
At(o, step) == o \in running /\ Head(o.todo)[1] = step
Arg(o, i) == Head(o.todo)[i + 1]

CanCheckpoint == Len(commits) < MaxCommits
CanCommit(b) == runtime[b].revision < MaxRevision[b]

\* getCanvas
GetCanvas(b) ==
  /\ Start("get", b, b, Nothing, << <<"load", b>> >>)
  /\ UNCHANGED <<git, runtime, degraded, scheduled, expected>>

\* commitCanvas: a client posts a command based on some revision it has seen.
CommitCanvas(b, base, command) ==
  /\ CanCommit(b)
  /\ Start("commit", b, b, Nothing,
           << <<"load", b>>, <<"admit", b, base, command>> >>)
  /\ UNCHANGED <<git, runtime, degraded, scheduled, expected>>

\* commitLatestCanvas: a trusted command takes whatever revision is current.
CommitLatestCanvas(b, command) ==
  /\ CanCommit(b)
  /\ Start("commitLatest", b, b, Nothing,
           << <<"load", b>>, <<"commitLatest", b, command>> >>)
  /\ UNCHANGED <<git, runtime, degraded, scheduled, expected>>

ManualCheckpoint(b) ==
  /\ CanCheckpoint
  /\ Start("manual", b, b, Nothing, << <<"load", b>>, <<"checkpoint", b>> >>)
  /\ CancelScheduled({b})
  /\ UNCHANGED <<git, runtime, degraded, expected>>

\* The timer of #scheduleCheckpoint has fired, and its task gets the lock.
TimerCheckpoint(b) ==
  /\ b \in scheduled
  /\ Start("timer", b, b, Nothing, << <<"checkpoint", b>> >>)
  /\ scheduled' = scheduled \ {b}
  /\ UNCHANGED <<git, runtime, degraded, expected>>

\* createBranch, restoreAsNewBranch and saveConflictBranch begin alike.  What
\* they are given: nothing, a checkpoint, or the recovered document.
Grow(kind, new, from, given) ==
  /\ new # from
  /\ CanCheckpoint
  /\ Start(kind, new, from, given, << <<"reconcile", new>>, <<"lookup">> >>)
  /\ CancelScheduled({new})
  /\ UNCHANGED <<git, runtime, degraded, expected>>

PrepareMerge(source, target) ==
  << <<"query">>, <<"reconcile", source>>, <<"reconcile", target>>, <<"cancel">>,
     <<"checkpoint", source>>, <<"checkpoint", target>> >>

PreviewMerge(source, target) ==
  /\ source # target
  /\ CanCheckpoint
  /\ Start("preview", target, source, Nothing,
           Append(PrepareMerge(source, target), <<"preview">>))
  /\ UNCHANGED <<git, runtime, degraded, scheduled, expected>>

\* executeMerge: the client confirms the preview it was shown last.
ExecuteMerge ==
  /\ expected # Nothing
  /\ Start("merge", expected.target, expected.source, expected,
           << <<"assert">> >> \o PrepareMerge(expected.source, expected.target)
             \o << <<"merge">> >>)
  /\ UNCHANGED <<git, runtime, degraded, scheduled, expected>>
------------------------------------------------------------------------------
(***************************************************************************)
(* Their steps.                                                            *)
(***************************************************************************)
Load(o) ==
  /\ At(o, "load")
  /\ LET b == Arg(o, 1) IN
     IF Loads(b)
     THEN runtime' = [runtime EXCEPT ![b] = Loaded(b)] /\ Follow(o, Rest(o))
     ELSE End(o) /\ UNCHANGED runtime
  /\ UNCHANGED <<git, degraded, scheduled, expected>>

\* Mutant: a destructive command goes through while Git is out of order.
NeedsCheckpointIfReady(command) == command \in Destructive /\ ~degraded

NeedsCheckpoint(command) == command \in Destructive

\* A destructive command that will be accepted waits for a checkpoint; if
\* that fails, so does the command.
Admit(o) ==
  /\ At(o, "admit")
  /\ LET b == Arg(o, 1)
         command == Arg(o, 3)
         commit == << <<"commit", b, Arg(o, 2), command>> >>
     IN
     IF ~(NeedsCheckpoint(command) /\ runtime[b].revision = Arg(o, 2))
     THEN Follow(o, commit) /\ UNCHANGED scheduled
     ELSE IF Apply(runtime[b].document, command) = Rejected
     THEN End(o) /\ UNCHANGED scheduled
     ELSE Follow(o, << <<"checkpoint", b>> >> \o commit)
          /\ CancelScheduled({b})
  /\ UNCHANGED <<git, runtime, degraded, expected>>

\* The command takes effect, and its checkpoint is due.
Take(b, command) ==
  /\ runtime' = [runtime EXCEPT ![b].revision = @ + 1,
                                ![b].document = Apply(@, command)]
  /\ scheduled' = scheduled \cup {b}

Commit(o) ==
  /\ At(o, "commit")
  /\ LET b == Arg(o, 1)  command == Arg(o, 3) IN
     IF runtime[b].revision = Arg(o, 2) /\ Apply(runtime[b].document, command) # Rejected
     THEN Take(b, command)
     ELSE UNCHANGED <<runtime, scheduled>>
  /\ End(o)
  /\ UNCHANGED <<git, degraded, expected>>

\* A trusted command that the document has already taken leaves the revision.
CommitLatest(o) ==
  /\ At(o, "commitLatest")
  /\ LET b == Arg(o, 1)  command == Arg(o, 2) IN
     IF Apply(runtime[b].document, command) = Rejected
     THEN UNCHANGED <<runtime, scheduled>>
     ELSE IF IsReplay(runtime[b].document, command)
     THEN UNCHANGED runtime /\ scheduled' = scheduled \cup {b}
     ELSE Take(b, command)
  /\ End(o)
  /\ UNCHANGED <<git, degraded, expected>>

\* #checkpoint: the runtime document becomes the tip of the branch ...
Checkpoint(o) ==
  /\ At(o, "checkpoint")
  /\ LET b == Arg(o, 1) IN
     IF GitKnows(b)
     THEN /\ GitCheckpoint(b, runtime[b].document)
          /\ degraded' = FALSE
          /\ Follow(o, << <<"anchor", b, runtime[b].revision, tip'[b]>> >> \o Rest(o))
     ELSE End(o) /\ UNCHANGED <<git, degraded>>
  /\ UNCHANGED <<runtime, scheduled, expected>>

\* ... and the anchor of the envelope, if the revision still is the same;
\* otherwise there is another attempt (of three, which the lock makes enough).
Anchor(o) ==
  /\ At(o, "anchor")
  /\ LET b == Arg(o, 1) IN
     IF runtime[b].revision = Arg(o, 2)
     THEN runtime' = [runtime EXCEPT ![b].anchor = Arg(o, 3)] /\ Follow(o, Rest(o))
     ELSE UNCHANGED runtime /\ Follow(o, << <<"checkpoint", b>> >> \o Rest(o))
  /\ UNCHANGED <<git, degraded, scheduled, expected>>

\* #reconcileCommittedCanvasMerge asks Git whatever its status is, and finding
\* a merge shows that Git works again.
Reconcile(o) ==
  /\ At(o, "reconcile")
  /\ LET b == Arg(o, 1) IN
     IF Reconciles(b)
     THEN /\ runtime' = [runtime EXCEPT ![b] = Reconciled(b)]
          /\ degraded' = (degraded /\ ~PendingMerge(b))
          /\ Follow(o, Rest(o))
     ELSE End(o) /\ UNCHANGED <<runtime, degraded>>
  /\ UNCHANGED <<git, scheduled, expected>>

\* #canvasBranch of the new branch and #assertBranchLayerConsistency.
Refused(o) ==
  \/ Status = "degraded"
  \/ tip[o.on] = 0 /\ runtime[o.on].revision > 0
  \/ o.kind = "restore" /\ tip[o.on] \notin {0, o.given}

LastSteps(o) ==
  IF o.kind = "conflict" THEN << <<"recover">>, <<"settle">> >> ELSE << <<"settle">> >>

\* A branch that exists is only settled again: the operation may be a retry.
LookUp(o) ==
  /\ At(o, "lookup")
  /\ IF Refused(o) THEN End(o) /\ UNCHANGED scheduled
     ELSE IF tip[o.on] # 0 THEN Follow(o, LastSteps(o)) /\ UNCHANGED scheduled
     ELSE /\ Follow(o, << <<"load", o.from>>, <<"checkpoint", o.from>>, <<"ref">> >>
                       \o LastSteps(o))
          /\ CancelScheduled({o.from})
  /\ UNCHANGED <<git, runtime, degraded, expected>>

\* Where the new branch starts: at the checkpoint just made, or at one chosen
\* from the history of the other branch.
StartPoint(o) == IF o.kind = "restore" THEN o.given ELSE tip[o.from]

\* canvasGit.createBranch or restoreAsNewBranch
Ref(o) ==
  /\ At(o, "ref")
  /\ IF StartPoint(o) \in Past(tip[o.from])
     THEN /\ tip' = [tip EXCEPT ![o.on] = StartPoint(o)]
          /\ degraded' = FALSE
          /\ Follow(o, Rest(o))
     ELSE End(o) /\ UNCHANGED <<tip, degraded>>
  /\ UNCHANGED <<initialized, commits, runtime, scheduled, expected>>

\* Another document than this operation's.
HoldsOther(o) ==
  runtime[o.on].revision > 0 /\ runtime[o.on].document # o.given

\* Mutant: a branch that exists is taken to hold the recovery.
RecoverNewOnly(o) ==
  /\ At(o, "recover")
  /\ IF runtime[o.on].revision > 0 /\ TipDocument(o.on) # o.given
     THEN UNCHANGED git /\ Follow(o, Rest(o))
     ELSE GitCheckpoint(o.on, o.given) /\ Follow(o, Rest(o))
  /\ degraded' = FALSE
  /\ UNCHANGED <<runtime, scheduled, expected>>

\* saveConflictBranch: Git takes the recovered document first.
Recover(o) ==
  /\ At(o, "recover")
  /\ IF TipDocument(o.on) # o.given /\ HoldsOther(o)
     THEN End(o) /\ UNCHANGED git
     ELSE GitCheckpoint(o.on, o.given) /\ Follow(o, Rest(o))
  /\ degraded' = FALSE
  /\ UNCHANGED <<runtime, scheduled, expected>>

\* The runtime of the branch is materialized or aligned, and the operation
\* succeeds ...
CanSettle(o) ==
  Settles(o.on, runtime[o.on]) /\ ~(o.kind = "conflict" /\ HoldsOther(o))

Settle(o) ==
  /\ At(o, "settle") /\ CanSettle(o)
  /\ runtime' = [runtime EXCEPT ![o.on] = Settled(o.on, @)]
  /\ End(o)
  /\ UNCHANGED <<git, degraded, scheduled, expected>>

\* ... or it holds something else.
SettleRefused(o) ==
  /\ At(o, "settle") /\ ~CanSettle(o)
  /\ End(o)
  /\ UNCHANGED <<git, runtime, degraded, scheduled, expected>>

\* #queryableBranch of both branches
Query(o) ==
  /\ At(o, "query")
  /\ IF Status = "ready" /\ \A b \in o.locks : tip[b] # 0
     THEN Follow(o, Rest(o)) ELSE End(o)
  /\ UNCHANGED <<git, runtime, degraded, scheduled, expected>>

Cancel(o) ==
  /\ At(o, "cancel")
  /\ CancelScheduled(o.locks)
  /\ Follow(o, Rest(o))
  /\ UNCHANGED <<git, runtime, degraded, expected>>

Expectation(source, target) ==
  [source |-> source, target |-> target,
   sourceCommit |-> tip[source], targetCommit |-> tip[target],
   sourceRevision |-> runtime[source].revision,
   targetRevision |-> runtime[target].revision]

Preview(o) ==
  /\ At(o, "preview")
  /\ expected' = Expectation(o.from, o.on)
  /\ degraded' = FALSE
  /\ End(o)
  /\ UNCHANGED <<git, runtime, scheduled>>

\* Mutant: only the target has to be as previewed.
StillExpectedTarget(o) ==
  LET e == Expectation(o.from, o.on) IN
  /\ e.targetCommit = o.given.targetCommit
  /\ e.targetRevision = o.given.targetRevision

\* sameMergeExpectation
StillExpected(o) == Expectation(o.from, o.on) = o.given

\* #assertMergeExpectationCurrent, before anything is touched.
AssertExpectation(o) ==
  /\ At(o, "assert")
  /\ IF /\ Status = "ready"
        /\ StillExpected(o)
        /\ \A b \in o.locks : runtime[b].anchor = tip[b]
     THEN Follow(o, Rest(o)) ELSE End(o)
  /\ UNCHANGED <<git, runtime, degraded, scheduled, expected>>

\* The preview is made again, and if it is the expected one Git merges: no
\* fast-forward, and nothing for a merged source.
Merge(o) ==
  /\ At(o, "merge")
  /\ LET s == tip[o.from]  t == tip[o.on] IN
     IF ~StillExpected(o) \/ s \in Past(t) \/ MergeOf(s, t) = Conflicting
     THEN End(o) /\ UNCHANGED git
     ELSE /\ CommitOnto(o.on, MergeOf(s, t), <<t, s>>)
          /\ Follow(o, << <<"apply", runtime[o.on].revision, tip'[o.on]>> >>)
          /\ UNCHANGED initialized
  /\ degraded' = FALSE
  /\ UNCHANGED <<runtime, scheduled, expected>>

\* The runtime of the target takes the merge over.
ApplyMerge(o) ==
  /\ At(o, "apply")
  /\ runtime' = IF runtime[o.on].revision = Arg(o, 1)
                THEN [runtime EXCEPT ![o.on] =
                        [revision |-> Arg(o, 1) + 1,
                         document |-> commits[Arg(o, 2)].document,
                         anchor |-> Arg(o, 2)]]
                ELSE runtime
  /\ End(o)
  /\ UNCHANGED <<git, degraded, scheduled, expected>>

Step(o) ==
  \/ Load(o) \/ Admit(o) \/ Commit(o) \/ CommitLatest(o)
  \/ Checkpoint(o) \/ Anchor(o) \/ Reconcile(o) \/ LookUp(o) \/ Ref(o)
  \/ Recover(o) \/ Settle(o) \/ SettleRefused(o) \/ Query(o) \/ Cancel(o) \/ Preview(o)
  \/ AssertExpectation(o) \/ Merge(o) \/ ApplyMerge(o)
------------------------------------------------------------------------------
(***************************************************************************)
(* Failures.                                                               *)
(***************************************************************************)
\* A step fails before its effect, and so ends its operation; a step that
\* fails after its effect is one whose successor fails.  #recordFailure keeps
\* the failures of Git commands in mind.
Fail(o) ==
  /\ Failures
  /\ o \in running
  /\ End(o)
  /\ degraded' \in {degraded, TRUE}
  /\ UNCHANGED <<git, runtime, scheduled, expected>>

\* The first checkpoint makes the repository and then fails, or the daemon
\* dies before its commit.
InitializeOnly(o) ==
  /\ Failures
  /\ At(o, "checkpoint") /\ Arg(o, 1) = Main /\ ~initialized
  /\ initialized' = TRUE
  /\ End(o)
  /\ degraded' \in {degraded, TRUE}
  /\ UNCHANGED <<commits, tip, runtime, scheduled, expected>>

\* status, listBranches and history take no branch lock: they find Git out of
\* order, or forget that it was.
Browse ==
  /\ initialized
  /\ degraded' \in IF Failures THEN BOOLEAN ELSE {FALSE}
  /\ UNCHANGED <<git, runtime, scheduled, running, expected>>

\* Files stay; what the browser shows stays too.
Crash ==
  /\ Crashes
  /\ running' = {} /\ scheduled' = {}
  /\ degraded' = FALSE
  /\ UNCHANGED <<git, runtime, expected>>

\* A new branch called main is left out: it finds main there, as a retry does.
Requests ==
  \/ \E b \in Branches : GetCanvas(b) \/ ManualCheckpoint(b)
  \/ \E b \in Branches, c \in Commands :
       \/ \E base \in 0..runtime[b].revision : CommitCanvas(b, base, c)
       \/ c \notin Destructive /\ CommitLatestCanvas(b, c)
  \/ \E new \in Branches \ {Main}, from \in Branches :
       \/ Grow("create", new, from, Nothing)
       \/ \E k \in DOMAIN commits : Grow("restore", new, from, k)
       \/ \E d \in Documents : Grow("conflict", new, from, d)
  \/ \E source, target \in Branches : PreviewMerge(source, target)
  \/ ExecuteMerge

Next ==
  \/ Requests
  \/ \E b \in Branches : TimerCheckpoint(b)
  \/ \E o \in running : Step(o) \/ Fail(o) \/ InitializeOnly(o)
  \/ Browse
  \/ Crash

Spec == Init /\ [][Next]_vars
------------------------------------------------------------------------------
(***************************************************************************)
(* Properties.                                                             *)
(***************************************************************************)
History(b) == IF tip[b] = 0 THEN {} ELSE {commits[k].document : k \in Past(tip[b])}

\* Every variable has its type, and no branch has two operations.
TypeOK ==
  /\ initialized \in BOOLEAN /\ degraded \in BOOLEAN
  /\ \A k \in DOMAIN commits :
       /\ commits[k].document \in Documents
       /\ ToSet(commits[k].parents) \subseteq 1..k - 1
       /\ k \in Past(k) /\ Past(k) \subseteq 1..k
  /\ tip \in [Branches -> 0..Len(commits)]
  /\ runtime \in [Branches -> [revision : Nat, document : Documents,
                               anchor : 0..Len(commits)]]
  /\ scheduled \subseteq Branches
  /\ \A o \in running : o.locks = {o.on, o.from} /\ o.locks \subseteq Branches
                        /\ o.todo # <<>>
  /\ \A o, p \in running : o # p => o.locks \cap p.locks = {}

\* lastCheckpoint always names a commit of the branch's own history, whatever
\* failed or crashed between Git and the runtime store: reconciling, aligning
\* and merging all start from it.
AnchorInHistory ==
  \A b \in Branches : runtime[b].anchor # 0 =>
    tip[b] # 0 /\ runtime[b].anchor \in Past(tip[b])

\* What goes can be restored.  A destructive command takes effect only once the
\* very document it destroys is a checkpoint of the branch (CANVAS-PERSISTENCE.md:
\* a deletion that cannot be made recoverable fails closed), and where something
\* else than a command replaces the document, Git never overwrites runtime work.
NothingDestroyed ==
  [][ \A b \in Branches :
        /\ runtime'[b].document # runtime[b].document
        /\ \/ runtime[b].revision > 0 /\ ~\E o \in running : Commit(o) \/ CommitLatest(o)
           \/ \E o \in running :
                /\ At(o, "commit") /\ o \notin running'
                /\ Arg(o, 1) = b /\ Arg(o, 3) \in Destructive
        => runtime[b].document \in History(b) ]_vars

\* A merge commit joins exactly the two commits and revisions its client saw in
\* the preview it confirmed, and nothing of a later edit.
MergeAsPreviewed ==
  [][ \A b \in Branches :
        tip'[b] # tip[b] /\ tip'[b] \notin DOMAIN commits
          /\ Len(commits'[tip'[b]].parents) = 2 =>
        \E o \in running :
          /\ o.kind = "merge" /\ o.on = b
          /\ commits'[tip'[b]].parents = <<o.given.targetCommit, o.given.sourceCommit>>
          /\ runtime[b].revision = o.given.targetRevision
          /\ runtime[o.from].revision = o.given.sourceRevision ]_vars

\* A conflict that is reported as saved is what its branch shows and a document
\* of its history, whatever an earlier attempt left behind: the browser drops
\* its outbox next.
SavedIsRecovered ==
  [][ \A o \in running : o.kind = "conflict" /\ Settle(o) =>
        /\ runtime'[o.on].document = o.given
        /\ o.given \in History(o.on) ]_vars
==============================================================================
