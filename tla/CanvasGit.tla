------------------------------ MODULE CanvasGit ------------------------------
(***************************************************************************)
(* src/daemon/canvasGit.ts: CanvasGitStore keeps the history of a canvas   *)
(* in a repository with one linked worktree per branch.  It admits one     *)
(* operation at a time, but an operation is a series of Git commands and   *)
(* file writes over refs, worktrees and their indexes.  Any of them may    *)
(* fail before or after it took effect (a timeout kills Git late), and the *)
(* daemon may crash between any two: what is left is found by the next     *)
(* operation, in this daemon or the next.                                  *)
(*                                                                         *)
(* An operation is a record with the place it has come to ("at"); what it  *)
(* found when it began is kept in "was" for the properties.  A command     *)
(* that only reads fails like the one that follows it, and a request that  *)
(* is refused before it changes anything is no step.                       *)
(*                                                                         *)
(* Not modelled: lock files that a killed Git leaves behind; files that    *)
(* something else puts into a worktree; a path that is no directory or a   *)
(* symbolic link; invalid names; commits made by another program.          *)
(***************************************************************************)
EXTENDS Naturals, SequencesExt

CONSTANTS
  Branches,     \* the branch names in use
  Main,         \* "main", whose worktree is the repository itself
  Documents,    \* the documents a canvas can have
  Given,        \* those that a checkpoint is asked for
  Conflicting,  \* a merge left conflicts
  Invalid,      \* a merge is clean but no document
  Merging,      \* [base \X target \X source -> what Git makes of them]
  Part,         \* a snapshot that is only partly written
  Nothing,      \* no file, no worktree, no operation
  Preview,      \* the detached worktree of the latest preview
  MaxCommits,   \* bound: with so many no checkpoint begins, with more no merge
  MaxFaults     \* bound: commands that fail and daemons that crash

ASSUME GitAssumption ==
  /\ Main \in Branches /\ Preview \notin Branches
  /\ Given \subseteq Documents
  /\ {Conflicting, Invalid, Part, Nothing} \cap Documents = {}
  /\ Conflicting # Invalid
  /\ Merging \in [Documents \X Documents \X Documents ->
                    Documents \cup {Conflicting, Invalid}]
  /\ MaxCommits \in Nat /\ MaxFaults \in Nat

Places == Branches \cup {Preview}

\* What the index or the files of a worktree can be.
Contents == Documents \cup {Conflicting, Invalid, Part, Nothing}

Worktrees == [index : Contents, files : Contents, merging : Nat, locked : BOOLEAN]

Kinds == {"checkpoint", "create", "restore", "preview", "merge"}
Results == {"done", "refused", "failed", "conflicts"}
Faults == {"none", "early", "late", "clean-up", "several"}
Steps ==
  {"clear", "write", "add", "commit", "answer", "committed", "restore",
   "lock", "list", "unlock", "remove", "delete", "merge", "abort", "verify", "thrown"}

\* The operations; what each is given is a document or a commit.
Operations(given) ==
  [kind : Kinds, on : Branches, from : Branches, given : given,
   at : Steps, result : Results, fault : Faults, hadHead : BOOLEAN, locked : BOOLEAN,
   was : [heads : [Branches -> Nat], trees : [Places -> Worktrees \cup {Nothing}]]]

\* "Nothing" stands for no worktree and no operation too.
ASSUME NothingAssumption ==
  /\ Nothing \notin Worktrees
  /\ Nothing \notin Operations(Documents) /\ Nothing \notin Operations(Nat)

VARIABLES
  initialized,  \* git init was run
  commits,      \* as in CanvasHistory
  heads,        \* refs/heads/<branch>, 0 where there is none
  trees,        \* the worktrees: index, files, MERGE_HEAD and lock
  degraded,     \* #degraded
  op,           \* the operation that #runExclusive has admitted
  faults

disk == <<initialized, commits, heads, trees>>
vars == <<disk, degraded, op, faults>>

History == INSTANCE CanvasHistory WITH tip <- heads

Worktree(content, locked) ==
  [index |-> content, files |-> content, merging |-> 0, locked |-> locked]

Init ==
  /\ initialized = FALSE
  /\ commits = <<>>
  /\ heads = [b \in Branches |-> 0]
  /\ trees = [p \in Places |-> IF p = Main THEN Worktree(Nothing, FALSE) ELSE Nothing]
  /\ degraded = FALSE
  /\ op = Nothing
  /\ faults = 0

\* What a clean worktree holds.
Content(k) == IF k = 0 THEN Nothing ELSE commits[k].document

Exists(b) == heads[b] # 0

\* #assertCheckpointReady, #assertCleanWorktree: git status has nothing to say.
Clean(p, k) ==
  trees[p].index = Content(k) /\ trees[p].files = Content(k)

\* The worktree the operation works in, and the commit checked out there.
Place == IF op.kind = "preview" THEN Preview ELSE op.on
HEAD == heads[op.on]
------------------------------------------------------------------------------
(***************************************************************************)
(* Operations and their commands.                                          *)
(***************************************************************************)
Idle == op = Nothing

\* An operation whose reads came out well goes on to its first command.
Begin(kind, on, from, given, at, result) ==
  /\ Idle
  /\ op' = [kind |-> kind, on |-> on, from |-> from, given |-> given,
            at |-> at, result |-> result, fault |-> "none",
            hadHead |-> Exists(on), locked |-> FALSE,
            was |-> [heads |-> heads, trees |-> trees]]
  /\ UNCHANGED <<commits, heads, trees, degraded, faults>>

At(kinds, at) == op # Nothing /\ op.kind \in kinds /\ op.at = at

Goto(at) == op' = [op EXCEPT !.at = at]

\* An error that is not a command's.
Refuse(catch) == op' = [op EXCEPT !.at = catch, !.result = "refused"]

\* The operation returns; most forget an earlier failure then.
Return(forget) ==
  /\ op' = Nothing
  /\ degraded' = (degraded /\ ~forget)

\* It throws; #recordFailure notes the failure of a command.
Throw ==
  /\ op' = Nothing
  /\ degraded' = (degraded \/ op.result = "failed")

\* Whatever fails while the code cleans up after itself.
InCleanUp ==
  \/ op.at \in {"restore", "verify", "unlock", "remove", "delete"}
  \/ op.at = "abort" /\ (op.kind = "preview" \/ op.result # "conflicts")

Blame(fault) ==
  IF op.fault # "none" THEN "several" ELSE IF InCleanUp THEN "clean-up" ELSE fault

Caught(catch, fault) ==
  op' = [op EXCEPT !.at = catch, !.fault = Blame(fault),
                   !.result = IF @ = "refused" THEN @ ELSE "failed"]

\* A command fails, before or after it took effect.
Fails(Effect, catch) ==
  /\ faults < MaxFaults
  /\ faults' = faults + 1
  /\ \/ UNCHANGED disk /\ Caught(catch, "early")
     \/ Effect /\ Caught(catch, "late")
  /\ UNCHANGED degraded

Works(Effect, next) == Effect /\ Goto(next) /\ UNCHANGED <<degraded, faults>>

Command(Effect, next, catch) == Works(Effect, next) \/ Fails(Effect, catch)

Thrown ==
  /\ op # Nothing /\ op.at = "thrown"
  /\ Throw
  /\ UNCHANGED <<disk, faults>>

SetTree(p, tree) ==
  /\ trees' = [trees EXCEPT ![p] = tree]
  /\ UNCHANGED <<initialized, commits, heads>>

\* git commit: MERGE_HEAD becomes the second parent.
CommitIndex ==
  LET tree == trees[op.on]
      parents == (IF HEAD = 0 THEN <<>> ELSE <<HEAD>>)
                 \o (IF tree.merging = 0 THEN <<>> ELSE <<tree.merging>>)
  IN /\ commits' = Append(commits, History!NewCommit(tree.index, parents))
     /\ heads' = [heads EXCEPT ![op.on] = Len(commits) + 1]
     /\ trees' = [trees EXCEPT ![op.on].merging = 0]
     /\ UNCHANGED initialized
------------------------------------------------------------------------------
(***************************************************************************)
(* checkpoint                                                              *)
(***************************************************************************)
\* #ensureInitialized and #worktreeForBranch.
HasWorktree(b) == IF Exists(b) THEN trees[b] # Nothing ELSE b = Main

Checkpoint(b, document) ==
  /\ Len(commits) < MaxCommits
  /\ HasWorktree(b) /\ Clean(b, heads[b])
  /\ Begin("checkpoint", b, b, document, "clear", "done")
  /\ initialized' = TRUE

\* Mutant: the worktree is looked at before the try block.
RefuseOnly(b, document) ==
  /\ Len(commits) < MaxCommits
  /\ HasWorktree(b) /\ ~Clean(b, heads[b])
  /\ Begin("checkpoint", b, b, document, "thrown", "refused")
  /\ initialized' = TRUE

\* A worktree that is not clean refuses the checkpoint, which goes through
\* the catch clause like any other error.
RefuseDirty(b, document) ==
  /\ Len(commits) < MaxCommits
  /\ HasWorktree(b) /\ ~Clean(b, heads[b])
  /\ Begin("checkpoint", b, b, document, "restore", "refused")
  /\ initialized' = TRUE

\* #writeSnapshot removes what is there and writes file by file.
ClearSnapshot ==
  /\ At({"checkpoint"}, "clear")
  /\ Command(SetTree(op.on, [trees[op.on] EXCEPT !.files = Part]), "write", "restore")

WriteSnapshot ==
  /\ At({"checkpoint"}, "write")
  /\ Command(SetTree(op.on, [trees[op.on] EXCEPT !.files = op.given]), "add", "restore")

AddSnapshot ==
  /\ At({"checkpoint"}, "add")
  /\ Command(SetTree(op.on, [trees[op.on] EXCEPT !.index = trees[op.on].files]),
             "commit", "restore")

\* Without a change there is nothing to commit, except the first time.
Changed == trees[op.on].index # Content(HEAD)

CommitSnapshot ==
  /\ At({"checkpoint"}, "commit")
  /\ \/ ~Changed /\ Works(UNCHANGED disk, "answer")
     \/ Changed /\ Works(CommitIndex, "committed")
     \/ Changed /\ Fails(CommitIndex, "restore")

\* rev-parse tells the commit that the operation answers with.
AnswerCheckpoint ==
  /\ At({"checkpoint"}, "answer") \/ At({"checkpoint"}, "committed")
  /\ \/ Return(TRUE) /\ UNCHANGED faults
     \/ /\ faults < MaxFaults /\ faults' = faults + 1
        /\ Caught(IF op.at = "committed" THEN "thrown" ELSE "restore", "late")
        /\ UNCHANGED degraded
  /\ UNCHANGED disk

\* #restoreFailedCheckpoint: reset --hard and clean; in an empty repository
\* rm --cached and the removal of the files.  If it fails, so be it.
Restored ==
  SetTree(op.on, [trees[op.on] EXCEPT
                    !.index = IF op.hadHead THEN Content(HEAD) ELSE Nothing,
                    !.files = IF op.hadHead THEN Content(HEAD) ELSE Nothing,
                    !.merging = IF op.hadHead THEN 0 ELSE @])

RestoreCheckpoint ==
  /\ At({"checkpoint"}, "restore")
  /\ Command(Restored, "thrown", "thrown")
------------------------------------------------------------------------------
(***************************************************************************)
(* createBranch and restoreAsNewBranch                                     *)
(***************************************************************************)
\* createBranch from the tip of a branch or from any commit
CreateBranch(b, k) ==
  /\ initialized /\ Exists(Main) /\ ~Exists(b)
  /\ Begin("create", b, b, k, "add", "done")
  /\ UNCHANGED initialized

\* restoreAsNewBranch from a commit of the source branch
RestoreAsNewBranch(b, source, k) ==
  /\ initialized /\ Exists(source) /\ ~Exists(b)
  /\ k \in History!Past(heads[source])
  /\ Begin("restore", b, source, k, "add", "done")
  /\ UNCHANGED initialized

SetHead(k) ==
  /\ heads' = [heads EXCEPT ![op.on] = k]
  /\ UNCHANGED <<initialized, commits>>

Added ==
  /\ SetHead(op.given)
  /\ trees' = [trees EXCEPT ![op.on] = Worktree(Content(op.given), FALSE)]

\* worktree add -b: killed in between it leaves the branch alone.
AddBranch ==
  /\ At({"create", "restore"}, "add")
  /\ \/ Command(Added, "lock", "thrown")
     \/ /\ faults < MaxFaults /\ faults' = faults + 1
        /\ SetHead(op.given) /\ UNCHANGED trees
        /\ Caught("thrown", "late")
        /\ UNCHANGED degraded

Locked == SetTree(Place, [trees[Place] EXCEPT !.locked = TRUE])
Unlocked == SetTree(Place, [trees[Place] EXCEPT !.locked = FALSE])

LockBranch ==
  /\ At({"create", "restore"}, "lock")
  /\ Command(Locked, "list", "remove")

\* The new worktree is among those that Git lists.
ListBranch ==
  /\ At({"create", "restore"}, "list")
  /\ \/ Return(TRUE) /\ UNCHANGED faults
     \/ /\ faults < MaxFaults /\ faults' = faults + 1
        /\ Caught("unlock", "early")
        /\ UNCHANGED degraded
  /\ UNCHANGED disk

\* Mutant: a locked worktree is thought to go with --force.
UnlockSkipped ==
  /\ At({"create", "restore"}, "unlock")
  /\ Works(UNCHANGED disk, "remove")

\* The rollback goes on whatever fails in it.
UnlockBranch ==
  /\ At({"create", "restore"}, "unlock")
  /\ Command(Unlocked, "remove", "remove")

\* With one --force Git does not remove a locked worktree, ...
RemoveBranch ==
  /\ At({"create", "restore"}, "remove")
  /\ \/ trees[op.on].locked /\ Works(UNCHANGED disk, "delete")
     \/ ~trees[op.on].locked /\ Command(SetTree(op.on, Nothing), "delete", "delete")

\* ... nor does it delete a branch that is checked out.
DeleteBranch ==
  /\ At({"create", "restore"}, "delete")
  /\ \/ trees[op.on] # Nothing /\ Works(UNCHANGED disk, "thrown")
     \/ trees[op.on] = Nothing /\ Command(SetHead(0) /\ UNCHANGED trees, "thrown", "thrown")
------------------------------------------------------------------------------
(***************************************************************************)
(* previewMerge and merge                                                  *)
(***************************************************************************)
\* #mergeMetadata; with equal tips there is nothing to do.
Mergeable(target, source) ==
  /\ initialized /\ Exists(Main) /\ Exists(target) /\ Exists(source)
  /\ heads[source] # heads[target]

PreviewMerge(target, source) ==
  /\ Mergeable(target, source)
  /\ Begin("preview", target, source, 0, "add", "done")
  /\ UNCHANGED initialized

Merge(target, source) ==
  /\ Len(commits) <= MaxCommits
  /\ Mergeable(target, source)
  /\ HasWorktree(target) /\ Clean(target, heads[target])
  /\ Begin("merge", target, source, 0, "merge", "done")
  /\ UNCHANGED initialized

\* #withPreviewWorktree: worktree add --detach, lock, and in the end the
\* steps from "abort" on.
AddPreview ==
  /\ At({"preview"}, "add")
  /\ Command(SetTree(Preview, Worktree(Content(HEAD), FALSE)), "lock", "thrown")

LockPreview ==
  /\ At({"preview"}, "lock")
  /\ \/ /\ Locked
        /\ op' = [op EXCEPT !.at = "merge", !.locked = TRUE]
        /\ UNCHANGED <<degraded, faults>>
     \/ Fails(Locked, "abort")

\* #attemptMerge: git merge --no-commit --no-ff, and what it made.
Source == heads[op.from]
MergeResult == History!MergeOf(Source, HEAD)
UpToDate == Source \in History!Past(HEAD)

Attempted ==
  SetTree(Place, [trees[Place] EXCEPT !.index = MergeResult, !.files = MergeResult,
                                      !.merging = Source])

\* A merge that is still going on makes Git refuse another.
AttemptRefused ==
  /\ At({"merge"}, "merge")
  /\ trees[Place].merging # 0
  /\ op' = [op EXCEPT !.at = "abort", !.result = "failed"]
  /\ UNCHANGED <<disk, degraded, faults>>

AttemptUpToDate ==
  /\ At({"preview", "merge"}, "merge")
  /\ trees[Place].merging = 0 /\ UpToDate
  /\ IF op.kind = "merge" THEN Return(FALSE) ELSE Goto("abort") /\ UNCHANGED degraded
  /\ UNCHANGED <<disk, faults>>

\* Mutant: a merge without conflicts is taken for a document.
OutcomeUnread == IF MergeResult = Conflicting THEN "conflicts" ELSE "done"

Outcome ==
  CASE MergeResult = Conflicting -> "conflicts"
    [] MergeResult = Invalid -> "refused"
    [] MergeResult \in Documents -> "done"

AttemptMerge ==
  /\ At({"preview", "merge"}, "merge")
  /\ trees[Place].merging = 0 /\ ~UpToDate
  /\ \/ /\ Attempted
        /\ op' = [op EXCEPT !.at = IF op.kind = "merge" /\ Outcome = "done"
                                   THEN "commit" ELSE "abort",
                            !.result = Outcome]
        /\ UNCHANGED <<degraded, faults>>
     \/ Fails(Attempted, "abort")

CommitMerge ==
  /\ At({"merge"}, "commit")
  /\ Command(CommitIndex, "answer", "abort")

AnswerMerge ==
  /\ At({"merge"}, "answer")
  /\ \/ Return(TRUE) /\ UNCHANGED faults
     \/ /\ faults < MaxFaults /\ faults' = faults + 1
        /\ Caught("abort", "late")
        /\ UNCHANGED degraded
  /\ UNCHANGED disk

\* #abortMergeIfNeeded.  When it fails after conflicts, merge tries it again
\* in its catch clause, where a failure counts for nothing.
Aborted ==
  IF trees[Place].merging = 0 THEN UNCHANGED disk
  ELSE SetTree(Place, Worktree(Content(HEAD), trees[Place].locked))

AbortMerge ==
  /\ At({"preview", "merge"}, "abort")
  /\ Command(Aborted, "verify",
             IF op.kind = "preview" THEN "thrown"
             ELSE IF op.result = "conflicts" THEN "abort" ELSE "verify")

\* #assertCleanWorktree
VerifyMerge ==
  /\ At({"merge"}, "verify")
  /\ IF ~Clean(op.on, HEAD) THEN Refuse("thrown") /\ UNCHANGED degraded
     ELSE IF op.result = "conflicts" THEN Return(FALSE)
     ELSE Goto("thrown") /\ UNCHANGED degraded
  /\ UNCHANGED <<disk, faults>>

VerifyPreview ==
  /\ At({"preview"}, "verify")
  /\ IF ~Clean(Preview, HEAD) THEN Refuse("thrown")
     ELSE Goto(IF op.locked THEN "unlock" ELSE "remove")
  /\ UNCHANGED <<disk, degraded, faults>>

UnlockPreview ==
  /\ At({"preview"}, "unlock")
  /\ Command(Unlocked, "remove", "thrown")

\* A failure before makes the whole fail; conflicts are an answer.
RemovePreview ==
  /\ At({"preview"}, "remove")
  /\ \/ /\ trees[Preview].locked
        /\ op' = [op EXCEPT !.at = "thrown", !.result = "failed"]
        /\ UNCHANGED <<disk, degraded, faults>>
     \/ /\ ~trees[Preview].locked
        /\ Command(SetTree(Preview, Nothing),
                   IF op.result \in {"done", "conflicts"} THEN "answer" ELSE "thrown",
                   "thrown")

AnswerPreview ==
  /\ At({"preview"}, "answer")
  /\ Return(TRUE)
  /\ UNCHANGED <<disk, faults>>
------------------------------------------------------------------------------
\* readDocument, listWorktrees, listBranches, recoverableMergeTip, history and
\* the reads at the beginning of the others leave everything as it is, and so
\* does a request that is refused for what they find; but they tell whether
\* Git works.
Read ==
  /\ Idle /\ initialized
  /\ degraded' = FALSE
  /\ UNCHANGED <<disk, op, faults>>

ReadFails ==
  /\ Idle /\ initialized
  /\ faults < MaxFaults /\ faults' = faults + 1
  /\ degraded' = TRUE
  /\ UNCHANGED <<disk, op>>

\* status, which forgets a failure as long as there is no repository
Inspect ==
  /\ Idle
  /\ \/ degraded' = (degraded /\ initialized) /\ UNCHANGED faults
     \/ /\ faults < MaxFaults /\ faults' = faults + 1
        /\ degraded' = TRUE
  /\ UNCHANGED <<disk, op>>

\* The daemon dies, and the next one opens the store.
Crash ==
  /\ op # Nothing
  /\ faults < MaxFaults /\ faults' = faults + 1
  /\ op' = Nothing
  /\ degraded' = FALSE
  /\ UNCHANGED disk

Request ==
  \/ \E b \in Branches, d \in Given : Checkpoint(b, d) \/ RefuseDirty(b, d)
  \/ \E b \in Branches, k \in DOMAIN commits : CreateBranch(b, k)
  \/ \E b, c \in Branches, k \in DOMAIN commits : RestoreAsNewBranch(b, c, k)
  \/ \E b, c \in Branches : PreviewMerge(b, c) \/ Merge(b, c)

Next ==
  \/ Request \/ Thrown
  \/ ClearSnapshot \/ WriteSnapshot \/ AddSnapshot
  \/ CommitSnapshot \/ AnswerCheckpoint \/ RestoreCheckpoint
  \/ AddBranch \/ LockBranch \/ ListBranch
  \/ UnlockBranch \/ RemoveBranch \/ DeleteBranch
  \/ AddPreview \/ LockPreview
  \/ AttemptRefused \/ AttemptUpToDate \/ AttemptMerge \/ CommitMerge \/ AnswerMerge
  \/ AbortMerge \/ VerifyMerge \/ VerifyPreview
  \/ UnlockPreview \/ RemovePreview \/ AnswerPreview
  \/ Read \/ ReadFails \/ Inspect \/ Crash

Spec == Init /\ [][Next]_vars
------------------------------------------------------------------------------
Commits == [document : Documents, parents : Seq(Nat), past : SUBSET Nat]

TypeOK ==
  /\ initialized \in BOOLEAN /\ degraded \in BOOLEAN
  /\ commits \in Seq(Commits)
  /\ heads \in [Branches -> 0..Len(commits)]
  /\ trees \in [Places -> Worktrees \cup {Nothing}]
  /\ op # Nothing => op \in Operations(IF op.kind = "checkpoint" THEN Documents ELSE Nat)
  /\ faults \in 0..MaxFaults

\* The operation ends, and not by a crash.
Ends == op # Nothing /\ op' = Nothing /\ faults' = faults

\* An operation that fails or is refused, with at most one command failing
\* and that without effect, leaves every branch where it was.  Whether it
\* fails or not, the worktrees are as before or clean, and that of a preview
\* is gone.
LeavesOrder ==
  [][Ends /\ op.fault \in {"none", "early"} =>
       /\ op.result # "done" => heads = op.was.heads
       /\ \A b \in Branches \ {op.on} : trees[b] = op.was.trees[b]
       /\ trees[op.on] # op.was.trees[op.on] =>
            Clean(op.on, HEAD) /\ (op.result # "done" => trees[op.on].merging = 0)
       /\ op.kind = "preview" =>
            heads = op.was.heads /\ trees[Preview] \in {Nothing, op.was.trees[Preview]}]_vars

\* A crash, or Git killed by its timeout, can leave half a checkpoint or half
\* a merge in a worktree.  A checkpoint that is refused for it puts the
\* worktree in order, so that the next one is not.
RefusalRepairs ==
  [][Ends /\ op.kind = "checkpoint" /\ op.result # "done" /\ op.fault = "none" =>
       (HasWorktree(op.on) => Clean(op.on, HEAD) /\ trees[op.on].merging = 0)]_vars

\* The branch that is being created is nobody's until the operation ends.
Visible ==
  [b \in Branches |->
     IF op # Nothing /\ op.kind \in {"create", "restore"} /\ b = op.on
     THEN op.was.heads[b] ELSE heads[b]]

Implements == INSTANCE CanvasHistory WITH tip <- Visible

\* Whatever fails or crashes, the store keeps the promises of CanvasHistory:
\* no half-written snapshot, no conflict and no invalid merge is ever
\* committed, and no branch moves but forward.
ImplementsHistory == Implements!Spec
==============================================================================
