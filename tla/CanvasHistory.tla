---------------------------- MODULE CanvasHistory ----------------------------
(***************************************************************************)
(* What the Git history of a canvas (src/daemon/canvasGit.ts) promises to  *)
(* the code that uses it, whatever fails in the course of an operation:    *)
(* commits are only ever added, a branch appears at a commit that is       *)
(* already part of another, and moves on only by one commit on top of its  *)
(* tip, which holds a whole document.  WorkspaceVersioning relies on it.   *)
(***************************************************************************)
EXTENDS Naturals, SequencesExt

CONSTANTS
  Branches,     \* the branch names in use
  Main,         \* "main"
  Documents,    \* the documents a canvas can have
  Conflicting,  \* Git could not merge two documents
  Invalid,      \* what it merged is no document
  Merging       \* [base \X target \X source -> what Git makes of them]

VARIABLES
  commits,  \* a commit is its document, its parents and all its ancestors
  tip       \* the commit of each branch, 0 where there is none

vars == <<commits, tip>>

Past(k) == commits[k].past

NewCommit(document, parents) ==
  [document |-> document, parents |-> parents,
   past |-> (UNION {Past(p) : p \in ToSet(parents)}) \cup {Len(commits) + 1}]

\* What git merge makes of commit s on top of commit t.
MergeBase(s, t) ==
  CHOOSE k \in Past(s) \cap Past(t) : \A j \in Past(s) \cap Past(t) : j <= k

MergeOf(s, t) ==
  Merging[commits[MergeBase(s, t)].document, commits[t].document, commits[s].document]

Init ==
  /\ commits = <<>>
  /\ tip = [b \in Branches |-> 0]

CommitOnto(b, document, parents) ==
  /\ tip' = [tip EXCEPT ![b] = Len(commits) + 1]
  /\ commits' = Append(commits, NewCommit(document, parents))

\* The first checkpoint, of main.
Root(document) ==
  /\ commits = <<>>
  /\ CommitOnto(Main, document, <<>>)

Checkpoint(b, document) ==
  /\ tip[b] # 0
  /\ CommitOnto(b, document, <<tip[b]>>)
  /\ document # commits[tip[b]].document

Branch(b, k) ==
  /\ UNCHANGED commits
  /\ tip[b] = 0 /\ tip' = [tip EXCEPT ![b] = k]
  /\ \E c \in Branches : tip[c] # 0 /\ k \in Past(tip[c])

Merge(b, s) ==
  /\ tip[b] # 0
  /\ CommitOnto(b, MergeOf(s, tip[b]), <<tip[b], s>>)
  /\ s \notin Past(tip[b])
  /\ MergeOf(s, tip[b]) \in Documents

\* A checkpoint is recorded as the end of a merge that was interrupted; the
\* merge itself changed nothing.
Conclude(b, s, document) ==
  /\ tip[b] # 0
  /\ CommitOnto(b, document, <<tip[b], s>>)
  /\ s \notin Past(tip[b])
  /\ MergeOf(s, tip[b]) = commits[tip[b]].document

Next ==
  \/ \E d \in Documents : Root(d)
  \/ \E b \in Branches, d \in Documents : Checkpoint(b, d)
  \/ \E b \in Branches, k \in DOMAIN commits : Branch(b, k)
  \/ \E b \in Branches, s \in DOMAIN commits : Merge(b, s)
  \/ \E b \in Branches, s \in DOMAIN commits, d \in Documents : Conclude(b, s, d)

Spec == Init /\ [][Next]_vars
==============================================================================
