---------------------------- MODULE CanvasGitProofs ----------------------------
(***************************************************************************)
(* Theorems about CanvasGit, for any number of branches, documents, faults *)
(* and commits: whatever fails or crashes, the repository implements       *)
(* CanvasHistory; an operation that ends in good order leaves good order   *)
(* behind; and a checkpoint that is refused repairs what it found.         *)
(***************************************************************************)
EXTENDS CanvasGit, TLAPS, WellFoundedInduction

Past(k) == commits[k].past

\* MergeOf of CanvasHistory, with the commits it depends on.
MergeBaseIn(cs, s, t) ==
    CHOOSE k \in cs[s].past \cap cs[t].past : \A j \in cs[s].past \cap cs[t].past : j <= k

MergeIn(cs, s, t) ==
    Merging[cs[MergeBaseIn(cs, s, t)].document, cs[t].document, cs[s].document]

Commit(document, parents) ==
    [document |-> document, parents |-> parents,
     past |-> (UNION {Past(p) : p \in ToSet(parents)}) \cup {Len(commits) + 1}]

\* Commits know their past, which has one root, and main is there first.
Whole ==
    /\ \A k \in DOMAIN commits : k \in Past(k) /\ 1 \in Past(k) /\ Past(k) \subseteq 1..k
    /\ heads[Main] = 0 => commits = <<>>

\* A merge that an index still waits for: what is staged is what Git made of
\* it, unless it changed nothing and something else was staged since.
Pending(b, tree) ==
    /\ heads[b] # 0
    /\ tree.merging \in DOMAIN commits
    /\ tree.merging \notin Past(heads[b])
    /\ \/ MergeIn(commits, tree.merging, heads[b]) = Content(heads[b])
       \/ tree.index = MergeIn(commits, tree.merging, heads[b])

\* What can be in a worktree.
Sound(p, tree) ==
    /\ p = Main => tree # Nothing
    /\ p \in Branches \ {Main} => (heads[p] = 0 => tree = Nothing)
    /\ p \in Branches => (tree # Nothing => (tree.merging # 0 => Pending(p, tree)))

Trees == \A p \in Places : Sound(p, trees[p])

\* Every commit is part of a branch.
Reached ==
    \A k \in DOMAIN commits : \E c \in Branches : Visible[c] # 0 /\ k \in Past(Visible[c])

\* The operation touches one branch and one worktree.
Elsewhere ==
    /\ \A b \in Branches : b # op.on => heads[b] = op.was.heads[b]
    /\ \A p \in Places : p # Place => trees[p] = op.was.trees[p]

Unmoved == HEAD = op.was.heads[op.on]

\* At most one command has failed, and that without effect.
Mild == op.fault \in {"none", "early"}

Tidy == Clean(op.on, HEAD) /\ trees[op.on].merging = 0

CheckpointCourse ==
    /\ op.at \in {"clear", "write", "add", "commit", "answer", "committed", "restore", "thrown"}
    /\ HEAD # 0 \/ op.on = Main
    /\ trees[op.on] # Nothing
    /\ op.hadHead = (op.was.heads[op.on] # 0)
    /\ ~op.hadHead => trees[op.on].merging = 0
    /\ op.at \notin {"restore", "thrown"} => op.result = "done"
    /\ op.at \in {"clear", "write", "add", "commit"} =>
         /\ Unmoved
         /\ trees[op.on].merging # 0 =>
              MergeIn(commits, trees[op.on].merging, HEAD) = Content(HEAD)
    /\ op.at \in {"add", "commit"} => trees[op.on].files = op.given
    /\ op.at = "commit" => trees[op.on].index = op.given
    /\ op.at \in {"answer", "committed"} => Clean(op.on, HEAD)
    /\ op.at \in {"restore", "thrown"} => (Mild => Unmoved)
    /\ op.at = "thrown" => (Mild => Tidy)

BranchCourse ==
    /\ op.at \in {"add", "lock", "list", "unlock", "remove", "delete", "thrown"}
    /\ op.on # Main /\ op.was.heads[op.on] = 0 /\ op.was.trees[op.on] = Nothing
    /\ op.given \in DOMAIN commits
    /\ HEAD \in {0, op.given}
    /\ op.at = "add" => HEAD = 0 /\ trees[op.on] = Nothing /\ op.result = "done"
    /\ op.at \in {"lock", "list"} => op.result = "done" /\ Clean(op.on, HEAD)
    /\ op.at \in {"lock", "list", "unlock", "remove"} =>
         HEAD = op.given /\ trees[op.on] # Nothing
    /\ op.at = "lock" => ~trees[op.on].locked
    /\ op.at = "remove" => (Mild => ~trees[op.on].locked)
    /\ op.at = "delete" => (Mild => trees[op.on] = Nothing)
    /\ op.at = "thrown" => (Mild => HEAD = 0 /\ trees[op.on] = Nothing)

PreviewCourse ==
    /\ op.at \in {"add", "lock", "merge", "abort", "verify", "unlock", "remove",
                  "thrown", "answer"}
    /\ HEAD # 0 /\ Source # 0 /\ Unmoved
    /\ op.at = "add" => trees[Preview] = op.was.trees[Preview]
    /\ op.at \in {"lock", "merge", "abort", "verify", "unlock", "remove"} =>
         trees[Preview] # Nothing
    /\ op.at \in {"lock", "merge"} => Clean(Preview, HEAD) /\ trees[Preview].merging = 0
    /\ op.at = "lock" => ~trees[Preview].locked
    /\ op.at = "merge" => op.locked
    /\ op.at = "abort" => (Mild /\ trees[Preview].merging = 0 => Clean(Preview, HEAD))
    /\ op.at = "verify" => (Mild => Clean(Preview, HEAD))
    /\ op.at \in {"abort", "verify"} => (Mild /\ ~op.locked => ~trees[Preview].locked)
    /\ op.at = "remove" => (Mild => ~trees[Preview].locked)
    /\ op.at \in {"thrown", "answer"} =>
         (Mild => trees[Preview] \in {Nothing, op.was.trees[Preview]})

MergeCourse ==
    /\ op.at \in {"merge", "commit", "answer", "abort", "verify", "thrown"}
    /\ HEAD # 0 /\ Source # 0 /\ trees[op.on] # Nothing
    /\ op.at = "merge" => trees[op.on] = op.was.trees[op.on] /\ Clean(op.on, HEAD)
    /\ op.at \in {"merge", "commit"} => Unmoved
    /\ op.at = "commit" =>
         /\ op.result = "done"
         /\ trees[op.on].merging # 0
         /\ trees[op.on].index = MergeIn(commits, trees[op.on].merging, HEAD)
         /\ trees[op.on].files = trees[op.on].index
         /\ trees[op.on].index \in Documents
    /\ op.at = "answer" => Clean(op.on, HEAD) /\ op.result = "done"
    /\ op.at \in {"abort", "verify", "thrown"} => (Mild => Unmoved)
    /\ op.at = "abort" => (Mild /\ trees[op.on].merging = 0 => Clean(op.on, HEAD))
    /\ op.at \in {"verify", "thrown"} => (Mild => Tidy)

\* What the operation can rely on where it has come to.
Course ==
    /\ op.kind = "checkpoint" => CheckpointCourse
    /\ op.kind \in {"create", "restore"} => BranchCourse
    /\ op.kind = "preview" => PreviewCourse
    /\ op.kind = "merge" => MergeCourse

IInv == TypeOK /\ Whole /\ Trees /\ Reached /\ (op # Nothing => Elsewhere /\ Course)
-----------------------------------------------------------------------------
(* Commits *)

LEMMA HasGreatest ==
    ASSUME NEW n \in Nat, NEW S \in SUBSET (0..n), S # {}
    PROVE  \E k \in S : \A j \in S : j <= k
<1> DEFINE T == {n - k : k \in S}
<1>1. T \subseteq Nat /\ T # {}
    <2>1. ASSUME NEW k \in S PROVE n - k \in Nat  OBVIOUS
    <2> QED BY <2>1
<1> DEFINE R == OpToRel(<, Nat)
<1>2. PICK x \in T : \A y \in T : ~(<<y, x>> \in R)
    BY <1>1, NatLessThanWellFounded, WFMin, Zenon
<1>3. \A y \in T : ~(y < x)  BY <1>1, <1>2 DEF OpToRel
<1>4. PICK k \in S : x = n - k  OBVIOUS
<1>5. ASSUME NEW j \in S PROVE j <= k
    <2>1. n - j \in T  OBVIOUS
    <2>2. ~(n - j < n - k)  BY <2>1, <1>3, <1>4
    <2> HIDE DEF T
    <2> QED BY <2>2
<1> QED BY <1>4, <1>5

LEMMA ParentsOf ==
    /\ ToSet(<<>>) = {}
    /\ \A a : ToSet(<<a>>) = {a}
    /\ \A a, b : ToSet(<<a, b>>) = {a, b}
<1>1. ToSet(<<>>) = {}  BY DEF ToSet
<1>2. ASSUME NEW a PROVE ToSet(<<a>>) = {a}  BY DEF ToSet
<1>3. ASSUME NEW a, NEW b PROVE ToSet(<<a, b>>) = {a, b}
    <2>1. DOMAIN <<a, b>> = {1, 2}  OBVIOUS
    <2>2. <<a, b>>[1] = a /\ <<a, b>>[2] = b  OBVIOUS
    <2> QED BY <2>1, <2>2 DEF ToSet
<1> QED BY <1>1, <1>2, <1>3

LEMMA SameHistory ==
    /\ \A s, t : History!MergeOf(s, t) = MergeIn(commits, s, t)
    /\ \A s, t : Implements!MergeOf(s, t) = MergeIn(commits, s, t)
    /\ \A d, ps : History!NewCommit(d, ps) = Commit(d, ps)
    /\ \A d, ps : Implements!NewCommit(d, ps) = Commit(d, ps)
    /\ \A k : Implements!Past(k) = Past(k) /\ History!Past(k) = Past(k)
<1>1. \A k : Implements!Past(k) = Past(k) /\ History!Past(k) = Past(k)
    BY DEF Implements!Past, History!Past, Past
<1>2. ASSUME NEW s, NEW t
      PROVE  /\ History!MergeBase(s, t) = MergeBaseIn(commits, s, t)
             /\ Implements!MergeBase(s, t) = MergeBaseIn(commits, s, t)
    BY Zenon DEF History!MergeBase, Implements!MergeBase, MergeBaseIn, History!Past, Implements!Past
<1>3. ASSUME NEW s, NEW t
      PROVE  /\ History!MergeOf(s, t) = MergeIn(commits, s, t)
             /\ Implements!MergeOf(s, t) = MergeIn(commits, s, t)
    BY <1>2, Zenon DEF History!MergeOf, Implements!MergeOf, MergeIn
<1>4. \A ps : Implements!ToSet(ps) = ToSet(ps) /\ History!ToSet(ps) = ToSet(ps)
    BY DEF Implements!ToSet, History!ToSet, ToSet
<1>5. ASSUME NEW d, NEW ps
      PROVE  /\ History!NewCommit(d, ps) = Commit(d, ps)
             /\ Implements!NewCommit(d, ps) = Commit(d, ps)
    BY <1>1, <1>4 DEF Implements!NewCommit, History!NewCommit, Commit
<1> QED BY <1>1, <1>3, <1>5

LEMMA CommitIs ==
    ASSUME TypeOK, Whole, NEW k \in DOMAIN commits
    PROVE  /\ k \in Nat /\ k # 0 /\ k <= Len(commits)
           /\ commits[k] \in Commits
           /\ commits[k].document \in Documents /\ commits[k].past \subseteq Nat
           /\ k \in Past(k) /\ 1 \in Past(k) /\ Past(k) \subseteq 1..k
           /\ Past(k) \subseteq DOMAIN commits
           /\ Content(k) = commits[k].document
<1>1. commits \in Seq(Commits) /\ DOMAIN commits = 1..Len(commits) /\ Len(commits) \in Nat
    BY DEF TypeOK
<1>2. commits[k] \in Commits  BY <1>1
<1>3. commits[k].document \in Documents /\ commits[k].past \subseteq Nat  BY <1>2 DEF Commits
<1>4. k \in Past(k) /\ 1 \in Past(k) /\ Past(k) \subseteq 1..k  BY DEF Whole
<1>5. k \in Nat /\ k # 0 /\ k <= Len(commits)  BY <1>1
<1>6. Past(k) \subseteq DOMAIN commits  BY <1>1, <1>4, <1>5
<1> QED BY <1>2, <1>3, <1>4, <1>5, <1>6 DEF Content

LEMMA HeadIs ==
    ASSUME TypeOK, NEW b \in Branches
    PROVE  /\ heads[b] \in Nat
           /\ heads[b] # 0 => heads[b] \in DOMAIN commits
<1>1. commits \in Seq(Commits) /\ DOMAIN commits = 1..Len(commits) /\ Len(commits) \in Nat
    BY DEF TypeOK
<1>2. heads[b] \in 0..Len(commits)  BY DEF TypeOK
<1> QED BY <1>1, <1>2

LEMMA ContentIs ==
    ASSUME TypeOK, Whole, NEW b \in Branches
    PROVE  Content(heads[b]) \in Documents \cup {Nothing}
<1>1. CASE heads[b] = 0  BY <1>1 DEF Content
<1>2. CASE heads[b] # 0  BY <1>2, HeadIs, CommitIs DEF Content
<1> QED BY <1>1, <1>2

LEMMA BaseIs ==
    ASSUME TypeOK, Whole, NEW s \in DOMAIN commits, NEW t \in DOMAIN commits
    PROVE  MergeBaseIn(commits, s, t) \in DOMAIN commits
<1> DEFINE S == commits[s].past \cap commits[t].past
<1>1. S # {} /\ S \in SUBSET (0..s) /\ S \subseteq DOMAIN commits /\ s \in Nat
    BY CommitIs DEF Past
<1>2. \E k \in S : \A j \in S : j <= k  BY <1>1, HasGreatest, Zenon
<1>3. MergeBaseIn(commits, s, t) \in S  BY <1>2 DEF MergeBaseIn
<1> QED BY <1>1, <1>3

\* What git merge can make of two commits.
LEMMA MergesTo ==
    ASSUME TypeOK, Whole, NEW s \in DOMAIN commits, NEW t \in DOMAIN commits
    PROVE  MergeIn(commits, s, t) \in Documents \cup {Conflicting, Invalid}
<1>1. \A k \in DOMAIN commits : commits[k].document \in Documents  BY CommitIs
<1>2. \A x, y, z \in Documents : Merging[x, y, z] \in Documents \cup {Conflicting, Invalid}
    BY GitAssumption, Zenon
<1> QED BY <1>1, <1>2, BaseIs, Zenon DEF MergeIn

\* A merge depends on what is committed, not on what is still to come.
LEMMA MergeStays ==
    ASSUME TypeOK, Whole, NEW s \in DOMAIN commits, NEW t \in DOMAIN commits,
           NEW later, \A k \in DOMAIN commits : later[k] = commits[k]
    PROVE  MergeIn(later, s, t) = MergeIn(commits, s, t)
<1>1. later[s] = commits[s] /\ later[t] = commits[t]  OBVIOUS
<1>2. MergeBaseIn(later, s, t) = MergeBaseIn(commits, s, t)
    BY <1>1, Zenon DEF MergeBaseIn
<1>3. later[MergeBaseIn(commits, s, t)] = commits[MergeBaseIn(commits, s, t)]
    BY BaseIs
<1> QED BY <1>1, <1>2, <1>3, Zenon DEF MergeIn
-----------------------------------------------------------------------------
(* Operations *)

Gifts(kind) == IF kind = "checkpoint" THEN Documents ELSE Nat

LEMMA OperationIs ==
    ASSUME TypeOK, op # Nothing
    PROVE  /\ op \in Operations(Gifts(op.kind))
           /\ op.kind \in Kinds /\ op.on \in Branches /\ op.from \in Branches
           /\ op.at \in Steps /\ op.result \in Results /\ op.fault \in Faults
           /\ op.hadHead \in BOOLEAN /\ op.locked \in BOOLEAN
           /\ op.given \in Gifts(op.kind)
           /\ op.was.heads \in [Branches -> Nat]
           /\ op.was.trees \in [Places -> Worktrees \cup {Nothing}]
           /\ Place \in Places
<1>1. op \in Operations(Gifts(op.kind))  BY DEF TypeOK, Gifts
<1>2. /\ op.kind \in Kinds /\ op.on \in Branches /\ op.from \in Branches
      /\ op.at \in Steps /\ op.result \in Results /\ op.fault \in Faults
      /\ op.hadHead \in BOOLEAN /\ op.locked \in BOOLEAN
      /\ op.given \in Gifts(op.kind)
      /\ op.was \in [heads : [Branches -> Nat], trees : [Places -> Worktrees \cup {Nothing}]]
    BY <1>1 DEF Operations
<1>3. Place \in Places  BY <1>2 DEF Place, Places
<1> QED BY <1>1, <1>2, <1>3

\* The operation goes on.
Onward ==
    /\ op' # Nothing /\ op' \in Operations(Gifts(op'.kind))
    /\ op'.kind = op.kind /\ op'.on = op.on /\ op'.from = op.from /\ op'.given = op.given
    /\ op'.hadHead = op.hadHead /\ op'.was = op.was

LEMMA IsOperation ==
    ASSUME NEW kind \in Kinds, NEW o \in Operations(Gifts(kind))
    PROVE  o # Nothing
<1>1. CASE kind = "checkpoint"  BY <1>1, NothingAssumption DEF Gifts
<1>2. CASE kind # "checkpoint"  BY <1>2, NothingAssumption DEF Gifts
<1> QED BY <1>1, <1>2

LEMMA GoesOn ==
    ASSUME TypeOK, op # Nothing, NEW at \in Steps, NEW result \in Results, NEW fault \in Faults,
           NEW locked \in BOOLEAN,
           op' = [op EXCEPT !.at = at, !.result = result, !.fault = fault, !.locked = locked]
    PROVE  /\ Onward
           /\ op'.at = at /\ op'.result = result /\ op'.fault = fault /\ op'.locked = locked
<1> DEFINE G == Gifts(op.kind)
<1>1. op \in Operations(G) /\ op.kind \in Kinds  BY OperationIs
<1>2. G = Gifts(op.kind)  OBVIOUS
<1> HIDE DEF G
<1>3. /\ op' \in Operations(G)
      /\ op'.kind = op.kind /\ op'.on = op.on /\ op'.from = op.from /\ op'.given = op.given
      /\ op'.hadHead = op.hadHead /\ op'.was = op.was
      /\ op'.at = at /\ op'.result = result /\ op'.fault = fault /\ op'.locked = locked
    BY <1>1 DEF Operations
<1>4. op' \in Operations(Gifts(op'.kind))  BY <1>2, <1>3
<1>5. op' # Nothing  BY <1>1, <1>3, <1>4, IsOperation
<1> QED BY <1>3, <1>4, <1>5 DEF Onward

LEMMA Goes ==
    ASSUME TypeOK, op # Nothing, NEW at \in Steps, Goto(at)
    PROVE  /\ Onward /\ op'.at = at
           /\ op'.result = op.result /\ op'.fault = op.fault /\ op'.locked = op.locked
<1>1. op \in Operations(Gifts(op.kind))  BY OperationIs
<1>2. op' = [op EXCEPT !.at = at, !.result = op.result, !.fault = op.fault, !.locked = op.locked]
    BY <1>1 DEF Goto, Operations
<1> QED BY <1>2, GoesOn, OperationIs

Turns(at, result) == op' = [op EXCEPT !.at = at, !.result = result]

LEMMA GoesWith ==
    ASSUME TypeOK, op # Nothing, NEW at \in Steps, NEW result \in Results, Turns(at, result)
    PROVE  /\ Onward /\ op'.at = at
           /\ op'.result = result /\ op'.fault = op.fault /\ op'.locked = op.locked
<1>1. op \in Operations(Gifts(op.kind))  BY OperationIs
<1>2. op' = [op EXCEPT !.at = at, !.result = result, !.fault = op.fault, !.locked = op.locked]
    BY <1>1 DEF Turns, Operations
<1>3. op.fault \in Faults /\ op.locked \in BOOLEAN  BY OperationIs
<1> QED BY <1>2, <1>3, GoesOn

LEMMA Catches ==
    ASSUME TypeOK, op # Nothing, NEW at \in Steps, NEW fault \in {"early", "late"},
           Caught(at, fault)
    PROVE  /\ Onward /\ op'.at = at /\ op'.locked = op.locked
           /\ Mild' => fault = "early" /\ op.fault = "none" /\ ~InCleanUp
           /\ op.fault = "none" /\ ~InCleanUp => op'.fault = fault
<1> DEFINE r == IF op.result = "refused" THEN op.result ELSE "failed"
           f == Blame(fault)
<1>1. op \in Operations(Gifts(op.kind)) /\ op.result \in Results  BY OperationIs
<1>2. op' = [op EXCEPT !.at = at, !.result = r, !.fault = f, !.locked = op.locked]
    BY <1>1 DEF Caught, Operations
<1>3. r \in Results  BY <1>1 DEF Results
<1>4. f \in Faults  BY DEF Blame, Faults
<1>5. Onward /\ op'.at = at /\ op'.fault = f /\ op'.locked = op.locked
    <2> HIDE DEF r, f
    <2> QED BY <1>2, <1>3, <1>4, GoesOn, OperationIs
<1>6. f \in {"none", "early"} => fault = "early" /\ op.fault = "none" /\ ~InCleanUp
    BY DEF Blame
<1> QED BY <1>5, <1>6 DEF Mild, Blame
-----------------------------------------------------------------------------
(* Steps that write to one worktree *)

LEMMA Same ==
    ASSUME TypeOK, op # Nothing, Onward, UNCHANGED <<commits, heads>>
    PROVE  /\ HEAD' = HEAD /\ Source' = Source /\ Place' = Place /\ Visible' = Visible
           /\ Unmoved' = Unmoved
           /\ \A k : Content(k)' = Content(k)
<1>1. /\ op' # Nothing
      /\ op'.kind = op.kind /\ op'.on = op.on /\ op'.from = op.from /\ op'.was = op.was
    BY DEF Onward
<1>2. HEAD' = HEAD /\ Source' = Source /\ Place' = Place  BY <1>1 DEF HEAD, Source, Place
<1>3. Visible' = Visible  BY <1>1 DEF Visible
<1>4. \A k : Content(k)' = Content(k)  BY DEF Content
<1>5. Unmoved' = Unmoved  BY <1>1, <1>2 DEF Unmoved
<1> QED BY <1>2, <1>3, <1>4, <1>5

\* The invariant goes on, and the history takes a step or none.
Inherits ==
    /\ IInv'
    /\ [Implements!Next]_(Implements!vars)

LEMMA TreeStep ==
    ASSUME IInv, op # Nothing, Onward, NEW t \in Worktrees \cup {Nothing}, Sound(Place, t),
           SetTree(Place, t), degraded' \in BOOLEAN, faults' \in 0..MaxFaults
    PROVE  /\ UNCHANGED <<commits, heads>> /\ HEAD' = HEAD /\ Source' = Source
           /\ trees'[Place] = t
           /\ Place # op.on => trees'[op.on] = trees[op.on]
           /\ Course' => Inherits
<1>1. UNCHANGED <<initialized, commits, heads>> /\ trees' = [trees EXCEPT ![Place] = t]
    BY DEF SetTree
<1>2. TypeOK /\ Whole /\ Trees /\ Reached /\ Elsewhere /\ Course  BY DEF IInv
<1>3. op.on \in Branches /\ Place \in Places /\ op.on \in Places  BY <1>2, OperationIs DEF Places
<1>4. /\ trees' \in [Places -> Worktrees \cup {Nothing}]
      /\ trees'[Place] = t /\ \A p \in Places : p # Place => trees'[p] = trees[p]
    <2>1. trees \in [Places -> Worktrees \cup {Nothing}]  BY <1>2 DEF TypeOK
    <2> QED BY <1>1, <1>3, <2>1
<1>5. HEAD' = HEAD /\ Source' = Source /\ Place' = Place /\ Visible' = Visible
    BY <1>1, <1>2, Same
<1>6. TypeOK'
    <2>1. op' \in Operations(IF op'.kind = "checkpoint" THEN Documents ELSE Nat)
        BY DEF Onward, Gifts
    <2> QED BY <1>1, <1>2, <1>4, <2>1 DEF TypeOK
<1>7. Whole'  BY <1>1, <1>2 DEF Whole, Past
<1>8. Trees'
    <2>1. ASSUME NEW p \in Places PROVE Sound(p, trees'[p])
        BY <1>2, <1>4 DEF Trees
    <2>2. ASSUME NEW p \in Places, NEW u, Sound(p, u) PROVE Sound(p, u)'
        BY <2>2, <1>1 DEF Sound, Pending, Content, Past
    <2>3. ASSUME NEW p \in Places PROVE Sound(p, trees[p])'
        <3>1. PICK u : u = trees'[p]  OBVIOUS
        <3>2. Sound(p, u)'  BY <2>1, <2>2, <3>1
        <3> QED BY <3>1, <3>2 DEF Sound, Pending, Content, Past
    <2> QED BY <2>3 DEF Trees
<1>9. Reached'  BY <1>1, <1>2, <1>5 DEF Reached, Past
<1>10. Elsewhere'
    <2>1. op'.on = op.on /\ op'.was = op.was  BY DEF Onward
    <2> QED BY <2>1, <1>1, <1>2, <1>4, <1>5 DEF Elsewhere
<1>11. UNCHANGED Implements!vars  BY <1>1, <1>5 DEF Implements!vars
<1>12. Course' => Inherits  BY <1>6, <1>7, <1>8, <1>9, <1>10, <1>11 DEF IInv, Inherits
<1> QED BY <1>1, <1>3, <1>4, <1>5, <1>12

LEMMA Present ==
    ASSUME IInv, op # Nothing
    PROVE  /\ trees[Place] \in Worktrees \cup {Nothing} /\ Sound(Place, trees[Place])
           /\ trees = [trees EXCEPT ![Place] = trees[Place]]
<1>1. trees \in [Places -> Worktrees \cup {Nothing}]  BY DEF IInv, TypeOK
<1>2. Place \in Places  BY OperationIs DEF IInv
<1>3. Sound(Place, trees[Place])  BY <1>2 DEF IInv, Trees
<1> QED BY <1>1, <1>2, <1>3

LEMMA DiskStep ==
    ASSUME IInv, op # Nothing, Onward, UNCHANGED disk,
           degraded' \in BOOLEAN, faults' \in 0..MaxFaults
    PROVE  /\ UNCHANGED <<commits, heads, trees>> /\ HEAD' = HEAD /\ Source' = Source
           /\ Course' => Inherits
<1>1. PICK t : t = trees[Place]  OBVIOUS
<1>2. UNCHANGED <<initialized, commits, heads, trees>>  BY DEF disk
<1>3. t \in Worktrees \cup {Nothing} /\ Sound(Place, t) /\ trees = [trees EXCEPT ![Place] = t]
    BY <1>1, Present
<1>4. SetTree(Place, t)  BY <1>2, <1>3 DEF SetTree
<1> QED BY <1>2, <1>3, <1>4, TreeStep

LEMMA OneMore ==
    ASSUME TypeOK, faults < MaxFaults, faults' = faults + 1
    PROVE  faults' \in 0..MaxFaults
BY GitAssumption DEF TypeOK

\* A command that writes to the worktree works, fails without effect, or
\* fails after it took effect.
LEMMA TreeCommand ==
    ASSUME IInv, op # Nothing, NEW t \in Worktrees \cup {Nothing}, Sound(Place, t),
           NEW next \in Steps, NEW catch \in Steps, Command(SetTree(Place, t), next, catch)
    PROVE  /\ Onward /\ UNCHANGED <<commits, heads>> /\ HEAD' = HEAD /\ Source' = Source
           /\ op'.locked = op.locked
           /\ Place # op.on => trees'[op.on] = trees[op.on]
           /\ \/ /\ op'.at = next /\ trees'[Place] = t
                 /\ op'.result = op.result /\ op'.fault = op.fault
              \/ /\ op'.at = catch /\ trees'[Place] = trees[Place]
                 /\ Mild' => Mild /\ ~InCleanUp
              \/ op'.at = catch /\ trees'[Place] = t /\ ~Mild'
           /\ Course' => Inherits
<1>1. TypeOK  BY DEF IInv
<1>2. degraded \in BOOLEAN /\ faults \in 0..MaxFaults  BY <1>1 DEF TypeOK
<1>3. CASE Works(SetTree(Place, t), next)
    <2>1. Onward /\ op'.at = next
          /\ op'.result = op.result /\ op'.fault = op.fault /\ op'.locked = op.locked
        BY <1>1, <1>3, Goes DEF Works
    <2>2. degraded' \in BOOLEAN /\ faults' \in 0..MaxFaults  BY <1>2, <1>3 DEF Works
    <2>3. SetTree(Place, t)  BY <1>3 DEF Works
    <2> QED BY <2>1, <2>2, <2>3, TreeStep
<1>4. CASE Fails(SetTree(Place, t), catch)
    <2>1. degraded' \in BOOLEAN /\ faults' \in 0..MaxFaults
        BY <1>1, <1>2, <1>4, OneMore DEF Fails
    <2>2. CASE UNCHANGED disk /\ Caught(catch, "early")
        <3>1. Onward /\ op'.at = catch /\ op'.locked = op.locked
              /\ (Mild' => op.fault = "none" /\ ~InCleanUp)
            BY <1>1, <2>2, Catches
        <3>2. op.fault = "none" => Mild  BY DEF Mild
        <3> QED BY <2>1, <2>2, <3>1, <3>2, DiskStep
    <2>3. CASE SetTree(Place, t) /\ Caught(catch, "late")
        <3>1. Onward /\ op'.at = catch /\ op'.locked = op.locked /\ ~Mild'
            BY <1>1, <2>3, Catches
        <3> QED BY <2>1, <2>3, <3>1, TreeStep
    <2> QED BY <1>4, <2>2, <2>3 DEF Fails
<1> QED BY <1>3, <1>4 DEF Command
-----------------------------------------------------------------------------
(* Checkpoints *)

LEMMA WorktreeIs ==
    ASSUME TypeOK, NEW p \in Places, trees[p] # Nothing
    PROVE  trees[p] \in Worktrees
BY DEF TypeOK

LEMMA Rewritten ==
    ASSUME TypeOK, Trees, NEW p \in Branches, trees[p] # Nothing, NEW t \in Worktrees,
           t.merging \in {0, trees[p].merging},
           t.merging # 0 => \/ t.index = trees[p].index
                            \/ MergeIn(commits, t.merging, heads[p]) = Content(heads[p])
    PROVE  Sound(p, t)
<1>1. Sound(p, trees[p])  BY DEF Trees, Places
<1>2. t # Nothing  BY NothingAssumption
<1> QED BY <1>1, <1>2 DEF Sound, Pending

LEMMA AtCheckpoint ==
    ASSUME IInv, NEW at, At({"checkpoint"}, at)
    PROVE  /\ op # Nothing /\ op.kind = "checkpoint" /\ op.at = at /\ TypeOK /\ Trees
           /\ op.given \in Documents /\ op.on \in Branches /\ op.on \in Places
           /\ Place = op.on /\ CheckpointCourse /\ trees[op.on] \in Worktrees
           /\ Onward /\ CheckpointCourse' => Course'
<1>1. op # Nothing /\ op.kind = "checkpoint" /\ op.at = at  BY DEF At
<1>2. TypeOK /\ Trees /\ CheckpointCourse  BY <1>1 DEF IInv, Course
<1>3. op.on \in Branches /\ op.on \in Places  BY <1>1, <1>2, OperationIs DEF Places
<1>4. trees[op.on] \in Worktrees  BY <1>2, <1>3, WorktreeIs DEF CheckpointCourse
<1>5. op.given \in Documents  BY <1>1, <1>2, OperationIs DEF Gifts
<1>6. Onward /\ CheckpointCourse' => Course'  BY <1>1 DEF Onward, Course
<1> QED BY <1>1, <1>2, <1>3, <1>4, <1>5, <1>6 DEF Place

LEMMA EndStep ==
    ASSUME IInv, op # Nothing, op' = Nothing, UNCHANGED disk,
           degraded' \in BOOLEAN, faults' \in 0..MaxFaults
    PROVE  Inherits
<1>1. UNCHANGED <<initialized, commits, heads, trees>>  BY DEF disk
<1>2. TypeOK /\ Whole /\ Trees /\ Reached /\ Course  BY DEF IInv
<1>3. TypeOK'  BY <1>1, <1>2 DEF TypeOK
<1>4. Whole'  BY <1>1, <1>2 DEF Whole, Past
<1>5. Trees'  BY <1>1, <1>2 DEF Trees, Sound, Pending, Content, Past
<1>6. heads \in [Branches -> 0..Len(commits)] /\ op.on \in Branches  BY <1>2, OperationIs DEF TypeOK
<1>7. Visible' = heads  BY <1>1, <1>6 DEF Visible
<1>8. CASE op.kind \notin {"create", "restore"} \/ HEAD = 0
    <2>1. Visible = heads
        <3>1. CASE op.kind \notin {"create", "restore"}  BY <3>1, <1>6 DEF Visible
        <3>2. CASE op.kind \in {"create", "restore"} /\ HEAD = 0
            BY <3>2, <1>2, <1>6 DEF Visible, Course, BranchCourse, HEAD
        <3> QED BY <3>1, <3>2, <1>8
    <2>2. Reached'  BY <1>1, <1>2, <1>7, <2>1 DEF Reached, Past
    <2>3. UNCHANGED Implements!vars  BY <1>1, <1>7, <2>1 DEF Implements!vars
    <2> QED BY <1>3, <1>4, <1>5, <2>2, <2>3 DEF IInv, Inherits
<1>9. CASE op.kind \in {"create", "restore"} /\ HEAD # 0
    <2> DEFINE k == op.given
    <2>1. k \in DOMAIN commits /\ heads[op.on] = k /\ op.was.heads[op.on] = 0
        BY <1>2, <1>9 DEF Course, BranchCourse, HEAD
    <2>2. Visible = [b \in Branches |-> IF b = op.on THEN 0 ELSE heads[b]]
        BY <1>9, <2>1 DEF Visible
    <2>3. Visible[op.on] = 0 /\ Visible' = [Visible EXCEPT ![op.on] = k]
        BY <1>6, <1>7, <2>1, <2>2
    <2>4. PICK c \in Branches : Visible[c] # 0 /\ k \in Past(Visible[c])
        BY <1>2, <2>1 DEF Reached
    <2>5. \E b \in Branches : Visible[b] # 0 /\ k \in Implements!Past(Visible[b])
        BY <2>4, SameHistory
    <2> HIDE DEF k
    <2>6. Implements!Branch(op.on, k)  BY <1>1, <2>3, <2>5 DEF Implements!Branch
    <2>7. Implements!Next  BY <1>6, <2>1, <2>6 DEF Implements!Next
    <2>8. \A b \in Branches : Visible[b] # 0 => Visible'[b] = Visible[b]  BY <1>6, <1>7, <2>2
    <2>9. Reached'  BY <1>1, <1>2, <2>8 DEF Reached, Past
    <2> QED BY <1>3, <1>4, <1>5, <2>7, <2>9 DEF IInv, Inherits
<1> QED BY <1>8, <1>9

LEMMA ClearSnapshotStep == ASSUME IInv, ClearSnapshot PROVE Inherits
<1> DEFINE t == [trees[op.on] EXCEPT !.files = Part]
<1>1. At({"checkpoint"}, "clear") /\ Command(SetTree(op.on, t), "write", "restore")
    BY DEF ClearSnapshot
<1>2. /\ op # Nothing /\ op.kind = "checkpoint" /\ op.at = "clear" /\ TypeOK /\ Trees
      /\ op.on \in Branches /\ Place = op.on /\ CheckpointCourse /\ trees[op.on] \in Worktrees
      /\ Onward /\ CheckpointCourse' => Course'
    BY <1>1, AtCheckpoint
<1>3. t \in Worktrees /\ t.index = trees[op.on].index /\ t.merging = trees[op.on].merging
    BY <1>2 DEF Worktrees, Contents
<1>4. Sound(Place, t)
    <2> HIDE DEF t
    <2> QED BY <1>2, <1>3, Rewritten DEF CheckpointCourse
<1> HIDE DEF t
<1>5. Command(SetTree(Place, t), "write", "restore")  BY <1>1, <1>2
<1>6. t # Nothing  BY <1>3, NothingAssumption
<1>7. /\ Onward /\ UNCHANGED <<commits, heads>> /\ HEAD' = HEAD
      /\ \/ op'.at = "write" /\ trees'[op.on] = t /\ op'.result = op.result
         \/ op'.at = "restore" /\ trees'[op.on] = trees[op.on] /\ (Mild' => Mild)
         \/ op'.at = "restore" /\ trees'[op.on] = t /\ ~Mild'
      /\ Course' => Inherits
    BY <1>2, <1>3, <1>4, <1>5, TreeCommand DEF Steps
<1>8. Unmoved' = Unmoved  BY <1>2, <1>7, Same
<1>9. CheckpointCourse'
    BY <1>2, <1>3, <1>6, <1>7, <1>8 DEF CheckpointCourse, Onward, Content
<1> QED BY <1>2, <1>7, <1>9

LEMMA WriteSnapshotStep == ASSUME IInv, WriteSnapshot PROVE Inherits
<1> DEFINE t == [trees[op.on] EXCEPT !.files = op.given]
<1>1. At({"checkpoint"}, "write") /\ Command(SetTree(op.on, t), "add", "restore")
    BY DEF WriteSnapshot
<1>2. /\ op # Nothing /\ op.kind = "checkpoint" /\ op.at = "write" /\ TypeOK /\ Trees
      /\ op.on \in Branches /\ Place = op.on /\ CheckpointCourse /\ trees[op.on] \in Worktrees
      /\ op.given \in Documents
      /\ Onward /\ CheckpointCourse' => Course'
    BY <1>1, AtCheckpoint
<1>3. /\ t \in Worktrees /\ t.index = trees[op.on].index /\ t.merging = trees[op.on].merging
      /\ t.files = op.given
    BY <1>2 DEF Worktrees, Contents
<1>4. Sound(Place, t)
    <2> HIDE DEF t
    <2> QED BY <1>2, <1>3, Rewritten DEF CheckpointCourse
<1> HIDE DEF t
<1>5. Command(SetTree(Place, t), "add", "restore")  BY <1>1, <1>2
<1>6. t # Nothing  BY <1>3, NothingAssumption
<1>7. /\ Onward /\ UNCHANGED <<commits, heads>> /\ HEAD' = HEAD
      /\ \/ op'.at = "add" /\ trees'[op.on] = t /\ op'.result = op.result /\ op'.fault = op.fault
         \/ op'.at = "restore" /\ trees'[op.on] = trees[op.on] /\ (Mild' => Mild /\ ~InCleanUp)
         \/ op'.at = "restore" /\ trees'[op.on] = t /\ ~Mild'
      /\ Course' => Inherits
    BY <1>2, <1>3, <1>4, <1>5, TreeCommand DEF Steps
<1>8. Unmoved' = Unmoved  BY <1>2, <1>7, Same
<1>9. CheckpointCourse'
    BY <1>2, <1>3, <1>6, <1>7, <1>8 DEF CheckpointCourse, Onward, Content
<1> QED BY <1>2, <1>7, <1>9

LEMMA AddSnapshotStep == ASSUME IInv, AddSnapshot PROVE Inherits
<1> DEFINE t == [trees[op.on] EXCEPT !.index = trees[op.on].files]
<1>1. At({"checkpoint"}, "add") /\ Command(SetTree(op.on, t), "commit", "restore")
    BY DEF AddSnapshot
<1>2. /\ op # Nothing /\ op.kind = "checkpoint" /\ op.at = "add" /\ TypeOK /\ Trees
      /\ op.on \in Branches /\ Place = op.on /\ CheckpointCourse /\ trees[op.on] \in Worktrees
      /\ op.given \in Documents
      /\ Onward /\ CheckpointCourse' => Course'
    BY <1>1, AtCheckpoint
<1>3. /\ t \in Worktrees /\ t.merging = trees[op.on].merging
      /\ t.files = trees[op.on].files /\ t.index = trees[op.on].files
    BY <1>2 DEF Worktrees, Contents
<1>4. Sound(Place, t)
    <2> HIDE DEF t
    <2> QED BY <1>2, <1>3, Rewritten DEF CheckpointCourse, HEAD
<1> HIDE DEF t
<1>5. Command(SetTree(Place, t), "commit", "restore")  BY <1>1, <1>2
<1>6. t # Nothing  BY <1>3, NothingAssumption
<1>7. /\ Onward /\ UNCHANGED <<commits, heads>> /\ HEAD' = HEAD
      /\ \/ op'.at = "commit" /\ trees'[op.on] = t /\ op'.result = op.result /\ op'.fault = op.fault
         \/ op'.at = "restore" /\ trees'[op.on] = trees[op.on] /\ (Mild' => Mild /\ ~InCleanUp)
         \/ op'.at = "restore" /\ trees'[op.on] = t /\ ~Mild'
      /\ Course' => Inherits
    BY <1>2, <1>3, <1>4, <1>5, TreeCommand DEF Steps
<1>8. Unmoved' = Unmoved  BY <1>2, <1>7, Same
<1>9. CheckpointCourse'
    BY <1>2, <1>3, <1>6, <1>7, <1>8 DEF CheckpointCourse, Onward, Content
<1> QED BY <1>2, <1>7, <1>9

LEMMA RestoreCheckpointStep == ASSUME IInv, RestoreCheckpoint PROVE Inherits
<1> DEFINE t == [trees[op.on] EXCEPT !.index = IF op.hadHead THEN Content(HEAD) ELSE Nothing,
                          !.files = IF op.hadHead THEN Content(HEAD) ELSE Nothing,
                          !.merging = IF op.hadHead THEN 0 ELSE @]
<1>1. At({"checkpoint"}, "restore") /\ Command(SetTree(op.on, t), "thrown", "thrown")
    BY DEF RestoreCheckpoint, Restored
<1>2. /\ op # Nothing /\ op.kind = "checkpoint" /\ op.at = "restore" /\ TypeOK /\ Trees
      /\ op.on \in Branches /\ Place = op.on /\ CheckpointCourse /\ trees[op.on] \in Worktrees
      /\ op.given \in Documents
      /\ Onward /\ CheckpointCourse' => Course'
    BY <1>1, AtCheckpoint
<1>3. /\ t \in Worktrees /\ t.merging = 0
      /\ t.files = (IF op.hadHead THEN Content(HEAD) ELSE Nothing) /\ t.index = t.files
    <2>1. Content(HEAD) \in Contents  BY <1>2, ContentIs DEF HEAD, Contents, IInv
    <2>2. Nothing \in Contents /\ op.hadHead \in BOOLEAN  BY <1>2, OperationIs DEF Contents
    <2> QED BY <1>2, <2>1, <2>2 DEF Worktrees, CheckpointCourse
<1>4. Sound(Place, t)
    <2> HIDE DEF t
    <2> QED BY <1>2, <1>3, Rewritten DEF CheckpointCourse
<1> HIDE DEF t
<1>5. Command(SetTree(Place, t), "thrown", "thrown")  BY <1>1, <1>2
<1>6. t # Nothing  BY <1>3, NothingAssumption
<1>7. /\ Onward /\ UNCHANGED <<commits, heads>> /\ HEAD' = HEAD
      /\ \/ op'.at = "thrown" /\ trees'[op.on] = t /\ op'.result = op.result /\ op'.fault = op.fault
         \/ op'.at = "thrown" /\ trees'[op.on] = trees[op.on] /\ (Mild' => Mild /\ ~InCleanUp)
         \/ op'.at = "thrown" /\ trees'[op.on] = t /\ ~Mild'
      /\ Course' => Inherits
    BY <1>2, <1>3, <1>4, <1>5, TreeCommand DEF Steps
<1>8. Unmoved' = Unmoved  BY <1>2, <1>7, Same
<1>9. InCleanUp  BY <1>2 DEF InCleanUp
<1>10. Mild' => (op'.at = "thrown" /\ trees'[op.on] = t /\ Mild)
    BY <1>7, <1>9 DEF Mild
<1>11. op'.at = "thrown" /\ trees'[op.on] \in {t, trees[op.on]}  BY <1>7
<1>12. Mild => (Unmoved /\ t.files = Content(HEAD))  BY <1>2, <1>3 DEF CheckpointCourse, Unmoved, Content
<1>13. Mild' => (Tidy /\ Unmoved)'
    BY <1>2, <1>3, <1>7, <1>8, <1>10, <1>12 DEF Tidy, Clean, Content, Onward
<1>14. ~op'.hadHead => trees'[op'.on].merging = 0
    BY <1>2, <1>3, <1>11, <1>7 DEF CheckpointCourse, Onward
<1>15. CheckpointCourse'
    BY <1>2, <1>6, <1>7, <1>11, <1>13, <1>14 DEF CheckpointCourse, Onward
<1> QED BY <1>2, <1>7, <1>15

LEMMA LateStep ==
    ASSUME IInv, op # Nothing, UNCHANGED disk, NEW at \in Steps, Caught(at, "late"),
           faults < MaxFaults, faults' = faults + 1, UNCHANGED degraded
    PROVE  /\ Onward /\ op'.at = at /\ ~Mild' /\ UNCHANGED <<commits, heads, trees>>
           /\ HEAD' = HEAD /\ Source' = Source /\ op'.locked = op.locked
           /\ Course' => Inherits
<1>1. TypeOK  BY DEF IInv
<1>2. Onward /\ op'.at = at /\ ~Mild' /\ op'.locked = op.locked  BY <1>1, Catches
<1>3. degraded' \in BOOLEAN /\ faults' \in 0..MaxFaults  BY <1>1, OneMore DEF TypeOK
<1> QED BY <1>2, <1>3, DiskStep

LEMMA AnswerCheckpointStep == ASSUME IInv, AnswerCheckpoint PROVE Inherits
<1>1. PICK at \in {"answer", "committed"} : At({"checkpoint"}, at)  BY DEF AnswerCheckpoint
<1>2. /\ op # Nothing /\ op.kind = "checkpoint" /\ op.at = at /\ TypeOK
      /\ CheckpointCourse /\ (Onward /\ CheckpointCourse' => Course')
    BY <1>1, AtCheckpoint
<1>3. UNCHANGED disk  BY DEF AnswerCheckpoint
<1>4. CASE Return(TRUE) /\ UNCHANGED faults
    <2>1. degraded' \in BOOLEAN /\ faults' \in 0..MaxFaults  BY <1>2, <1>4 DEF Return, TypeOK
    <2> QED BY <1>2, <1>3, <1>4, <2>1, EndStep DEF Return
<1>5. CASE /\ faults < MaxFaults /\ faults' = faults + 1 /\ UNCHANGED degraded
           /\ Caught(IF op.at = "committed" THEN "thrown" ELSE "restore", "late")
    <2>1. PICK c \in {"thrown", "restore"} : Caught(c, "late")  BY <1>5
    <2>2. c \in Steps  BY DEF Steps
    <2>3. /\ Onward /\ op'.at = c /\ ~Mild' /\ UNCHANGED <<commits, heads, trees>>
          /\ HEAD' = HEAD /\ (Course' => Inherits)
        BY <1>2, <1>3, <1>5, <2>1, <2>2, LateStep
    <2>4. CheckpointCourse'  BY <1>2, <2>3 DEF CheckpointCourse, Onward
    <2> QED BY <1>2, <2>3, <2>4
<1> QED BY <1>4, <1>5 DEF AnswerCheckpoint
-----------------------------------------------------------------------------
(* git commit *)

LEMMA CommitsGrow ==
    ASSUME TypeOK, Whole, NEW b \in Branches, NEW d \in Documents, NEW parents \in Seq(Nat),
           ToSet(parents) \subseteq DOMAIN commits,
           IF heads[b] = 0 THEN b = Main ELSE heads[b] \in ToSet(parents),
           commits' = Append(commits, Commit(d, parents)),
           heads' = [heads EXCEPT ![b] = Len(commits) + 1]
    PROVE  /\ commits' \in Seq(Commits) /\ Len(commits') = Len(commits) + 1
           /\ heads' \in [Branches -> 0..Len(commits')]
           /\ Whole'
           /\ \A k \in DOMAIN commits : k \in DOMAIN commits' /\ commits'[k] = commits[k]
           /\ DOMAIN commits' = DOMAIN commits \cup {Len(commits) + 1}
           /\ \A c \in Branches \ {b} : heads'[c] = heads[c]
           /\ heads'[b] = Len(commits) + 1 /\ heads'[b] # 0
           /\ commits'[heads'[b]].document = d
           /\ heads[b] # 0 => commits[heads[b]].past \subseteq commits'[heads'[b]].past
           /\ heads'[b] \in commits'[heads'[b]].past
<1> DEFINE n == Len(commits) + 1
           new == Commit(d, parents)
<1>1. commits \in Seq(Commits) /\ DOMAIN commits = 1..Len(commits) /\ Len(commits) \in Nat
    BY DEF TypeOK
<1>2. heads \in [Branches -> 0..Len(commits)]  BY DEF TypeOK
<1>3. new.document = d /\ new.parents = parents
      /\ new.past = (UNION {Past(p) : p \in ToSet(parents)}) \cup {n}
    BY DEF Commit
<1>4. new \in [document : {d}, parents : {parents}, past : {new.past}]  BY DEF Commit
<1>5. \A p \in ToSet(parents) : 1 \in Past(p) /\ Past(p) \subseteq 1..p /\ p \in 1..Len(commits)
    BY <1>1 DEF Whole
<1>6. new.past \subseteq 1..n
    <2>1. ASSUME NEW p \in ToSet(parents) PROVE Past(p) \subseteq 1..n  BY <2>1, <1>1, <1>5
    <2>2. n \in 1..n  BY <1>1
    <2>3. UNION {Past(p) : p \in ToSet(parents)} \subseteq 1..n  BY <2>1, Zenon
    <2> HIDE DEF new, n
    <2> QED BY <2>2, <2>3, <1>3
<1>7. n \in new.past  BY <1>3, Zenon
<1>8. 1 \in new.past
    <2>1. CASE heads[b] = 0
        <3>1. commits = <<>>  BY <2>1 DEF Whole
        <3>2. n = 1  BY <3>1
        <3> HIDE DEF new, n
        <3> QED BY <3>2, <1>7
    <2>2. CASE heads[b] # 0  BY <2>2, <1>3, <1>5
    <2> QED BY <2>1, <2>2
<1>9. new \in Commits  BY <1>1, <1>4, <1>6 DEF Commits
<1>10. heads[b] # 0 => commits[heads[b]].past \subseteq new.past
    BY <1>3, Zenon DEF Past
<1> HIDE DEF new
<1>11. commits' = Append(commits, new)  BY DEF new
<1>12. commits' \in Seq(Commits) /\ Len(commits') = n /\ DOMAIN commits' = 1..n
       /\ commits'[n] = new /\ \A k \in 1..Len(commits) : commits'[k] = commits[k]
    BY <1>1, <1>9, <1>11
<1>13. heads' \in [Branches -> 0..n] /\ heads'[b] = n
       /\ \A c \in Branches \ {b} : heads'[c] = heads[c]
    BY <1>1, <1>2
<1>14. n # 0 /\ n \in 1..n  BY <1>1
<1>15. heads'[Main] # 0
    <2>1. CASE b = Main  BY <2>1, <1>13, <1>14
    <2>2. CASE b # Main
        <3>1. heads[b] # 0  BY <2>2
        <3>2. commits # <<>>  BY <3>1, <1>1, <1>2
        <3>3. heads[Main] # 0 /\ Main \in Branches  BY <3>2, GitAssumption DEF Whole
        <3> QED BY <2>2, <3>3, <1>13
    <2> QED BY <2>1, <2>2
<1>16. ASSUME NEW k \in DOMAIN commits'
       PROVE  k \in commits'[k].past /\ 1 \in commits'[k].past /\ commits'[k].past \subseteq 1..k
    <2>1. CASE k = n
        BY <2>1, <1>6, <1>7, <1>8, <1>12
    <2>2. CASE k \in DOMAIN commits  BY <2>2, <1>1, <1>12 DEF Whole, Past
    <2> QED BY <2>1, <2>2, <1>1, <1>12
<1>17. Whole'  BY <1>15, <1>16 DEF Whole, Past
<1>18. DOMAIN commits' = DOMAIN commits \cup {n}  BY <1>1, <1>12
<1>19. commits'[heads'[b]] = new  BY <1>12, <1>13
<1>20. \A k \in DOMAIN commits : k \in DOMAIN commits' /\ commits'[k] = commits[k]
    BY <1>1, <1>12, <1>18
<1> QED BY <1>3, <1>7, <1>10, <1>12, <1>13, <1>14, <1>17, <1>18, <1>19, <1>20
LEMMA Two ==
    ASSUME NEW x \in Nat, NEW y \in Nat
    PROVE  <<x>> \o <<y>> = <<x, y>> /\ <<x, y>> \in Seq(Nat)
<1>1. <<x, y>> = Append(<<x>>, y) /\ <<x>> \in Seq(Nat) /\ <<x, y>> \in Seq(Nat)  OBVIOUS
<1>2. \A p \in Seq(Nat) : p \o <<y>> = Append(p, y)  OBVIOUS
<1> QED BY <1>1, <1>2

\* What an operation commits: it makes the next commit of the history.
LEMMA CommitStep ==
    ASSUME IInv, op # Nothing, op.kind \in {"checkpoint", "merge"}, Onward, CommitIndex,
           trees[op.on] \in Worktrees, trees[op.on].index \in Documents,
           HEAD # 0 \/ (op.on = Main /\ trees[op.on].merging = 0),
           IF trees[op.on].merging = 0 THEN trees[op.on].index # Content(HEAD)
           ELSE \/ MergeIn(commits, trees[op.on].merging, HEAD) = Content(HEAD)
                \/ trees[op.on].index = MergeIn(commits, trees[op.on].merging, HEAD),
           degraded' \in BOOLEAN, faults' \in 0..MaxFaults
    PROVE  /\ HEAD' # 0 /\ Content(HEAD)' = trees[op.on].index
           /\ trees'[op.on] \in Worktrees /\ trees'[op.on].merging = 0
           /\ trees'[op.on].index = trees[op.on].index
           /\ trees'[op.on].files = trees[op.on].files
           /\ Source # 0 => Source' # 0
           /\ Course' => Inherits
<1> DEFINE b == op.on
           tree == trees[b]
           m == tree.merging
           parents == (IF HEAD = 0 THEN <<>> ELSE <<HEAD>>) \o (IF m = 0 THEN <<>> ELSE <<m>>)
           n == Len(commits) + 1
<1>1. /\ commits' = Append(commits, Commit(tree.index, parents))
      /\ heads' = [heads EXCEPT ![b] = n]
      /\ trees' = [trees EXCEPT ![b].merging = 0]
      /\ UNCHANGED initialized
    BY SameHistory DEF CommitIndex
<1>2. TypeOK /\ Whole /\ Trees /\ Reached /\ Elsewhere  BY DEF IInv
<1>3. b \in Branches /\ b \in Places /\ Place = b  BY <1>2, OperationIs DEF Places, Place
<1>4. HEAD \in Nat /\ (HEAD # 0 => HEAD \in DOMAIN commits) /\ HEAD = heads[b]
    BY <1>2, <1>3, HeadIs DEF HEAD
<1>5. tree # Nothing  BY NothingAssumption
<1>6. m # 0 => m \in DOMAIN commits /\ m \notin Past(HEAD) /\ HEAD # 0
    BY <1>2, <1>3, <1>4, <1>5 DEF Trees, Sound, Pending
<1>7. m \in Nat  BY DEF Worktrees
<1>8. /\ parents = IF HEAD = 0 THEN <<>> ELSE IF m = 0 THEN <<HEAD>> ELSE <<HEAD, m>>
      /\ parents \in Seq(Nat)
    <2> HIDE DEF m
    <2>1. CASE HEAD = 0  BY <2>1, <1>6
    <2>2. CASE HEAD # 0 /\ m = 0  BY <2>2, <1>4
    <2>3. CASE HEAD # 0 /\ m # 0
        <3>1. parents = <<HEAD>> \o <<m>>  BY <2>3
        <3> HIDE DEF parents
        <3>2. parents = <<HEAD, m>> /\ parents \in Seq(Nat)  BY <3>1, <1>4, <1>7, Two
        <3> QED BY <2>3, <3>2
    <2> QED BY <2>1, <2>2, <2>3
<1> HIDE DEF parents, m
<1>9. ToSet(parents) = IF HEAD = 0 THEN {} ELSE IF m = 0 THEN {HEAD} ELSE {HEAD, m}
    BY <1>8, ParentsOf
<1>10. ToSet(parents) \subseteq DOMAIN commits  BY <1>4, <1>6, <1>9
<1>11. IF heads[b] = 0 THEN b = Main ELSE heads[b] \in ToSet(parents)  BY <1>4, <1>9
<1>12. /\ commits' \in Seq(Commits) /\ Len(commits') = n
       /\ heads' \in [Branches -> 0..Len(commits')]
       /\ Whole'
       /\ \A k \in DOMAIN commits : k \in DOMAIN commits' /\ commits'[k] = commits[k]
       /\ DOMAIN commits' = DOMAIN commits \cup {n}
       /\ \A c \in Branches \ {b} : heads'[c] = heads[c]
       /\ heads'[b] = n /\ heads'[b] # 0
       /\ commits'[heads'[b]].document = tree.index
       /\ heads[b] # 0 => commits[heads[b]].past \subseteq commits'[heads'[b]].past
       /\ heads'[b] \in commits'[heads'[b]].past
    <2> HIDE DEF tree
    <2>1. tree.index \in Documents  BY DEF tree
    <2> HIDE DEF b
    <2> QED BY <1>1, <1>2, <1>3, <1>8, <1>10, <1>11, <2>1, CommitsGrow
<1>13. op' # Nothing /\ op'.kind = op.kind /\ op'.on = op.on /\ op'.from = op.from
       /\ op'.was = op.was
    BY DEF Onward
<1>14. HEAD' = heads'[b] /\ HEAD' # 0 /\ Place' = Place  BY <1>12, <1>13 DEF HEAD, Place
<1>15. Content(HEAD)' = tree.index  BY <1>12, <1>14 DEF Content
<1>16. /\ trees' \in [Places -> Worktrees \cup {Nothing}]
       /\ trees'[b] \in Worktrees /\ trees'[b].merging = 0
       /\ trees'[b].index = tree.index /\ trees'[b].files = tree.files
       /\ \A p \in Places : p # b => trees'[p] = trees[p]
    <2>1. trees \in [Places -> Worktrees \cup {Nothing}]  BY <1>2 DEF TypeOK
    <2>2. PICK t : t = [tree EXCEPT !.merging = 0]  OBVIOUS
    <2>3. t \in Worktrees /\ t.merging = 0 /\ t.index = tree.index /\ t.files = tree.files
        BY <2>2 DEF Worktrees
    <2>4. trees' = [trees EXCEPT ![b] = t]  BY <1>1, <2>2
    <2> HIDE DEF tree, b
    <2> QED BY <1>3, <2>1, <2>3, <2>4
<1>17. TypeOK'
    <2>1. op' \in Operations(IF op'.kind = "checkpoint" THEN Documents ELSE Nat)
        BY DEF Onward, Gifts
    <2> QED BY <1>1, <1>2, <1>12, <1>16, <2>1 DEF TypeOK
<1>18. Trees'
    <2>1. ASSUME NEW p \in Places, p # b PROVE Sound(p, trees[p])'
        <3>1. trees'[p] = trees[p] /\ Sound(p, trees[p])  BY <1>2, <1>16, <2>1 DEF Trees
        <3>2. ASSUME p \in Branches PROVE heads'[p] = heads[p]  BY <1>12, <2>1, <3>2
        <3>3. ASSUME p \in Branches, trees[p] # Nothing, trees[p].merging # 0
              PROVE  Pending(p, trees[p])'
            <4>1. PICK s, t : s = trees[p].merging /\ t = heads[p]  OBVIOUS
            <4>2. s = trees'[p].merging /\ t = heads'[p]  BY <3>1, <3>2, <3>3, <4>1
            <4>3. Pending(p, trees[p])  BY <3>1, <3>3 DEF Sound
            <4>4. t # 0 /\ t \in DOMAIN commits /\ s \in DOMAIN commits /\ s \notin Past(t)
                BY <1>2, <3>3, <4>1, <4>3, HeadIs DEF Pending
            <4>5. MergeIn(commits', s, t) = MergeIn(commits, s, t)
                BY <1>2, <1>12, <4>4, MergeStays
            <4>6. commits'[t] = commits[t] /\ s \in DOMAIN commits'  BY <1>12, <4>4
            <4>7. MergeIn(commits', s, t) = commits'[t].document
                  \/ trees'[p].index = MergeIn(commits', s, t)
                BY <3>1, <4>1, <4>3, <4>4, <4>5, <4>6 DEF Pending, Content
            <4> QED BY <4>2, <4>4, <4>6, <4>7 DEF Pending, Content, Past
        <3> QED BY <3>1, <3>2, <3>3 DEF Sound
    <2>2. ASSUME NEW p \in Places, p = b PROVE Sound(p, trees[p])'
        <3>1. trees'[p] # Nothing /\ trees'[p].merging = 0  BY <2>2, <1>16, NothingAssumption
        <3>2. p \in Branches => heads'[p] # 0  BY <2>2, <1>12
        <3> QED BY <3>1, <3>2 DEF Sound
    <2> QED BY <2>1, <2>2 DEF Trees
<1>19. Visible = heads /\ Visible' = heads'
    <2>1. heads \in [Branches -> 0..Len(commits)]  BY <1>2 DEF TypeOK
    <2>2. Visible = heads  BY <2>1 DEF Visible
    <2>3. Visible' = heads'  BY <1>12, <1>13 DEF Visible
    <2> QED BY <2>2, <2>3
<1>20. Reached'
    <2>1. ASSUME NEW k \in DOMAIN commits
          PROVE  \E c \in Branches : heads'[c] # 0 /\ k \in commits'[heads'[c]].past
        <3>1. PICK c \in Branches : heads[c] # 0 /\ k \in Past(heads[c])
            BY <1>2, <1>19 DEF Reached
        <3>2. CASE c = b  BY <3>1, <3>2, <1>12 DEF Past
        <3>3. CASE c # b
            <4>1. heads[c] \in DOMAIN commits  BY <1>2, <3>1, HeadIs
            <4>2. heads'[c] = heads[c] /\ commits'[heads[c]] = commits[heads[c]]
                BY <4>1, <3>3, <1>12
            <4> QED BY <3>1, <4>2 DEF Past
        <3> QED BY <3>2, <3>3
    <2>2. heads'[b] # 0 /\ n \in commits'[heads'[b]].past  BY <1>12
    <2> QED BY <1>3, <1>12, <1>19, <2>1, <2>2 DEF Reached, Past
<1>21. Elsewhere'  BY <1>2, <1>3, <1>12, <1>13, <1>14, <1>16 DEF Elsewhere
<1>22. Implements!CommitOnto(b, tree.index, parents)
    BY <1>1, <1>19, SameHistory DEF Implements!CommitOnto
<1>23. Implements!Next
    <2>1. tree.index \in Documents /\ Content(HEAD) = IF HEAD = 0 THEN Nothing ELSE commits[HEAD].document
        BY DEF Content
    <2>2. CASE HEAD = 0
        <3>1. b = Main /\ commits = <<>> /\ parents = <<>>
            BY <2>2, <1>2, <1>4, <1>8 DEF Whole
        <3>2. Implements!Root(tree.index)  BY <3>1, <1>22 DEF Implements!Root
        <3> QED BY <2>1, <3>2 DEF Implements!Next
    <2>3. CASE HEAD # 0 /\ m = 0
        <3>1. parents = <<Visible[b]>> /\ Visible[b] = HEAD /\ Visible[b] # 0
            BY <2>3, <1>4, <1>8, <1>19
        <3>2. tree.index # commits[Visible[b]].document  BY <2>1, <2>3, <3>1 DEF m
        <3>3. Implements!Checkpoint(b, tree.index)
            BY <3>1, <3>2, <1>22 DEF Implements!Checkpoint
        <3> QED BY <1>3, <2>1, <3>3 DEF Implements!Next
    <2>4. CASE HEAD # 0 /\ m # 0
        <3>1. parents = <<Visible[b], m>> /\ Visible[b] = HEAD /\ Visible[b] # 0
            BY <2>4, <1>4, <1>8, <1>19
        <3>2. m \in DOMAIN commits /\ m \notin Implements!Past(Visible[b])
            BY <2>4, <3>1, <1>6, SameHistory
        <3>3. Implements!MergeOf(m, Visible[b]) = MergeIn(commits, m, HEAD)  BY <3>1, SameHistory
        <3>4. CASE MergeIn(commits, m, HEAD) = Content(HEAD)
            <4>1. Implements!MergeOf(m, Visible[b]) = commits[Visible[b]].document
                BY <2>1, <2>4, <3>1, <3>3, <3>4
            <4>2. Implements!Conclude(b, m, tree.index)
                BY <1>22, <3>1, <3>2, <4>1 DEF Implements!Conclude
            <4> QED BY <1>3, <2>1, <3>2, <4>2 DEF Implements!Next
        <3>5. CASE tree.index = MergeIn(commits, m, HEAD)
            <4>1. Implements!Merge(b, m)
                BY <1>22, <2>1, <3>1, <3>2, <3>3, <3>5 DEF Implements!Merge
            <4> QED BY <1>3, <3>2, <4>1 DEF Implements!Next
        <3> QED BY <2>4, <3>4, <3>5 DEF m
    <2> QED BY <2>2, <2>3, <2>4
<1>24. Source # 0 => Source' # 0
    <2>1. op.from \in Branches  BY <1>2, OperationIs
    <2>2. Source = heads[op.from] /\ Source' = heads'[op.from]  BY <1>13 DEF Source
    <2> QED BY <1>12, <2>1, <2>2
<1>25. Course' => Inherits
    BY <1>12, <1>17, <1>18, <1>20, <1>21, <1>23 DEF IInv, Inherits
<1> QED BY <1>14, <1>15, <1>16, <1>24, <1>25
LEMMA CommitSnapshotStep == ASSUME IInv, CommitSnapshot PROVE Inherits
<1>1. /\ op # Nothing /\ op.kind = "checkpoint" /\ op.at = "commit" /\ TypeOK
      /\ op.on \in Branches /\ CheckpointCourse /\ trees[op.on] \in Worktrees
      /\ op.given \in Documents
      /\ Onward /\ CheckpointCourse' => Course'
    BY AtCheckpoint DEF CommitSnapshot
<1>2. degraded \in BOOLEAN /\ faults \in 0..MaxFaults  BY <1>1 DEF TypeOK
<1>3. CASE ~Changed /\ Works(UNCHANGED disk, "answer")
    <2>1. Onward /\ op'.at = "answer" /\ op'.result = op.result
        BY <1>1, <1>3, Goes DEF Works, Steps
    <2>2. degraded' \in BOOLEAN /\ faults' \in 0..MaxFaults  BY <1>2, <1>3 DEF Works
    <2>3. /\ UNCHANGED <<commits, heads, trees>> /\ HEAD' = HEAD
          /\ Course' => Inherits
        BY <1>1, <1>3, <2>1, <2>2, DiskStep DEF Works
    <2>4. Clean(op.on, HEAD)  BY <1>1, <1>3 DEF CheckpointCourse, Clean, Changed
    <2>5. CheckpointCourse'
        BY <1>1, <2>1, <2>3, <2>4 DEF CheckpointCourse, Onward, Clean, Content
    <2> QED BY <1>1, <2>1, <2>3, <2>5
<1>4. trees[op.on].index = op.given /\ trees[op.on].files = op.given
    BY <1>1 DEF CheckpointCourse
<1>5. ASSUME Changed, CommitIndex, Onward, degraded' \in BOOLEAN, faults' \in 0..MaxFaults
      PROVE  /\ HEAD' # 0 /\ Clean(op.on, HEAD)' /\ trees'[op.on].merging = 0
             /\ trees'[op.on] # Nothing
             /\ Course' => Inherits
    <2>1. HEAD # 0 \/ (op.on = Main /\ trees[op.on].merging = 0)
        <3>1. CASE HEAD = 0
            <4>1. ~op.hadHead  BY <1>1, <3>1 DEF CheckpointCourse, Unmoved
            <4> QED BY <1>1, <3>1, <4>1 DEF CheckpointCourse
        <3> QED BY <3>1
    <2>2. IF trees[op.on].merging = 0 THEN trees[op.on].index # Content(HEAD)
          ELSE MergeIn(commits, trees[op.on].merging, HEAD) = Content(HEAD)
        BY <1>1, <1>5 DEF CheckpointCourse, Changed
    <2>3. /\ HEAD' # 0 /\ Content(HEAD)' = trees[op.on].index
          /\ trees'[op.on] \in Worktrees /\ trees'[op.on].merging = 0
          /\ trees'[op.on].index = trees[op.on].index
          /\ trees'[op.on].files = trees[op.on].files
          /\ Course' => Inherits
        BY <1>1, <1>4, <1>5, <2>1, <2>2, CommitStep
    <2>4. op'.on = op.on  BY <1>5 DEF Onward
    <2>5. Clean(op.on, HEAD)'  BY <1>4, <2>3, <2>4 DEF Clean
    <2>6. trees'[op.on] # Nothing  BY <2>3, NothingAssumption
    <2> QED BY <2>3, <2>5, <2>6
<1>6. CASE Changed /\ Works(CommitIndex, "committed")
    <2>1. Onward /\ op'.at = "committed" /\ op'.result = op.result
        BY <1>1, <1>6, Goes DEF Works, Steps
    <2>2. degraded' \in BOOLEAN /\ faults' \in 0..MaxFaults  BY <1>2, <1>6 DEF Works
    <2>3. /\ HEAD' # 0 /\ Clean(op.on, HEAD)' /\ trees'[op.on].merging = 0
          /\ trees'[op.on] # Nothing
          /\ Course' => Inherits
        BY <1>5, <1>6, <2>1, <2>2 DEF Works
    <2>4. CheckpointCourse'  BY <1>1, <2>1, <2>3 DEF CheckpointCourse, Onward
    <2> QED BY <1>1, <2>1, <2>3, <2>4
<1>7. CASE Changed /\ Fails(CommitIndex, "restore")
    <2>1. faults < MaxFaults /\ faults' = faults + 1 /\ UNCHANGED degraded  BY <1>7 DEF Fails
    <2>2. degraded' \in BOOLEAN /\ faults' \in 0..MaxFaults  BY <1>1, <1>2, <2>1, OneMore
    <2>3. CASE UNCHANGED disk /\ Caught("restore", "early")
        <3>1. Onward /\ op'.at = "restore"  BY <1>1, <2>3, Catches DEF Steps
        <3>2. /\ UNCHANGED <<commits, heads, trees>> /\ HEAD' = HEAD
              /\ Course' => Inherits
            BY <1>1, <2>2, <2>3, <3>1, DiskStep
        <3>3. Unmoved' = Unmoved  BY <1>1, <3>1, <3>2, Same
        <3>4. CheckpointCourse'  BY <1>1, <3>1, <3>2, <3>3 DEF CheckpointCourse, Onward
        <3> QED BY <1>1, <3>1, <3>2, <3>4
    <2>4. CASE CommitIndex /\ Caught("restore", "late")
        <3>1. Onward /\ op'.at = "restore" /\ ~Mild'  BY <1>1, <2>4, Catches DEF Steps
        <3>2. /\ HEAD' # 0 /\ Clean(op.on, HEAD)' /\ trees'[op.on].merging = 0
              /\ trees'[op.on] # Nothing
              /\ Course' => Inherits
            BY <1>5, <1>7, <2>2, <2>4, <3>1
        <3>3. CheckpointCourse'  BY <1>1, <3>1, <3>2 DEF CheckpointCourse, Onward
        <3> QED BY <1>1, <3>1, <3>2, <3>3
    <2> QED BY <1>7, <2>3, <2>4 DEF Fails
<1> QED BY <1>3, <1>6, <1>7 DEF CommitSnapshot
-----------------------------------------------------------------------------
(* Branches *)

LEMMA GoStep ==
    ASSUME IInv, op # Nothing, NEW next \in Steps, Goto(next), UNCHANGED disk,
           UNCHANGED <<degraded, faults>>
    PROVE  /\ Onward /\ op'.at = next
           /\ op'.result = op.result /\ op'.locked = op.locked /\ (Mild' <=> Mild)
           /\ UNCHANGED <<commits, heads, trees>> /\ HEAD' = HEAD /\ Source' = Source
           /\ Course' => Inherits
<1>1. TypeOK  BY DEF IInv
<1>2. /\ Onward /\ op'.at = next
      /\ op'.result = op.result /\ op'.locked = op.locked /\ op'.fault = op.fault
    BY <1>1, Goes
<1>3. degraded' \in BOOLEAN /\ faults' \in 0..MaxFaults  BY <1>1 DEF TypeOK
<1> QED BY <1>2, <1>3, DiskStep DEF Mild

LEMMA EarlyStep ==
    ASSUME IInv, op # Nothing, UNCHANGED disk, NEW at \in Steps, Caught(at, "early"),
           faults < MaxFaults, faults' = faults + 1, UNCHANGED degraded
    PROVE  /\ Onward /\ op'.at = at /\ op'.locked = op.locked
           /\ (Mild' => Mild /\ ~InCleanUp)
           /\ UNCHANGED <<commits, heads, trees>> /\ HEAD' = HEAD /\ Source' = Source
           /\ Course' => Inherits
<1>1. TypeOK  BY DEF IInv
<1>2. Onward /\ op'.at = at /\ op'.locked = op.locked
      /\ (Mild' => op.fault = "none" /\ ~InCleanUp)
    BY <1>1, Catches
<1>3. degraded' \in BOOLEAN /\ faults' \in 0..MaxFaults  BY <1>1, OneMore DEF TypeOK
<1> QED BY <1>2, <1>3, DiskStep DEF Mild

LEMMA AtBranch ==
    ASSUME IInv, NEW at, At({"create", "restore"}, at)
    PROVE  /\ op # Nothing /\ op.kind \in {"create", "restore"} /\ op.at = at
           /\ TypeOK /\ Whole /\ Trees
           /\ op.given \in DOMAIN commits /\ op.on \in Branches /\ op.on \in Places
           /\ Place = op.on /\ BranchCourse
           /\ trees[op.on] # Nothing => trees[op.on] \in Worktrees
           /\ Onward /\ BranchCourse' => Course'
<1>1. op # Nothing /\ op.kind \in {"create", "restore"} /\ op.at = at  BY DEF At
<1>2. TypeOK /\ Whole /\ Trees /\ BranchCourse  BY <1>1 DEF IInv, Course
<1>3. op.on \in Branches /\ op.on \in Places  BY <1>1, <1>2, OperationIs DEF Places
<1>4. trees[op.on] # Nothing => trees[op.on] \in Worktrees  BY <1>2, <1>3, WorktreeIs
<1>5. Onward /\ BranchCourse' => Course'  BY <1>1 DEF Onward, Course
<1> QED BY <1>1, <1>2, <1>3, <1>4, <1>5 DEF Place, BranchCourse

\* The branch that is being created, and its worktree, come and go.
LEMMA BranchStep ==
    ASSUME IInv, op # Nothing, op.kind \in {"create", "restore"}, Onward,
           NEW k \in {0, op.given}, NEW t \in Worktrees \cup {Nothing},
           heads' = [heads EXCEPT ![op.on] = k], trees' = [trees EXCEPT ![op.on] = t],
           UNCHANGED <<initialized, commits>>,
           k = 0 => t = Nothing, t # Nothing => t.merging = 0,
           degraded' \in BOOLEAN, faults' \in 0..MaxFaults
    PROVE  /\ HEAD' = k /\ trees'[op.on] = t
           /\ Course' => Inherits
<1>1. TypeOK /\ Whole /\ Trees /\ Reached /\ Elsewhere /\ BranchCourse  BY DEF IInv, Course
<1>2. op.on \in Branches /\ op.on \in Places /\ Place = op.on /\ op.on # Main
    BY <1>1, OperationIs DEF Places, Place, BranchCourse
<1>3. op' # Nothing /\ op'.kind = op.kind /\ op'.on = op.on /\ op'.was = op.was
    BY DEF Onward
<1>4. k \in 0..Len(commits)
    <2>1. commits \in Seq(Commits) /\ op.given \in DOMAIN commits  BY <1>1 DEF TypeOK, BranchCourse
    <2>2. DOMAIN commits = 1..Len(commits) /\ Len(commits) \in Nat  BY <2>1
    <2> QED BY <2>1, <2>2
<1>5. /\ heads' \in [Branches -> 0..Len(commits)] /\ heads'[op.on] = k
      /\ \A b \in Branches : b # op.on => heads'[b] = heads[b]
    <2>1. heads \in [Branches -> 0..Len(commits)]  BY <1>1 DEF TypeOK
    <2> QED BY <1>2, <1>4, <2>1
<1>6. /\ trees' \in [Places -> Worktrees \cup {Nothing}] /\ trees'[op.on] = t
      /\ \A p \in Places : p # op.on => trees'[p] = trees[p]
    <2>1. trees \in [Places -> Worktrees \cup {Nothing}]  BY <1>1 DEF TypeOK
    <2> QED BY <1>2, <2>1
<1>7. HEAD' = k /\ Place' = Place  BY <1>3, <1>5 DEF HEAD, Place
<1>8. TypeOK'
    <2>1. op' \in Operations(IF op'.kind = "checkpoint" THEN Documents ELSE Nat)
        BY DEF Onward, Gifts
    <2> QED BY <1>1, <1>5, <1>6, <2>1 DEF TypeOK
<1>9. Whole'
    <2>1. Main \in Branches  BY GitAssumption
    <2> QED BY <1>1, <1>2, <1>5, <2>1 DEF Whole, Past
<1>10. Trees'
    <2>1. ASSUME NEW p \in Places, p = op.on PROVE Sound(p, trees[p])'
        BY <2>1, <1>2, <1>5, <1>6 DEF Sound
    <2>2. ASSUME NEW p \in Places, p # op.on PROVE Sound(p, trees[p])'
        <3>1. Sound(p, trees[p]) /\ trees'[p] = trees[p]  BY <1>1, <1>6, <2>2 DEF Trees
        <3>2. p \in Branches => heads'[p] = heads[p]  BY <1>5, <2>2
        <3> QED BY <3>1, <3>2 DEF Sound, Pending, Content, Past
    <2> QED BY <2>1, <2>2 DEF Trees
<1>11. Visible' = Visible  BY <1>3, <1>5 DEF Visible
<1>12. Reached'  BY <1>1, <1>11 DEF Reached, Past
<1>13. Elsewhere'  BY <1>1, <1>3, <1>5, <1>6, <1>7, <1>2 DEF Elsewhere
<1>14. UNCHANGED Implements!vars  BY <1>11 DEF Implements!vars
<1> QED BY <1>6, <1>7, <1>8, <1>9, <1>10, <1>12, <1>13, <1>14 DEF IInv, Inherits

LEMMA AddBranchStep == ASSUME IInv, AddBranch PROVE Inherits
<1> DEFINE t == Worktree(Content(op.given), FALSE)
<1>1. /\ op # Nothing /\ op.kind \in {"create", "restore"} /\ op.at = "add"
      /\ TypeOK /\ Whole
      /\ op.given \in DOMAIN commits /\ op.on \in Branches /\ op.on \in Places
      /\ BranchCourse
      /\ Onward /\ BranchCourse' => Course'
    BY AtBranch DEF AddBranch
<1>2. HEAD = 0 /\ trees[op.on] = Nothing /\ op.result = "done" /\ op.given # 0
    BY <1>1, CommitIs DEF BranchCourse
<1>3. /\ t \in Worktrees /\ t.merging = 0 /\ t.locked = FALSE
      /\ t.index = Content(op.given) /\ t.files = Content(op.given)
    <2>1. Content(op.given) \in Contents  BY <1>1, CommitIs DEF Contents
    <2> QED BY <2>1 DEF Worktree, Worktrees
<1>4. t # Nothing  BY <1>3, NothingAssumption
<1> HIDE DEF t
<1>5. ASSUME Added, Onward, degraded' \in BOOLEAN, faults' \in 0..MaxFaults
      PROVE  /\ HEAD' = op.given /\ trees'[op.on] = t /\ Clean(op.on, HEAD)'
             /\ UNCHANGED commits
             /\ Course' => Inherits
    <2>1. /\ heads' = [heads EXCEPT ![op.on] = op.given]
          /\ trees' = [trees EXCEPT ![op.on] = t]
          /\ UNCHANGED <<initialized, commits>>
        BY <1>5 DEF Added, SetHead, t
    <2>2. HEAD' = op.given /\ trees'[op.on] = t /\ (Course' => Inherits)
        BY <1>1, <1>2, <1>3, <1>5, <2>1, BranchStep
    <2>3. op'.on = op.on  BY <1>5 DEF Onward
    <2>4. Clean(op.on, HEAD)'  BY <1>3, <2>1, <2>2, <2>3 DEF Clean, Content
    <2> QED BY <2>1, <2>2, <2>4
<1>6. CASE Works(Added, "lock")
    <2>1. Onward /\ op'.at = "lock" /\ op'.result = op.result
        BY <1>1, <1>6, Goes DEF Works, Steps
    <2>2. degraded' \in BOOLEAN /\ faults' \in 0..MaxFaults  BY <1>1, <1>6 DEF Works, TypeOK
    <2>3. /\ HEAD' = op.given /\ trees'[op.on] = t /\ Clean(op.on, HEAD)'
          /\ UNCHANGED commits
          /\ Course' => Inherits
        BY <1>5, <1>6, <2>1, <2>2 DEF Works
    <2>4. BranchCourse'
        BY <1>1, <1>2, <1>3, <1>4, <2>1, <2>3 DEF BranchCourse, Onward
    <2> QED BY <1>1, <2>1, <2>3, <2>4
<1>7. ASSUME faults < MaxFaults, faults' = faults + 1, UNCHANGED degraded
      PROVE  degraded' \in BOOLEAN /\ faults' \in 0..MaxFaults
    BY <1>1, <1>7, OneMore DEF TypeOK
<1>8. CASE Fails(Added, "thrown")
    <2>1. CASE UNCHANGED disk /\ Caught("thrown", "early")
        <3>1. /\ Onward /\ op'.at = "thrown"
              /\ UNCHANGED <<commits, heads, trees>> /\ HEAD' = HEAD
              /\ Course' => Inherits
            BY <1>1, <1>8, <2>1, EarlyStep DEF Fails, Steps
        <3>2. BranchCourse'  BY <1>1, <1>2, <3>1 DEF BranchCourse, Onward
        <3> QED BY <1>1, <3>1, <3>2
    <2>2. CASE Added /\ Caught("thrown", "late")
        <3>1. Onward /\ op'.at = "thrown" /\ ~Mild'  BY <1>1, <2>2, Catches DEF Steps
        <3>2. HEAD' = op.given /\ UNCHANGED commits /\ (Course' => Inherits)
            BY <1>5, <1>7, <1>8, <2>2, <3>1 DEF Fails
        <3>3. BranchCourse'  BY <1>1, <3>1, <3>2 DEF BranchCourse, Onward
        <3> QED BY <1>1, <3>1, <3>2, <3>3
    <2> QED BY <1>8, <2>1, <2>2 DEF Fails
<1>9. CASE /\ faults < MaxFaults /\ faults' = faults + 1 /\ UNCHANGED degraded
           /\ SetHead(op.given) /\ UNCHANGED trees
           /\ Caught("thrown", "late")
    <2>1. Onward /\ op'.at = "thrown" /\ ~Mild'  BY <1>1, <1>9, Catches DEF Steps
    <2>2. trees' = [trees EXCEPT ![op.on] = Nothing]
        <3>1. trees \in [Places -> Worktrees \cup {Nothing}]  BY <1>1 DEF TypeOK
        <3> QED BY <1>1, <1>2, <1>9, <3>1
    <2>3. heads' = [heads EXCEPT ![op.on] = op.given] /\ UNCHANGED <<initialized, commits>>
        BY <1>9 DEF SetHead
    <2>4. HEAD' = op.given /\ (Course' => Inherits)
        BY <1>1, <1>2, <1>7, <1>9, <2>1, <2>2, <2>3, BranchStep
    <2>5. BranchCourse'  BY <1>1, <2>1, <2>3, <2>4 DEF BranchCourse, Onward
    <2> QED BY <1>1, <2>1, <2>4, <2>5
<1> QED BY <1>6, <1>8, <1>9 DEF AddBranch, Command
\* A lock is put on a worktree, or taken off it.
LEMMA Relocked ==
    ASSUME IInv, op # Nothing, NEW p \in Places, trees[p] # Nothing, NEW locked \in BOOLEAN,
           NEW t, t = [trees[p] EXCEPT !.locked = locked]
    PROVE  /\ t \in Worktrees /\ Sound(p, t) /\ t.locked = locked /\ t # Nothing
           /\ t.index = trees[p].index /\ t.files = trees[p].files
           /\ t.merging = trees[p].merging
<1>1. trees[p] \in Worktrees  BY WorktreeIs DEF IInv
<1>2. /\ t \in Worktrees /\ t.locked = locked
      /\ t.index = trees[p].index /\ t.files = trees[p].files /\ t.merging = trees[p].merging
    BY <1>1 DEF Worktrees
<1>3. t # Nothing  BY <1>2, NothingAssumption
<1>4. Sound(p, trees[p])  BY DEF IInv, Trees
<1>5. Sound(p, t)  BY <1>2, <1>3, <1>4 DEF Sound, Pending
<1> QED BY <1>2, <1>3, <1>5

LEMMA LockBranchStep == ASSUME IInv, LockBranch PROVE Inherits
<1>1. /\ op # Nothing /\ op.kind \in {"create", "restore"} /\ op.at = "lock"
      /\ TypeOK /\ op.on \in Branches /\ op.on \in Places /\ Place = op.on /\ BranchCourse
      /\ Onward /\ BranchCourse' => Course'
    BY AtBranch DEF LockBranch
<1>2. PICK t : t = [trees[op.on] EXCEPT !.locked = TRUE]  OBVIOUS
<1>3. Command(SetTree(Place, t), "list", "remove")
    BY <1>1, <1>2 DEF LockBranch, Locked, Command, Works, Fails, SetTree
<1>4. /\ t \in Worktrees /\ Sound(op.on, t) /\ t # Nothing
      /\ t.index = trees[op.on].index /\ t.files = trees[op.on].files
    <2>1. PICK p \in Places : p = op.on  BY <1>1
    <2>2. trees[p] # Nothing /\ t = [trees[p] EXCEPT !.locked = TRUE]
        BY <1>1, <1>2, <2>1 DEF BranchCourse
    <2>3. /\ t \in Worktrees /\ Sound(p, t) /\ t # Nothing
          /\ t.index = trees[p].index /\ t.files = trees[p].files
        BY <1>1, <2>2, Relocked
    <2> QED BY <2>1, <2>3
<1>5. /\ Onward /\ UNCHANGED <<commits, heads>> /\ HEAD' = HEAD
      /\ \/ op'.at = "list" /\ trees'[op.on] = t /\ op'.result = op.result
         \/ op'.at = "remove" /\ trees'[op.on] = trees[op.on]
         \/ op'.at = "remove" /\ trees'[op.on] = t /\ ~Mild'
      /\ Course' => Inherits
    BY <1>1, <1>3, <1>4, TreeCommand DEF Steps
<1>6. BranchCourse'
    BY <1>1, <1>4, <1>5 DEF BranchCourse, Onward, Clean, Content
<1> QED BY <1>1, <1>5, <1>6

LEMMA UnlockBranchStep == ASSUME IInv, UnlockBranch PROVE Inherits
<1>1. /\ op # Nothing /\ op.kind \in {"create", "restore"} /\ op.at = "unlock"
      /\ TypeOK /\ op.on \in Branches /\ op.on \in Places /\ Place = op.on /\ BranchCourse
      /\ Onward /\ BranchCourse' => Course'
    BY AtBranch DEF UnlockBranch
<1>2. PICK t : t = [trees[op.on] EXCEPT !.locked = FALSE]  OBVIOUS
<1>3. Command(SetTree(Place, t), "remove", "remove")
    BY <1>1, <1>2 DEF UnlockBranch, Unlocked, Command, Works, Fails, SetTree
<1>4. t \in Worktrees /\ Sound(op.on, t) /\ t # Nothing /\ t.locked = FALSE
    BY <1>1, <1>2, Relocked DEF BranchCourse
<1>5. InCleanUp  BY <1>1 DEF InCleanUp
<1>6. /\ Onward /\ UNCHANGED <<commits, heads>> /\ HEAD' = HEAD
      /\ op'.at = "remove"
      /\ \/ trees'[op.on] = t
         \/ trees'[op.on] = trees[op.on] /\ ~Mild'
      /\ Course' => Inherits
    BY <1>1, <1>3, <1>4, <1>5, TreeCommand DEF Steps
<1>7. BranchCourse'
    BY <1>1, <1>4, <1>6 DEF BranchCourse, Onward
<1> QED BY <1>1, <1>6, <1>7

LEMMA RemoveBranchStep == ASSUME IInv, RemoveBranch PROVE Inherits
<1>1. /\ op # Nothing /\ op.kind \in {"create", "restore"} /\ op.at = "remove"
      /\ TypeOK /\ op.on \in Branches /\ op.on \in Places /\ Place = op.on /\ BranchCourse
      /\ Onward /\ BranchCourse' => Course'
    BY AtBranch DEF RemoveBranch
<1>2. CASE trees[op.on].locked /\ Works(UNCHANGED disk, "delete")
    <2>1. /\ Onward /\ op'.at = "delete" /\ (Mild' <=> Mild)
          /\ UNCHANGED <<commits, heads, trees>> /\ HEAD' = HEAD
          /\ Course' => Inherits
        BY <1>1, <1>2, GoStep DEF Works, Steps
    <2>2. BranchCourse'  BY <1>1, <1>2, <2>1 DEF BranchCourse, Onward
    <2> QED BY <1>1, <2>1, <2>2
<1>3. CASE Command(SetTree(op.on, Nothing), "delete", "delete")
    <2>1. Nothing \in Worktrees \cup {Nothing} /\ Sound(Place, Nothing)
        BY <1>1 DEF Sound, BranchCourse
    <2>2. Command(SetTree(Place, Nothing), "delete", "delete")  BY <1>1, <1>3
    <2>3. InCleanUp  BY <1>1 DEF InCleanUp
    <2>4. /\ Onward /\ UNCHANGED <<commits, heads>> /\ HEAD' = HEAD
          /\ op'.at = "delete"
          /\ \/ trees'[op.on] = Nothing
             \/ trees'[op.on] = trees[op.on] /\ ~Mild'
          /\ Course' => Inherits
        BY <1>1, <2>1, <2>2, <2>3, TreeCommand DEF Steps
    <2>5. BranchCourse'  BY <1>1, <2>4 DEF BranchCourse, Onward
    <2> QED BY <1>1, <2>4, <2>5
<1> QED BY <1>2, <1>3 DEF RemoveBranch

LEMMA DeleteBranchStep == ASSUME IInv, DeleteBranch PROVE Inherits
<1>1. /\ op # Nothing /\ op.kind \in {"create", "restore"} /\ op.at = "delete"
      /\ TypeOK /\ op.on \in Branches /\ op.on \in Places /\ BranchCourse
      /\ Onward /\ BranchCourse' => Course'
    BY AtBranch DEF DeleteBranch
<1>2. CASE trees[op.on] # Nothing /\ Works(UNCHANGED disk, "thrown")
    <2>1. /\ Onward /\ op'.at = "thrown" /\ (Mild' <=> Mild)
          /\ UNCHANGED <<commits, heads, trees>> /\ HEAD' = HEAD
          /\ Course' => Inherits
        BY <1>1, <1>2, GoStep DEF Works, Steps
    <2>2. BranchCourse'  BY <1>1, <1>2, <2>1 DEF BranchCourse, Onward
    <2> QED BY <1>1, <2>1, <2>2
<1>3. CASE trees[op.on] = Nothing /\ Command(SetHead(0) /\ UNCHANGED trees, "thrown", "thrown")
    <2>1. trees = [trees EXCEPT ![op.on] = Nothing]
        <3>1. trees \in [Places -> Worktrees \cup {Nothing}]  BY <1>1 DEF TypeOK
        <3> QED BY <1>1, <1>3, <3>1
    <2>2. ASSUME SetHead(0), UNCHANGED trees, Onward,
                 degraded' \in BOOLEAN, faults' \in 0..MaxFaults
          PROVE  /\ HEAD' = 0 /\ trees'[op.on] = Nothing /\ UNCHANGED commits
                 /\ Course' => Inherits
        BY <1>1, <2>1, <2>2, BranchStep DEF SetHead
    <2>3. CASE Works(SetHead(0) /\ UNCHANGED trees, "thrown")
        <3>1. Onward /\ op'.at = "thrown"  BY <1>1, <2>3, Goes DEF Works, Steps
        <3>2. degraded' \in BOOLEAN /\ faults' \in 0..MaxFaults  BY <1>1, <2>3 DEF Works, TypeOK
        <3>3. /\ HEAD' = 0 /\ trees'[op.on] = Nothing /\ UNCHANGED commits
              /\ Course' => Inherits
            BY <2>2, <2>3, <3>1, <3>2 DEF Works
        <3>4. BranchCourse'  BY <1>1, <3>1, <3>3 DEF BranchCourse, Onward
        <3> QED BY <1>1, <3>1, <3>3, <3>4
    <2>4. CASE Fails(SetHead(0) /\ UNCHANGED trees, "thrown")
        <3>1. InCleanUp  BY <1>1 DEF InCleanUp
        <3>2. CASE UNCHANGED disk /\ Caught("thrown", "early")
            <4>1. /\ Onward /\ op'.at = "thrown" /\ ~Mild'
                  /\ UNCHANGED <<commits, heads, trees>> /\ HEAD' = HEAD
                  /\ Course' => Inherits
                BY <1>1, <2>4, <3>1, <3>2, EarlyStep DEF Fails, Steps
            <4>2. BranchCourse'  BY <1>1, <4>1 DEF BranchCourse, Onward
            <4> QED BY <1>1, <4>1, <4>2
        <3>3. CASE SetHead(0) /\ UNCHANGED trees /\ Caught("thrown", "late")
            <4>1. Onward /\ op'.at = "thrown" /\ ~Mild'  BY <1>1, <3>3, Catches DEF Steps
            <4>2. degraded' \in BOOLEAN /\ faults' \in 0..MaxFaults
                BY <1>1, <2>4, OneMore DEF Fails, TypeOK
            <4>3. HEAD' = 0 /\ UNCHANGED commits /\ (Course' => Inherits)
                BY <2>2, <3>3, <4>1, <4>2
            <4>4. BranchCourse'  BY <1>1, <4>1, <4>3 DEF BranchCourse, Onward
            <4> QED BY <1>1, <4>1, <4>3, <4>4
        <3> QED BY <2>4, <3>2, <3>3 DEF Fails
    <2> QED BY <1>3, <2>3, <2>4 DEF Command
<1> QED BY <1>2, <1>3 DEF DeleteBranch

LEMMA ListBranchStep == ASSUME IInv, ListBranch PROVE Inherits
<1>1. /\ op # Nothing /\ op.kind \in {"create", "restore"} /\ op.at = "list"
      /\ TypeOK /\ BranchCourse
      /\ Onward /\ BranchCourse' => Course'
    BY AtBranch DEF ListBranch
<1>2. UNCHANGED disk  BY DEF ListBranch
<1>3. CASE Return(TRUE) /\ UNCHANGED faults
    <2>1. degraded' \in BOOLEAN /\ faults' \in 0..MaxFaults  BY <1>1, <1>3 DEF Return, TypeOK
    <2> QED BY <1>1, <1>2, <1>3, <2>1, EndStep DEF Return
<1>4. CASE /\ faults < MaxFaults /\ faults' = faults + 1 /\ UNCHANGED degraded
           /\ Caught("unlock", "early")
    <2>1. /\ Onward /\ op'.at = "unlock" /\ UNCHANGED <<commits, heads, trees>>
          /\ HEAD' = HEAD
          /\ Course' => Inherits
        BY <1>1, <1>2, <1>4, EarlyStep DEF Steps
    <2>2. BranchCourse'  BY <1>1, <2>1 DEF BranchCourse, Onward
    <2> QED BY <1>1, <2>1, <2>2
<1> QED BY <1>3, <1>4 DEF ListBranch
-----------------------------------------------------------------------------
(* Previews *)

LEMMA AtPreview ==
    ASSUME IInv, NEW at, At({"preview"}, at)
    PROVE  /\ op # Nothing /\ op.kind = "preview" /\ op.at = at
           /\ TypeOK /\ Whole /\ Trees
           /\ op.on \in Branches /\ op.from \in Branches
           /\ Place = Preview /\ Preview \in Places /\ Preview # op.on /\ Preview \notin Branches
           /\ PreviewCourse
           /\ HEAD \in DOMAIN commits /\ Source \in DOMAIN commits
           /\ trees[Preview] # Nothing => trees[Preview] \in Worktrees
           /\ Onward /\ PreviewCourse' => Course'
<1>1. op # Nothing /\ op.kind = "preview" /\ op.at = at  BY DEF At
<1>2. TypeOK /\ Whole /\ Trees /\ PreviewCourse  BY <1>1 DEF IInv, Course
<1>3. op.on \in Branches /\ op.from \in Branches  BY <1>1, <1>2, OperationIs
<1>4. Preview \in Places /\ Preview # op.on /\ Preview \notin Branches
    BY <1>3, GitAssumption DEF Places
<1>5. trees[Preview] # Nothing => trees[Preview] \in Worktrees  BY <1>2, <1>4, WorktreeIs
<1>6. Onward /\ PreviewCourse' => Course'  BY <1>1 DEF Onward, Course
<1>7. HEAD \in DOMAIN commits /\ Source \in DOMAIN commits
    BY <1>2, <1>3, HeadIs DEF PreviewCourse, HEAD, Source
<1> QED BY <1>1, <1>2, <1>3, <1>4, <1>5, <1>6, <1>7 DEF Place

\* No branch is behind the worktree of a preview.
LEMMA NoBranch == ASSUME NEW t PROVE Sound(Preview, t)
BY GitAssumption DEF Sound

LEMMA PreviewCommand ==
    ASSUME IInv, NEW at, At({"preview"}, at), NEW t \in Worktrees \cup {Nothing},
           NEW next \in Steps, NEW catch \in Steps, Command(SetTree(Preview, t), next, catch)
    PROVE  /\ Onward /\ UNCHANGED <<commits, heads>> /\ HEAD' = HEAD /\ Source' = Source
           /\ op'.locked = op.locked /\ Unmoved' = Unmoved
           /\ op'.was = op.was
           /\ Clean(Preview, HEAD)' <=> (trees'[Preview].index = Content(HEAD)
                                         /\ trees'[Preview].files = Content(HEAD))
           /\ \/ /\ op'.at = next /\ trees'[Preview] = t
                 /\ op'.result = op.result /\ (Mild' <=> Mild)
              \/ /\ op'.at = catch /\ trees'[Preview] = trees[Preview]
                 /\ Mild' => Mild /\ ~InCleanUp
              \/ op'.at = catch /\ trees'[Preview] = t /\ ~Mild'
           /\ PreviewCourse' => Inherits
<1>1. /\ op # Nothing /\ TypeOK /\ Place = Preview
      /\ Onward /\ PreviewCourse' => Course'
    BY AtPreview
<1>2. Sound(Place, t)  BY <1>1, NoBranch
<1>3. /\ Onward /\ UNCHANGED <<commits, heads>> /\ HEAD' = HEAD /\ Source' = Source
      /\ op'.locked = op.locked
      /\ \/ /\ op'.at = next /\ trees'[Preview] = t
            /\ op'.result = op.result /\ op'.fault = op.fault
         \/ /\ op'.at = catch /\ trees'[Preview] = trees[Preview]
            /\ Mild' => Mild /\ ~InCleanUp
         \/ op'.at = catch /\ trees'[Preview] = t /\ ~Mild'
      /\ Course' => Inherits
    BY <1>1, <1>2, TreeCommand
<1>4. Unmoved' = Unmoved /\ Content(HEAD)' = Content(HEAD)
    BY <1>1, <1>3, Same DEF Content
<1>5. op'.was = op.was  BY <1>3 DEF Onward
<1> QED BY <1>1, <1>3, <1>4, <1>5 DEF Clean, Mild

LEMMA AddPreviewStep == ASSUME IInv, AddPreview PROVE Inherits
<1>1. PICK t : t = Worktree(Content(HEAD), FALSE)  OBVIOUS
<1>2. /\ At({"preview"}, "add") /\ PreviewCourse /\ op.at = "add" /\ op.kind = "preview"
      /\ HEAD \in DOMAIN commits /\ TypeOK /\ Whole
    BY AtPreview DEF AddPreview
<1>3. Content(HEAD) \in Contents  BY <1>2, CommitIs DEF Contents
<1>4. /\ t \in Worktrees /\ t.merging = 0 /\ ~t.locked
      /\ t.index = Content(HEAD) /\ t.files = Content(HEAD)
    BY <1>1, <1>3 DEF Worktree, Worktrees
<1>5. t # Nothing  BY <1>4, NothingAssumption
<1>6. Command(SetTree(Preview, t), "lock", "thrown")
    BY <1>1 DEF AddPreview, Command, Works, Fails, SetTree
<1>7. /\ HEAD' = HEAD /\ Source' = Source /\ Unmoved' = Unmoved /\ op'.was = op.was
      /\ Clean(Preview, HEAD)' <=> (trees'[Preview].index = Content(HEAD)
                                    /\ trees'[Preview].files = Content(HEAD))
      /\ \/ op'.at = "lock" /\ trees'[Preview] = t
         \/ op'.at = "thrown" /\ trees'[Preview] = trees[Preview]
         \/ op'.at = "thrown" /\ ~Mild'
      /\ PreviewCourse' => Inherits
    BY <1>2, <1>4, <1>6, PreviewCommand DEF Steps
<1>8. PreviewCourse'  BY <1>2, <1>4, <1>5, <1>7 DEF PreviewCourse
<1> QED BY <1>7, <1>8

LEMMA LockPreviewStep == ASSUME IInv, LockPreview PROVE Inherits
<1>1. PICK t : t = [trees[Preview] EXCEPT !.locked = TRUE]  OBVIOUS
<1>2. /\ At({"preview"}, "lock") /\ PreviewCourse /\ op.at = "lock" /\ op.kind = "preview"
      /\ op # Nothing /\ TypeOK /\ Place = Preview /\ Preview \in Places
      /\ Onward /\ PreviewCourse' => Course'
    BY AtPreview DEF LockPreview
<1>3. trees[Preview] # Nothing /\ TRUE \in BOOLEAN  BY <1>2 DEF PreviewCourse
<1>4. /\ t \in Worktrees /\ t # Nothing /\ t.merging = trees[Preview].merging
      /\ t.index = trees[Preview].index /\ t.files = trees[Preview].files
    BY <1>1, <1>2, <1>3, Relocked
<1>5. CASE /\ SetTree(Preview, t)
           /\ op' = [op EXCEPT !.at = "merge", !.locked = TRUE]
           /\ UNCHANGED <<degraded, faults>>
    <2>1. op \in Operations(Gifts(op.kind)) /\ op.result \in Results /\ op.fault \in Faults
        BY <1>2, OperationIs
    <2>2. op' = [op EXCEPT !.at = "merge", !.result = op.result, !.fault = op.fault,
                           !.locked = TRUE]
        BY <1>5, <2>1 DEF Operations
    <2>3. Onward /\ op'.at = "merge" /\ op'.locked
        <3>1. "merge" \in Steps /\ TRUE \in BOOLEAN  BY DEF Steps
        <3> HIDE <1>5
        <3> QED BY <1>2, <2>1, <2>2, <3>1, GoesOn
    <2>4. degraded' \in BOOLEAN /\ faults' \in 0..MaxFaults  BY <1>2, <1>5 DEF TypeOK
    <2>5. Sound(Place, t) /\ SetTree(Place, t)  BY <1>2, <1>5, NoBranch
    <2>6. /\ UNCHANGED <<commits, heads>> /\ HEAD' = HEAD /\ Source' = Source
          /\ trees'[Preview] = t
          /\ Course' => Inherits
        BY <1>2, <1>4, <2>3, <2>4, <2>5, TreeStep
    <2>7. Unmoved' = Unmoved  BY <1>2, <2>3, <2>6, Same
    <2>8. Clean(Preview, HEAD)'  BY <1>2, <1>4, <2>6 DEF PreviewCourse, Clean, Content
    <2>9. PreviewCourse'  BY <1>2, <1>4, <2>3, <2>6, <2>7, <2>8 DEF PreviewCourse
    <2> QED BY <1>2, <2>3, <2>6, <2>9
<1>6. CASE Fails(SetTree(Preview, t), "abort")
    <2>1. Command(SetTree(Preview, t), "abort", "abort")  BY <1>6 DEF Command
    <2>2. /\ HEAD' = HEAD /\ Source' = Source /\ Unmoved' = Unmoved /\ op'.was = op.was
          /\ op'.at = "abort" /\ trees'[Preview] \in {trees[Preview], t}
          /\ Clean(Preview, HEAD)' <=> (trees'[Preview].index = Content(HEAD)
                                        /\ trees'[Preview].files = Content(HEAD))
          /\ PreviewCourse' => Inherits
        BY <1>2, <1>4, <2>1, PreviewCommand DEF Steps
    <2>3. Mild' => trees'[Preview] = trees[Preview]
        <3>1. CASE UNCHANGED disk  BY <3>1 DEF disk
        <3>2. CASE Caught("abort", "late")  BY <1>2, <3>2, Catches DEF Steps
        <3> QED BY <1>6, <3>1, <3>2 DEF Fails
    <2>4. PreviewCourse'  BY <1>2, <1>3, <1>4, <2>2, <2>3 DEF PreviewCourse, Clean
    <2> QED BY <2>2, <2>4
<1> QED BY <1>1, <1>2, <1>5, <1>6 DEF LockPreview, Locked, Fails, SetTree
LEMMA VerifyPreviewStep == ASSUME IInv, VerifyPreview PROVE Inherits
<1>1. /\ op # Nothing /\ op.kind = "preview" /\ op.at = "verify" /\ TypeOK
      /\ PreviewCourse
      /\ Onward /\ PreviewCourse' => Course'
    BY AtPreview DEF VerifyPreview
<1>2. UNCHANGED disk /\ UNCHANGED <<degraded, faults>>  BY DEF VerifyPreview
<1>3. CASE ~Clean(Preview, HEAD) /\ Refuse("thrown")
    <2>1. Turns("thrown", "refused")  BY <1>3 DEF Refuse, Turns
    <2>2. Onward /\ op'.at = "thrown" /\ op'.fault = op.fault
        BY <1>1, <2>1, GoesWith DEF Steps, Results
    <2>3. degraded' \in BOOLEAN /\ faults' \in 0..MaxFaults  BY <1>1, <1>2 DEF TypeOK
    <2>4. /\ UNCHANGED <<commits, heads, trees>> /\ HEAD' = HEAD /\ Source' = Source
          /\ Course' => Inherits
        BY <1>1, <1>2, <2>2, <2>3, DiskStep
    <2>5. Unmoved' = Unmoved  BY <1>1, <2>2, <2>4, Same
    <2>6. ~Mild'  BY <1>1, <1>3, <2>2 DEF PreviewCourse, Mild
    <2>7. PreviewCourse'  BY <1>1, <2>2, <2>4, <2>5, <2>6 DEF PreviewCourse
    <2> QED BY <1>1, <2>2, <2>4, <2>7
<1>4. CASE Goto(IF op.locked THEN "unlock" ELSE "remove")
    <2>1. PICK next \in {"unlock", "remove"} :
            Goto(next) /\ (next = "remove" => ~op.locked)
        BY <1>4
    <2>2. /\ Onward /\ op'.at = next /\ op'.locked = op.locked /\ (Mild' <=> Mild)
          /\ UNCHANGED <<commits, heads, trees>> /\ HEAD' = HEAD /\ Source' = Source
          /\ Course' => Inherits
        BY <1>1, <1>2, <2>1, GoStep DEF Steps
    <2>3. Unmoved' = Unmoved  BY <1>1, <2>2, Same
    <2>4. PreviewCourse'  BY <1>1, <2>1, <2>2, <2>3 DEF PreviewCourse
    <2> QED BY <1>1, <2>2, <2>4
<1> QED BY <1>3, <1>4 DEF VerifyPreview

LEMMA UnlockPreviewStep == ASSUME IInv, UnlockPreview PROVE Inherits
<1>1. PICK t : t = [trees[Preview] EXCEPT !.locked = FALSE]  OBVIOUS
<1>2. /\ At({"preview"}, "unlock") /\ PreviewCourse /\ op.at = "unlock" /\ op.kind = "preview"
      /\ op # Nothing /\ Place = Preview /\ Preview \in Places
    BY AtPreview DEF UnlockPreview
<1>3. trees[Preview] # Nothing /\ FALSE \in BOOLEAN  BY <1>2 DEF PreviewCourse
<1>4. t \in Worktrees /\ t # Nothing /\ t.locked = FALSE
    BY <1>1, <1>2, <1>3, Relocked
<1>5. Command(SetTree(Preview, t), "remove", "thrown")
    BY <1>1, <1>2 DEF UnlockPreview, Unlocked, Command, Works, Fails, SetTree
<1>6. InCleanUp  BY <1>2 DEF InCleanUp
<1>7. /\ HEAD' = HEAD /\ Source' = Source /\ Unmoved' = Unmoved
      /\ \/ op'.at = "remove" /\ trees'[Preview] = t
         \/ op'.at = "thrown" /\ ~Mild'
      /\ PreviewCourse' => Inherits
    BY <1>2, <1>4, <1>5, <1>6, PreviewCommand DEF Steps
<1>8. PreviewCourse'  BY <1>2, <1>4, <1>7 DEF PreviewCourse
<1> QED BY <1>7, <1>8

LEMMA RemovePreviewStep == ASSUME IInv, RemovePreview PROVE Inherits
<1>1. /\ At({"preview"}, "remove")
      /\ op # Nothing /\ op.kind = "preview" /\ op.at = "remove" /\ TypeOK
      /\ PreviewCourse
      /\ Onward /\ PreviewCourse' => Course'
    BY AtPreview DEF RemovePreview
<1>2. CASE /\ trees[Preview].locked
           /\ op' = [op EXCEPT !.at = "thrown", !.result = "failed"]
           /\ UNCHANGED <<disk, degraded, faults>>
    <2>1. Turns("thrown", "failed")  BY <1>2 DEF Turns
    <2>2. Onward /\ op'.at = "thrown" /\ op'.fault = op.fault
        BY <1>1, <2>1, GoesWith DEF Steps, Results
    <2>3. degraded' \in BOOLEAN /\ faults' \in 0..MaxFaults  BY <1>1, <1>2 DEF TypeOK
    <2>4. /\ UNCHANGED <<commits, heads, trees>> /\ HEAD' = HEAD /\ Source' = Source
          /\ Course' => Inherits
        BY <1>1, <1>2, <2>2, <2>3, DiskStep
    <2>5. Unmoved' = Unmoved  BY <1>1, <2>2, <2>4, Same
    <2>6. ~Mild'  BY <1>1, <1>2, <2>2 DEF PreviewCourse, Mild
    <2>7. PreviewCourse'  BY <1>1, <2>2, <2>4, <2>5, <2>6 DEF PreviewCourse
    <2> QED BY <1>1, <2>2, <2>4, <2>7
<1>3. ASSUME NEW next \in {"answer", "thrown"}, Command(SetTree(Preview, Nothing), next, "thrown")
      PROVE  Inherits
    <2>1. InCleanUp  BY <1>1 DEF InCleanUp
    <2>2. /\ HEAD' = HEAD /\ Source' = Source /\ Unmoved' = Unmoved
          /\ op'.at \in {"answer", "thrown"}
          /\ \/ trees'[Preview] = Nothing
             \/ ~Mild'
          /\ PreviewCourse' => Inherits
        BY <1>1, <1>3, <2>1, PreviewCommand DEF Steps
    <2>3. PreviewCourse'  BY <1>1, <2>2 DEF PreviewCourse
    <2> QED BY <2>2, <2>3
<1> QED BY <1>2, <1>3 DEF RemovePreview

LEMMA AnswerPreviewStep == ASSUME IInv, AnswerPreview PROVE Inherits
<1>1. op # Nothing /\ TypeOK  BY AtPreview DEF AnswerPreview
<1>2. op' = Nothing /\ degraded' \in BOOLEAN /\ faults' \in 0..MaxFaults /\ UNCHANGED disk
    BY <1>1 DEF AnswerPreview, Return, TypeOK, disk
<1> QED BY <1>1, <1>2, EndStep
-----------------------------------------------------------------------------
(* Merges *)

LEMMA AtMerge ==
    ASSUME IInv, NEW at, At({"merge"}, at)
    PROVE  /\ op # Nothing /\ op.kind = "merge" /\ op.at = at
           /\ TypeOK /\ Whole /\ Trees
           /\ op.on \in Branches /\ op.on \in Places /\ Place = op.on
           /\ MergeCourse
           /\ HEAD \in DOMAIN commits /\ Source \in DOMAIN commits
           /\ trees[op.on] \in Worktrees
           /\ Onward /\ MergeCourse' => Course'
<1>1. op # Nothing /\ op.kind = "merge" /\ op.at = at  BY DEF At
<1>2. TypeOK /\ Whole /\ Trees /\ MergeCourse  BY <1>1 DEF IInv, Course
<1>3. op.on \in Branches /\ op.from \in Branches /\ op.on \in Places
    BY <1>1, <1>2, OperationIs DEF Places
<1>4. trees[op.on] \in Worktrees  BY <1>2, <1>3, WorktreeIs DEF MergeCourse
<1>5. Onward /\ MergeCourse' => Course'  BY <1>1 DEF Onward, Course
<1>6. HEAD \in DOMAIN commits /\ Source \in DOMAIN commits
    BY <1>2, <1>3, HeadIs DEF MergeCourse, HEAD, Source
<1> QED BY <1>1, <1>2, <1>3, <1>4, <1>5, <1>6 DEF Place

\* What git merge leaves in the worktree.
LEMMA AttemptIs ==
    ASSUME IInv, op # Nothing, HEAD \in DOMAIN commits, Source \in DOMAIN commits,
           trees[Place] \in Worktrees, ~UpToDate, NEW t,
           t = [trees[Place] EXCEPT !.index = MergeResult, !.files = MergeResult,
                                    !.merging = Source]
    PROVE  /\ t \in Worktrees /\ t # Nothing /\ Sound(Place, t)
           /\ t.index = MergeIn(commits, Source, HEAD)
           /\ t.files = MergeIn(commits, Source, HEAD)
           /\ t.merging = Source /\ t.merging # 0 /\ t.locked = trees[Place].locked
           /\ Outcome \in Results
           /\ Outcome = "done" => MergeIn(commits, Source, HEAD) \in Documents
<1>1. TypeOK /\ Whole /\ Trees  BY DEF IInv
<1>2. MergeResult = MergeIn(commits, Source, HEAD)  BY SameHistory DEF MergeResult
<1>3. MergeResult \in Documents \cup {Conflicting, Invalid}  BY <1>1, <1>2, MergesTo
<1>4. Source \in Nat /\ Source # 0 /\ HEAD # 0  BY <1>1, CommitIs
<1>5. /\ t \in Worktrees
      /\ t.index = MergeResult /\ t.files = MergeResult /\ t.merging = Source
      /\ t.locked = trees[Place].locked
    BY <1>3, <1>4 DEF Worktrees, Contents
<1>6. t # Nothing  BY <1>5, NothingAssumption
<1>7. Sound(Place, t)
    <2>1. CASE op.kind = "preview"  BY <2>1, NoBranch DEF Place
    <2>2. CASE op.kind # "preview"
        <3>1. Place = op.on /\ heads[op.on] = HEAD  BY <2>2 DEF Place, HEAD
        <3>2. Source \notin Past(HEAD)  BY SameHistory DEF UpToDate
        <3> QED BY <1>2, <1>4, <1>5, <1>6, <3>1, <3>2 DEF Sound, Pending
    <2> QED BY <2>1, <2>2
<1>8. Outcome \in Results /\ (Outcome = "done" => MergeResult \in Documents)
    <2>1. Conflicting \notin Documents /\ Invalid \notin Documents /\ Conflicting # Invalid
        BY GitAssumption
    <2> QED BY <1>3, <2>1 DEF Outcome, Results
<1> QED BY <1>2, <1>4, <1>5, <1>6, <1>7, <1>8
LEMMA AttemptPreviewStep == ASSUME IInv, AttemptMerge, op.kind = "preview" PROVE Inherits
<1>1. PICK t : t = [trees[Place] EXCEPT !.index = MergeResult, !.files = MergeResult,
                                        !.merging = Source]
    OBVIOUS
<1>2. At({"preview"}, "merge")  BY DEF AttemptMerge, At
<1>3. /\ op # Nothing /\ op.kind = "preview" /\ op.at = "merge" /\ TypeOK
      /\ Place = Preview /\ PreviewCourse
      /\ HEAD \in DOMAIN commits /\ Source \in DOMAIN commits
      /\ Onward /\ PreviewCourse' => Course'
    BY <1>2, AtPreview
<1>4. trees[Place] \in Worktrees /\ ~UpToDate
    BY <1>2, <1>3, AtPreview DEF PreviewCourse, AttemptMerge
<1>5. /\ t \in Worktrees /\ t # Nothing /\ Sound(Place, t) /\ t.merging # 0
      /\ Outcome \in Results
    BY <1>1, <1>3, <1>4, AttemptIs
<1>6. CASE /\ SetTree(Preview, t) /\ Turns("abort", Outcome)
           /\ UNCHANGED <<degraded, faults>>
    <2>1. Onward /\ op'.at = "abort" /\ op'.locked = op.locked
        BY <1>3, <1>5, <1>6, GoesWith DEF Steps
    <2>2. degraded' \in BOOLEAN /\ faults' \in 0..MaxFaults  BY <1>3, <1>6 DEF TypeOK
    <2>3. SetTree(Place, t)  BY <1>3, <1>6
    <2>4. /\ UNCHANGED <<commits, heads>> /\ HEAD' = HEAD /\ Source' = Source
          /\ trees'[Preview] = t
          /\ Course' => Inherits
        BY <1>3, <1>5, <2>1, <2>2, <2>3, TreeStep
    <2>5. Unmoved' = Unmoved  BY <1>3, <2>1, <2>4, Same
    <2>6. PreviewCourse'  BY <1>3, <1>5, <2>1, <2>4, <2>5 DEF PreviewCourse
    <2> QED BY <1>3, <2>1, <2>4, <2>6
<1>7. CASE Fails(SetTree(Preview, t), "abort")
    <2>1. Command(SetTree(Preview, t), "abort", "abort")  BY <1>7 DEF Command
    <2>2. /\ HEAD' = HEAD /\ Source' = Source /\ Unmoved' = Unmoved
          /\ op'.at = "abort" /\ op'.locked = op.locked
          /\ trees'[Preview] \in {trees[Preview], t}
          /\ Clean(Preview, HEAD)' <=> (trees'[Preview].index = Content(HEAD)
                                        /\ trees'[Preview].files = Content(HEAD))
          /\ PreviewCourse' => Inherits
        BY <1>2, <1>5, <2>1, PreviewCommand DEF Steps
    <2>3. PreviewCourse'  BY <1>3, <1>5, <2>2 DEF PreviewCourse, Clean
    <2> QED BY <2>2, <2>3
<1>8. Attempted <=> SetTree(Preview, t)  BY <1>1, <1>3 DEF Attempted, SetTree
<1>9. \/ /\ Attempted /\ Turns("abort", Outcome) /\ UNCHANGED <<degraded, faults>>
      \/ Fails(Attempted, "abort")
    BY <1>3 DEF AttemptMerge, Turns
<1>10. Fails(Attempted, "abort") => Fails(SetTree(Preview, t), "abort")  BY <1>8 DEF Fails
<1> QED BY <1>6, <1>7, <1>8, <1>9, <1>10

LEMMA MergeCommand ==
    ASSUME IInv, NEW at, At({"merge"}, at), NEW t \in Worktrees, Sound(op.on, t),
           NEW next \in Steps, NEW catch \in Steps, Command(SetTree(op.on, t), next, catch)
    PROVE  /\ Onward /\ HEAD' = HEAD /\ Source' = Source /\ Unmoved' = Unmoved
           /\ UNCHANGED <<commits, heads>> /\ op'.on = op.on /\ op'.was = op.was
           /\ Content(HEAD)' = Content(HEAD)
           /\ trees'[op.on] # Nothing
           /\ \/ /\ op'.at = next /\ trees'[op.on] = t
                 /\ op'.result = op.result /\ (Mild' <=> Mild)
              \/ /\ op'.at = catch /\ trees'[op.on] = trees[op.on]
                 /\ Mild' => Mild /\ ~InCleanUp
              \/ op'.at = catch /\ trees'[op.on] = t /\ ~Mild'
           /\ MergeCourse' => Inherits
<1>1. /\ op # Nothing /\ TypeOK /\ Place = op.on /\ trees[op.on] \in Worktrees
      /\ Onward /\ MergeCourse' => Course'
    BY AtMerge
<1>2. SetTree(Place, t) <=> SetTree(op.on, t)  BY <1>1
<1>3. Command(SetTree(Place, t), next, catch)  BY <1>1
<1>4. Sound(Place, t)  BY <1>1
<1>5. /\ Onward /\ UNCHANGED <<commits, heads>> /\ HEAD' = HEAD /\ Source' = Source
      /\ \/ /\ op'.at = next /\ trees'[op.on] = t
            /\ op'.result = op.result /\ op'.fault = op.fault
         \/ /\ op'.at = catch /\ trees'[op.on] = trees[op.on]
            /\ Mild' => Mild /\ ~InCleanUp
         \/ op'.at = catch /\ trees'[op.on] = t /\ ~Mild'
      /\ Course' => Inherits
    BY <1>1, <1>3, <1>4, TreeCommand
<1>6. Unmoved' = Unmoved /\ Content(HEAD)' = Content(HEAD)
    BY <1>1, <1>5, Same DEF Content
<1>7. t # Nothing /\ trees[op.on] # Nothing  BY <1>1, NothingAssumption
<1>8. op'.on = op.on /\ op'.was = op.was  BY <1>5 DEF Onward
<1> QED BY <1>1, <1>5, <1>6, <1>7, <1>8 DEF Mild

LEMMA AttemptMergeStep == ASSUME IInv, AttemptMerge, op.kind = "merge" PROVE Inherits
<1>1. PICK t : t = [trees[op.on] EXCEPT !.index = MergeResult, !.files = MergeResult,
                                        !.merging = Source]
    OBVIOUS
<1>2. At({"merge"}, "merge")  BY DEF AttemptMerge, At
<1>3. /\ op # Nothing /\ op.kind = "merge" /\ op.at = "merge" /\ TypeOK
      /\ Place = op.on /\ MergeCourse /\ trees[op.on] \in Worktrees
      /\ HEAD \in DOMAIN commits /\ Source \in DOMAIN commits
      /\ Onward /\ MergeCourse' => Course'
    BY <1>2, AtMerge
<1>4. trees[Place] \in Worktrees /\ ~UpToDate
      /\ t = [trees[Place] EXCEPT !.index = MergeResult, !.files = MergeResult,
                                  !.merging = Source]
    BY <1>1, <1>3 DEF AttemptMerge
<1>5. /\ t \in Worktrees /\ t # Nothing /\ Sound(Place, t)
      /\ t.index = MergeIn(commits, Source, HEAD)
      /\ t.files = MergeIn(commits, Source, HEAD)
      /\ t.merging = Source /\ t.merging # 0
      /\ Outcome \in Results
      /\ Outcome = "done" => MergeIn(commits, Source, HEAD) \in Documents
    <2> HIDE <1>1
    <2> QED BY <1>3, <1>4, AttemptIs
<1>6. Sound(op.on, t)  BY <1>3, <1>5
<1>7. CASE /\ SetTree(op.on, t)
           /\ Turns(IF Outcome = "done" THEN "commit" ELSE "abort", Outcome)
           /\ UNCHANGED <<degraded, faults>>
    <2>1. PICK next \in {"commit", "abort"} :
            /\ Turns(next, Outcome) /\ (next = "commit" => Outcome = "done")
        BY <1>7
    <2>2. Onward /\ op'.at = next /\ op'.result = Outcome /\ op'.fault = op.fault
        BY <1>3, <1>5, <2>1, GoesWith DEF Steps
    <2>3. degraded' \in BOOLEAN /\ faults' \in 0..MaxFaults  BY <1>3, <1>7 DEF TypeOK
    <2>4. SetTree(Place, t)  BY <1>3, <1>7
    <2>5. /\ UNCHANGED <<commits, heads>> /\ HEAD' = HEAD /\ Source' = Source
          /\ trees'[op.on] = t
          /\ Course' => Inherits
        BY <1>3, <1>5, <2>2, <2>3, <2>4, TreeStep
    <2>6. Unmoved' = Unmoved  BY <1>3, <2>2, <2>5, Same
    <2>7. op'.on = op.on /\ op'.was = op.was  BY <2>2 DEF Onward
    <2>8. MergeCourse'
        BY <1>3, <1>5, <2>1, <2>2, <2>5, <2>6, <2>7 DEF MergeCourse
    <2> QED BY <1>3, <2>2, <2>5, <2>8
<1>8. CASE Fails(SetTree(op.on, t), "abort")
    <2>1. Command(SetTree(op.on, t), "abort", "abort")  BY <1>8 DEF Command
    <2>2. /\ HEAD' = HEAD /\ Source' = Source /\ Unmoved' = Unmoved /\ op'.on = op.on
          /\ Content(HEAD)' = Content(HEAD) /\ trees'[op.on] # Nothing
          /\ op'.at = "abort" /\ trees'[op.on] \in {trees[op.on], t}
          /\ MergeCourse' => Inherits
        BY <1>2, <1>5, <1>6, <2>1, MergeCommand DEF Steps
    <2>3. trees'[op.on].merging = 0 => trees'[op.on] = trees[op.on]  BY <1>5, <2>2
    <2>4. MergeCourse'  BY <1>3, <2>2, <2>3 DEF MergeCourse, Clean
    <2> QED BY <2>2, <2>4
<1>9. Attempted <=> SetTree(op.on, t)  BY <1>1, <1>3 DEF Attempted, SetTree
<1>10. \/ /\ Attempted /\ Turns(IF Outcome = "done" THEN "commit" ELSE "abort", Outcome)
          /\ UNCHANGED <<degraded, faults>>
       \/ Fails(Attempted, "abort")
    BY <1>3 DEF AttemptMerge, Turns
<1>11. Fails(Attempted, "abort") => Fails(SetTree(op.on, t), "abort")  BY <1>9 DEF Fails
<1> QED BY <1>7, <1>8, <1>9, <1>10, <1>11
LEMMA AttemptStep == ASSUME IInv, AttemptMerge PROVE Inherits
<1>1. op.kind \in {"preview", "merge"}  BY DEF AttemptMerge, At
<1> QED BY <1>1, AttemptPreviewStep, AttemptMergeStep

LEMMA AttemptRefusedStep == ASSUME IInv, AttemptRefused PROVE Inherits
<1>1. /\ op # Nothing /\ op.kind = "merge" /\ op.at = "merge" /\ TypeOK
      /\ Place = op.on /\ MergeCourse
      /\ Onward /\ MergeCourse' => Course'
    BY AtMerge DEF AttemptRefused
<1>2. /\ trees[op.on].merging # 0 /\ Turns("abort", "failed")
      /\ UNCHANGED <<disk, degraded, faults>>
    BY <1>1 DEF AttemptRefused, Turns
<1>3. Onward  BY <1>1, <1>2, GoesWith DEF Steps, Results
<1>4. op'.at = "abort"  BY <1>1, <1>2, GoesWith DEF Steps, Results
<1>5. degraded' \in BOOLEAN /\ faults' \in 0..MaxFaults  BY <1>1, <1>2 DEF TypeOK
<1>6. /\ UNCHANGED <<commits, heads, trees>> /\ HEAD' = HEAD /\ Source' = Source
      /\ Course' => Inherits
    BY <1>1, <1>2, <1>3, <1>5, DiskStep
<1>7. Unmoved' = Unmoved  BY <1>1, <1>3, <1>6, Same
<1>8. op'.on = op.on  BY <1>3 DEF Onward
<1>9. MergeCourse'  BY <1>1, <1>2, <1>4, <1>6, <1>7, <1>8 DEF MergeCourse
<1> QED BY <1>1, <1>3, <1>6, <1>9

LEMMA AttemptUpToDateStep == ASSUME IInv, AttemptUpToDate PROVE Inherits
<1>1. op # Nothing /\ op.kind \in {"preview", "merge"} /\ TypeOK
    BY DEF AttemptUpToDate, At, IInv
<1>2. UNCHANGED disk /\ UNCHANGED faults  BY DEF AttemptUpToDate
<1>3. CASE op.kind = "merge"
    <2>1. op' = Nothing /\ degraded' \in BOOLEAN /\ faults' \in 0..MaxFaults
        BY <1>1, <1>3 DEF AttemptUpToDate, Return, TypeOK
    <2> QED BY <1>1, <1>2, <2>1, EndStep
<1>4. CASE op.kind = "preview"
    <2>1. At({"preview"}, "merge") /\ Goto("abort") /\ UNCHANGED degraded
        BY <1>4 DEF AttemptUpToDate, At
    <2>2. /\ op.at = "merge" /\ PreviewCourse
          /\ Onward /\ PreviewCourse' => Course'
        BY <2>1, AtPreview
    <2>3. /\ Onward /\ op'.at = "abort" /\ op'.locked = op.locked
          /\ UNCHANGED <<commits, heads, trees>> /\ HEAD' = HEAD /\ Source' = Source
          /\ Course' => Inherits
        BY <1>1, <1>2, <2>1, GoStep DEF Steps
    <2>4. Unmoved' = Unmoved  BY <1>1, <2>3, Same
    <2>5. PreviewCourse'  BY <2>2, <2>3, <2>4 DEF PreviewCourse, Clean, Content
    <2> QED BY <2>2, <2>3, <2>5
<1> QED BY <1>1, <1>3, <1>4

LEMMA AbortIs ==
    ASSUME IInv, op # Nothing, HEAD \in DOMAIN commits, trees[Place] \in Worktrees, NEW t,
           t = IF trees[Place].merging = 0 THEN trees[Place]
               ELSE Worktree(Content(HEAD), trees[Place].locked)
    PROVE  /\ t \in Worktrees /\ Sound(Place, t) /\ t # Nothing
           /\ t.merging = 0 /\ t.locked = trees[Place].locked
           /\ trees[Place].merging = 0 => t = trees[Place]
           /\ trees[Place].merging # 0 => t.index = Content(HEAD) /\ t.files = Content(HEAD)
           /\ Aborted <=> SetTree(Place, t)
<1>1. TypeOK /\ Whole  BY DEF IInv
<1>2. Sound(Place, trees[Place]) /\ trees = [trees EXCEPT ![Place] = trees[Place]]  BY Present
<1>3. Content(HEAD) \in Contents /\ HEAD # 0  BY <1>1, CommitIs DEF Contents
<1>4. CASE trees[Place].merging = 0
    <2>1. t = trees[Place]  BY <1>4
    <2>2. t # Nothing  BY <2>1, NothingAssumption
    <2>3. Aborted <=> SetTree(Place, t)
        BY <1>2, <1>4, <2>1 DEF Aborted, SetTree, disk
    <2> QED BY <1>2, <1>4, <2>1, <2>2, <2>3
<1>5. CASE trees[Place].merging # 0
    <2>1. t = Worktree(Content(HEAD), trees[Place].locked)  BY <1>5
    <2>2. trees[Place].locked \in BOOLEAN  BY DEF Worktrees
    <2>3. /\ t \in Worktrees /\ t.merging = 0 /\ t.locked = trees[Place].locked
          /\ t.index = Content(HEAD) /\ t.files = Content(HEAD)
        BY <1>3, <2>1, <2>2 DEF Worktree, Worktrees
    <2>4. t # Nothing  BY <2>3, NothingAssumption
    <2>5. trees[Place] # Nothing  BY NothingAssumption
    <2>6. Sound(Place, t)  BY <1>2, <2>3, <2>4, <2>5 DEF Sound
    <2>7. Aborted <=> SetTree(Place, t)  BY <1>5, <2>1 DEF Aborted
    <2> QED BY <1>5, <2>3, <2>4, <2>6, <2>7
<1> QED BY <1>4, <1>5

LEMMA AbortPreviewStep == ASSUME IInv, AbortMerge, op.kind = "preview" PROVE Inherits
<1>1. PICK t : t = IF trees[Place].merging = 0 THEN trees[Place]
                   ELSE Worktree(Content(HEAD), trees[Place].locked)
    OBVIOUS
<1>2. At({"preview"}, "abort")  BY DEF AbortMerge, At
<1>3. /\ op # Nothing /\ op.kind = "preview" /\ op.at = "abort" /\ TypeOK
      /\ Place = Preview /\ PreviewCourse /\ HEAD \in DOMAIN commits
    BY <1>2, AtPreview
<1>4. trees[Place] \in Worktrees  BY <1>2, <1>3, AtPreview DEF PreviewCourse
<1>5. /\ t \in Worktrees /\ t # Nothing /\ t.merging = 0
      /\ t.locked = trees[Preview].locked
      /\ trees[Preview].merging = 0 => t = trees[Preview]
      /\ trees[Preview].merging # 0 => t.index = Content(HEAD) /\ t.files = Content(HEAD)
      /\ Aborted <=> SetTree(Preview, t)
    BY <1>1, <1>3, <1>4, AbortIs
<1>6. Command(SetTree(Preview, t), "verify", "thrown")
    BY <1>3, <1>5 DEF AbortMerge, Command, Works, Fails
<1>7. InCleanUp  BY <1>3 DEF InCleanUp
<1>8. /\ HEAD' = HEAD /\ Source' = Source /\ Unmoved' = Unmoved /\ op'.locked = op.locked
      /\ Clean(Preview, HEAD)' <=> (trees'[Preview].index = Content(HEAD)
                                    /\ trees'[Preview].files = Content(HEAD))
      /\ \/ op'.at = "verify" /\ trees'[Preview] = t /\ (Mild' <=> Mild)
         \/ op'.at = "thrown" /\ ~Mild'
      /\ PreviewCourse' => Inherits
    BY <1>2, <1>5, <1>6, <1>7, PreviewCommand DEF Steps
<1>9. PreviewCourse'  BY <1>3, <1>5, <1>8 DEF PreviewCourse, Clean
<1> QED BY <1>8, <1>9

LEMMA AbortMergeStep == ASSUME IInv, AbortMerge, op.kind = "merge" PROVE Inherits
<1>1. PICK t : t = IF trees[Place].merging = 0 THEN trees[Place]
                   ELSE Worktree(Content(HEAD), trees[Place].locked)
    OBVIOUS
<1>2. At({"merge"}, "abort")  BY DEF AbortMerge, At
<1>3. /\ op # Nothing /\ op.kind = "merge" /\ op.at = "abort" /\ TypeOK
      /\ Place = op.on /\ MergeCourse /\ HEAD \in DOMAIN commits
      /\ trees[op.on] \in Worktrees
    BY <1>2, AtMerge
<1>4. /\ t \in Worktrees /\ Sound(op.on, t) /\ t # Nothing /\ t.merging = 0
      /\ trees[op.on].merging = 0 => t = trees[op.on]
      /\ trees[op.on].merging # 0 => t.index = Content(HEAD) /\ t.files = Content(HEAD)
      /\ Aborted <=> SetTree(op.on, t)
    BY <1>1, <1>3, AbortIs
<1>5. PICK catch \in {"abort", "verify"} :
        /\ Command(SetTree(op.on, t), "verify", catch)
        /\ catch = "verify" => op.result # "conflicts"
    BY <1>3, <1>4 DEF AbortMerge, Command, Works, Fails
<1>6. catch = "verify" => InCleanUp  BY <1>3, <1>5 DEF InCleanUp
<1>7. /\ HEAD' = HEAD /\ Source' = Source /\ Unmoved' = Unmoved /\ op'.on = op.on
      /\ Content(HEAD)' = Content(HEAD) /\ trees'[op.on] # Nothing
      /\ \/ op'.at = "verify" /\ trees'[op.on] = t /\ (Mild' <=> Mild)
         \/ op'.at = catch /\ trees'[op.on] = trees[op.on] /\ (Mild' => Mild /\ ~InCleanUp)
         \/ op'.at = catch /\ trees'[op.on] = t /\ ~Mild'
      /\ MergeCourse' => Inherits
    BY <1>2, <1>4, <1>5, MergeCommand DEF Steps
<1>8. op'.at \in {"abort", "verify"} /\ (Mild' => Mild)  BY <1>5, <1>7
<1>9. op'.at = "verify" => (Mild' => Tidy')
    <2>1. ASSUME op'.at = "verify", Mild' PROVE trees'[op.on] = t /\ Mild
        BY <2>1, <1>6, <1>7
    <2>2. Mild => t.index = Content(HEAD) /\ t.files = Content(HEAD)
        BY <1>3, <1>4 DEF MergeCourse, Clean
    <2> QED BY <1>4, <1>7, <2>1, <2>2 DEF Tidy, Clean
<1>10. op'.at = "abort" => (Mild' /\ trees'[op.on].merging = 0 => Clean(op.on, HEAD)')
    <2>1. ASSUME op'.at = "abort", Mild' PROVE trees'[op.on] = trees[op.on] /\ Mild
        BY <2>1, <1>7
    <2> QED BY <1>3, <1>7, <2>1 DEF MergeCourse, Clean
<1>11. MergeCourse'  BY <1>3, <1>7, <1>8, <1>9, <1>10 DEF MergeCourse
<1> QED BY <1>7, <1>11

LEMMA AbortStep == ASSUME IInv, AbortMerge PROVE Inherits
<1>1. op.kind \in {"preview", "merge"}  BY DEF AbortMerge, At
<1> QED BY <1>1, AbortPreviewStep, AbortMergeStep

LEMMA CommitMergeStep == ASSUME IInv, CommitMerge PROVE Inherits
<1>1. /\ op # Nothing /\ op.kind = "merge" /\ op.at = "commit" /\ TypeOK
      /\ MergeCourse /\ trees[op.on] \in Worktrees /\ HEAD # 0
      /\ Onward /\ MergeCourse' => Course'
    BY AtMerge DEF CommitMerge, MergeCourse
<1>2. /\ trees[op.on].merging # 0 /\ Source # 0
      /\ trees[op.on].index = MergeIn(commits, trees[op.on].merging, HEAD)
      /\ trees[op.on].files = trees[op.on].index
      /\ trees[op.on].index \in Documents
    BY <1>1 DEF MergeCourse
<1>3. ASSUME CommitIndex, Onward, degraded' \in BOOLEAN, faults' \in 0..MaxFaults
      PROVE  /\ HEAD' # 0 /\ Source' # 0 /\ Clean(op.on, HEAD)' /\ trees'[op.on] # Nothing
             /\ Course' => Inherits
    <2>1. /\ HEAD' # 0 /\ Source' # 0 /\ Content(HEAD)' = trees[op.on].index
          /\ trees'[op.on] \in Worktrees
          /\ trees'[op.on].index = trees[op.on].index
          /\ trees'[op.on].files = trees[op.on].files
          /\ Course' => Inherits
        BY <1>1, <1>2, <1>3, CommitStep
    <2>2. op'.on = op.on  BY <1>3 DEF Onward
    <2>3. Clean(op.on, HEAD)'  BY <1>2, <2>1, <2>2 DEF Clean
    <2>4. trees'[op.on] # Nothing  BY <2>1, NothingAssumption
    <2> QED BY <2>1, <2>3, <2>4
<1>4. CASE Works(CommitIndex, "answer")
    <2>1. Onward /\ op'.at = "answer" /\ op'.result = op.result
        BY <1>1, <1>4, Goes DEF Works, Steps
    <2>2. degraded' \in BOOLEAN /\ faults' \in 0..MaxFaults  BY <1>1, <1>4 DEF Works, TypeOK
    <2>3. /\ HEAD' # 0 /\ Source' # 0 /\ Clean(op.on, HEAD)' /\ trees'[op.on] # Nothing
          /\ Course' => Inherits
        BY <1>3, <1>4, <2>1, <2>2 DEF Works
    <2>4. op'.on = op.on  BY <2>1 DEF Onward
    <2>5. MergeCourse'  BY <1>1, <2>1, <2>3, <2>4 DEF MergeCourse
    <2> QED BY <1>1, <2>1, <2>3, <2>5
<1>5. CASE Fails(CommitIndex, "abort")
    <2>1. degraded' \in BOOLEAN /\ faults' \in 0..MaxFaults
        BY <1>1, <1>5, OneMore DEF Fails, TypeOK
    <2>2. CASE UNCHANGED disk /\ Caught("abort", "early")
        <3>1. /\ Onward /\ op'.at = "abort" /\ UNCHANGED <<commits, heads, trees>>
              /\ HEAD' = HEAD /\ Source' = Source
              /\ Course' => Inherits
            BY <1>1, <1>5, <2>2, EarlyStep DEF Fails, Steps
        <3>2. Unmoved' = Unmoved  BY <1>1, <3>1, Same
        <3>3. op'.on = op.on  BY <3>1 DEF Onward
        <3>4. MergeCourse'  BY <1>1, <1>2, <3>1, <3>2, <3>3 DEF MergeCourse
        <3> QED BY <1>1, <3>1, <3>4
    <2>3. CASE CommitIndex /\ Caught("abort", "late")
        <3>1. Onward /\ op'.at = "abort" /\ ~Mild'  BY <1>1, <2>3, Catches DEF Steps
        <3>2. /\ HEAD' # 0 /\ Source' # 0 /\ trees'[op.on] # Nothing
              /\ Course' => Inherits
            BY <1>3, <2>1, <2>3, <3>1
        <3>3. op'.on = op.on  BY <3>1 DEF Onward
        <3>4. MergeCourse'  BY <1>1, <3>1, <3>2, <3>3 DEF MergeCourse
        <3> QED BY <1>1, <3>1, <3>2, <3>4
    <2> QED BY <1>5, <2>2, <2>3 DEF Fails
<1> QED BY <1>4, <1>5 DEF CommitMerge, Command

LEMMA AnswerMergeStep == ASSUME IInv, AnswerMerge PROVE Inherits
<1>1. /\ op # Nothing /\ op.kind = "merge" /\ op.at = "answer" /\ TypeOK /\ MergeCourse
      /\ Onward /\ MergeCourse' => Course'
    BY AtMerge DEF AnswerMerge
<1>2. UNCHANGED disk  BY DEF AnswerMerge
<1>3. CASE Return(TRUE) /\ UNCHANGED faults
    <2>1. degraded' \in BOOLEAN /\ faults' \in 0..MaxFaults  BY <1>1, <1>3 DEF Return, TypeOK
    <2> QED BY <1>1, <1>2, <1>3, <2>1, EndStep DEF Return
<1>4. CASE /\ faults < MaxFaults /\ faults' = faults + 1 /\ UNCHANGED degraded
           /\ Caught("abort", "late")
    <2>1. /\ Onward /\ op'.at = "abort" /\ ~Mild' /\ UNCHANGED <<commits, heads, trees>>
          /\ HEAD' = HEAD /\ Source' = Source
          /\ Course' => Inherits
        BY <1>1, <1>2, <1>4, LateStep DEF Steps
    <2>2. op'.on = op.on  BY <2>1 DEF Onward
    <2>3. MergeCourse'  BY <1>1, <2>1, <2>2 DEF MergeCourse
    <2> QED BY <1>1, <2>1, <2>3
<1> QED BY <1>3, <1>4 DEF AnswerMerge

LEMMA VerifyMergeStep == ASSUME IInv, VerifyMerge PROVE Inherits
<1>1. /\ op # Nothing /\ op.kind = "merge" /\ op.at = "verify" /\ TypeOK /\ MergeCourse
      /\ Onward /\ MergeCourse' => Course'
    BY AtMerge DEF VerifyMerge
<1>2. UNCHANGED disk /\ UNCHANGED faults  BY DEF VerifyMerge
<1>3. CASE ~Clean(op.on, HEAD) /\ Refuse("thrown") /\ UNCHANGED degraded
    <2>1. Turns("thrown", "refused")  BY <1>3 DEF Refuse, Turns
    <2>2. Onward /\ op'.at = "thrown" /\ op'.fault = op.fault
        BY <1>1, <2>1, GoesWith DEF Steps, Results
    <2>3. degraded' \in BOOLEAN /\ faults' \in 0..MaxFaults  BY <1>1, <1>2, <1>3 DEF TypeOK
    <2>4. /\ UNCHANGED <<commits, heads, trees>> /\ HEAD' = HEAD /\ Source' = Source
          /\ Course' => Inherits
        BY <1>1, <1>2, <2>2, <2>3, DiskStep
    <2>5. ~Mild'  BY <1>1, <1>3, <2>2 DEF MergeCourse, Mild, Tidy
    <2>6. op'.on = op.on  BY <2>2 DEF Onward
    <2>7. MergeCourse'  BY <1>1, <2>2, <2>4, <2>5, <2>6 DEF MergeCourse
    <2> QED BY <1>1, <2>2, <2>4, <2>7
<1>4. CASE Return(FALSE)
    <2>1. degraded' \in BOOLEAN /\ faults' \in 0..MaxFaults
        BY <1>1, <1>2, <1>4 DEF Return, TypeOK
    <2> QED BY <1>1, <1>2, <1>4, <2>1, EndStep DEF Return
<1>5. CASE Goto("thrown") /\ UNCHANGED degraded
    <2>1. /\ Onward /\ op'.at = "thrown" /\ (Mild' <=> Mild)
          /\ UNCHANGED <<commits, heads, trees>> /\ HEAD' = HEAD /\ Source' = Source
          /\ Course' => Inherits
        BY <1>1, <1>2, <1>5, GoStep DEF Steps
    <2>2. Unmoved' = Unmoved  BY <1>1, <2>1, Same
    <2>3. op'.on = op.on  BY <2>1 DEF Onward
    <2>4. Tidy' <=> Tidy  BY <2>1, <2>3 DEF Tidy, Clean, Content
    <2>5. MergeCourse'  BY <1>1, <2>1, <2>2, <2>3, <2>4 DEF MergeCourse
    <2> QED BY <1>1, <2>1, <2>5
<1> QED BY <1>3, <1>4, <1>5 DEF VerifyMerge
-----------------------------------------------------------------------------
(* Requests *)

LEMMA BeginStep ==
    ASSUME IInv, NEW kind \in Kinds, NEW on \in Branches, NEW from \in Branches,
           NEW given \in Gifts(kind), NEW at \in Steps, NEW result \in Results,
           Begin(kind, on, from, given, at, result), initialized' \in BOOLEAN
    PROVE  /\ op' # Nothing /\ op'.kind = kind /\ op'.on = on /\ op'.from = from
           /\ op'.given = given /\ op'.at = at /\ op'.result = result
           /\ op'.hadHead = (heads[on] # 0) /\ ~op'.locked
           /\ op'.was.heads = heads /\ op'.was.trees = trees
           /\ UNCHANGED <<commits, heads, trees>>
           /\ HEAD' = heads[on] /\ Source' = heads[from] /\ Unmoved'
           /\ Course' => Inherits
<1>1. TypeOK /\ Whole /\ Trees /\ Reached  BY DEF IInv
<1>2. op = Nothing /\ UNCHANGED <<commits, heads, trees, degraded, faults>>
    BY DEF Begin, Idle
<1>3. op' = [kind |-> kind, on |-> on, from |-> from, given |-> given,
             at |-> at, result |-> result, fault |-> "none",
             hadHead |-> Exists(on), locked |-> FALSE,
             was |-> [heads |-> heads, trees |-> trees]]
    BY DEF Begin
<1>4. [heads |-> heads, trees |-> trees]
        \in [heads : [Branches -> Nat], trees : [Places -> Worktrees \cup {Nothing}]]
    <2>1. heads \in [Branches -> Nat]
        <3>1. heads \in [Branches -> 0..Len(commits)]  BY <1>1 DEF TypeOK
        <3>2. \A b \in Branches : heads[b] \in Nat  BY <1>1, HeadIs
        <3> QED BY <3>1, <3>2
    <2>2. trees \in [Places -> Worktrees \cup {Nothing}]  BY <1>1 DEF TypeOK
    <2> QED BY <2>1, <2>2
<1>5. /\ op' \in Operations(Gifts(kind))
      /\ op'.kind = kind /\ op'.on = on /\ op'.from = from
      /\ op'.given = given /\ op'.at = at /\ op'.result = result
      /\ op'.hadHead = (heads[on] # 0) /\ ~op'.locked
      /\ op'.was.heads = heads /\ op'.was.trees = trees
    <2>1. "none" \in Faults /\ Exists(on) \in BOOLEAN /\ FALSE \in BOOLEAN
        BY DEF Faults, Exists
    <2>2. Exists(on) <=> heads[on] # 0  BY DEF Exists
    <2>3. PICK was : was = [heads |-> heads, trees |-> trees]  OBVIOUS
    <2>4. was \in [heads : [Branches -> Nat], trees : [Places -> Worktrees \cup {Nothing}]]
          /\ was.heads = heads /\ was.trees = trees
        BY <1>4, <2>3
    <2>5. PICK had \in BOOLEAN : had = Exists(on)  BY <2>1
    <2>6. op' = [kind |-> kind, on |-> on, from |-> from, given |-> given,
                 at |-> at, result |-> result, fault |-> "none",
                 hadHead |-> had, locked |-> FALSE, was |-> was]
        BY <1>3, <2>3, <2>5
    <2>7. op' \in Operations(Gifts(kind))  BY <2>1, <2>4, <2>5, <2>6 DEF Operations
    <2> QED BY <2>2, <2>4, <2>5, <2>6, <2>7
<1>6. op' # Nothing  BY <1>5, IsOperation
<1>7. HEAD' = heads[on] /\ Source' = heads[from] /\ Unmoved'
    BY <1>2, <1>5 DEF HEAD, Source, Unmoved
<1>8. TypeOK'
    <2>1. op' \in Operations(IF op'.kind = "checkpoint" THEN Documents ELSE Nat)
        BY <1>5 DEF Gifts
    <2> QED BY <1>1, <1>2, <2>1 DEF TypeOK
<1>9. Whole'  BY <1>1, <1>2 DEF Whole, Past
<1>10. Trees'  BY <1>1, <1>2 DEF Trees, Sound, Pending, Content, Past
<1>11. Visible' = Visible
    <2>1. Visible = [b \in Branches |-> heads[b]]  BY <1>2 DEF Visible
    <2>2. Visible' = [b \in Branches |-> heads[b]]  BY <1>2, <1>5, <1>6 DEF Visible
    <2> QED BY <2>1, <2>2
<1>12. Reached'  BY <1>1, <1>2, <1>11 DEF Reached, Past
<1>13. Elsewhere'  BY <1>2, <1>5 DEF Elsewhere
<1>14. UNCHANGED Implements!vars  BY <1>2, <1>11 DEF Implements!vars
<1> QED BY <1>2, <1>5, <1>6, <1>7, <1>8, <1>9, <1>10, <1>12, <1>13, <1>14
        DEF IInv, Inherits

\* The worktree that a branch has before an operation begins.
LEMMA Ready ==
    ASSUME IInv, NEW b \in Branches
    PROVE  /\ HasWorktree(b) => /\ trees[b] # Nothing
                                /\ heads[b] # 0 \/ b = Main
                                /\ heads[b] = 0 => trees[b].merging = 0
           /\ HasWorktree(b) /\ Clean(b, heads[b]) /\ trees[b].merging # 0 =>
                MergeIn(commits, trees[b].merging, heads[b]) = Content(heads[b])
           /\ heads[b] = 0 /\ b # Main => trees[b] = Nothing
           /\ heads[b] # 0 => heads[Main] # 0
<1>1. TypeOK /\ Whole /\ Sound(b, trees[b])  BY DEF IInv, Trees, Places
<1>2. HasWorktree(b) => trees[b] # Nothing /\ (heads[b] # 0 \/ b = Main)
    BY <1>1 DEF HasWorktree, Exists, Sound
<1>3. HasWorktree(b) /\ trees[b].merging # 0 => Pending(b, trees[b])  BY <1>1, <1>2 DEF Sound
<1>4. heads[b] # 0 => heads[Main] # 0
    <2>1. commits = <<>> => heads[b] = 0
        <3>1. heads[b] \in 0..Len(commits)  BY <1>1 DEF TypeOK
        <3> QED BY <3>1
    <2> QED BY <1>1, <2>1 DEF Whole
<1>5. heads[b] = 0 /\ b # Main => trees[b] = Nothing  BY <1>1 DEF Sound
<1> QED BY <1>2, <1>3, <1>4, <1>5 DEF Pending, Clean

LEMMA CheckpointBegins ==
    ASSUME IInv, NEW b \in Branches, NEW d \in Given, Checkpoint(b, d) \/ RefuseDirty(b, d)
    PROVE  Inherits
<1>1. PICK at \in {"clear", "restore"}, result \in Results :
        /\ Begin("checkpoint", b, b, d, at, result) /\ HasWorktree(b) /\ initialized'
        /\ at = "clear" => Clean(b, heads[b]) /\ result = "done"
    BY DEF Checkpoint, RefuseDirty, Results
<1>2. "checkpoint" \in Kinds /\ d \in Gifts("checkpoint") /\ d \in Documents /\ at \in Steps
    BY GitAssumption DEF Kinds, Gifts, Steps
<1>3. /\ op' # Nothing /\ op'.kind = "checkpoint" /\ op'.on = b
      /\ op'.given = d /\ op'.at = at /\ op'.result = result
      /\ op'.hadHead = (heads[b] # 0)
      /\ op'.was.heads = heads
      /\ UNCHANGED <<commits, heads, trees>>
      /\ HEAD' = heads[b] /\ Unmoved'
      /\ Course' => Inherits
    BY <1>1, <1>2, BeginStep
<1>4. CheckpointCourse'
    BY <1>1, <1>3, Ready DEF CheckpointCourse, Content
<1> QED BY <1>3, <1>4 DEF Course

LEMMA BranchBegins ==
    ASSUME IInv, NEW b \in Branches, NEW k \in DOMAIN commits,
           CreateBranch(b, k) \/ \E c \in Branches : RestoreAsNewBranch(b, c, k)
    PROVE  Inherits
<1>1. TypeOK /\ Whole  BY DEF IInv
<1>2. PICK kind \in {"create", "restore"}, from \in Branches :
        /\ Begin(kind, b, from, k, "add", "done") /\ UNCHANGED initialized
        /\ ~Exists(b) /\ \E c \in Branches : Exists(c)
    BY GitAssumption DEF CreateBranch, RestoreAsNewBranch
<1>3. /\ kind \in Kinds /\ k \in Gifts(kind) /\ "add" \in Steps /\ "done" \in Results
      /\ initialized' \in BOOLEAN
    BY <1>1, <1>2, CommitIs DEF Kinds, Gifts, Steps, Results, TypeOK
<1>4. heads[b] = 0 /\ b # Main /\ trees[b] = Nothing  BY <1>2, Ready DEF Exists
<1>5. /\ op' # Nothing /\ op'.kind = kind /\ op'.on = b
      /\ op'.given = k /\ op'.at = "add" /\ op'.result = "done"
      /\ op'.was.heads = heads /\ op'.was.trees = trees
      /\ UNCHANGED <<commits, heads, trees>>
      /\ HEAD' = heads[b]
      /\ Course' => Inherits
    BY <1>2, <1>3, BeginStep
<1>6. BranchCourse'  BY <1>4, <1>5 DEF BranchCourse
<1> QED BY <1>2, <1>5, <1>6 DEF Course

LEMMA PreviewBegins ==
    ASSUME IInv, NEW b \in Branches, NEW c \in Branches, PreviewMerge(b, c)
    PROVE  Inherits
<1>1. /\ Begin("preview", b, c, 0, "add", "done") /\ UNCHANGED initialized
      /\ heads[b] # 0 /\ heads[c] # 0
    BY DEF PreviewMerge, Mergeable, Exists
<1>2. /\ "preview" \in Kinds /\ 0 \in Gifts("preview") /\ "add" \in Steps /\ "done" \in Results
      /\ initialized' \in BOOLEAN
    BY <1>1 DEF Kinds, Gifts, Steps, Results, IInv, TypeOK
<1>3. /\ op' # Nothing /\ op'.kind = "preview" /\ op'.on = b /\ op'.from = c
      /\ op'.at = "add"
      /\ op'.was.trees = trees
      /\ UNCHANGED <<commits, heads, trees>>
      /\ HEAD' = heads[b] /\ Source' = heads[c] /\ Unmoved'
      /\ Course' => Inherits
    BY <1>1, <1>2, BeginStep
<1>4. PreviewCourse'  BY <1>1, <1>3 DEF PreviewCourse
<1> QED BY <1>3, <1>4 DEF Course

LEMMA MergeBegins ==
    ASSUME IInv, NEW b \in Branches, NEW c \in Branches, Merge(b, c)
    PROVE  Inherits
<1>1. /\ Begin("merge", b, c, 0, "merge", "done") /\ UNCHANGED initialized
      /\ heads[b] # 0 /\ heads[c] # 0 /\ HasWorktree(b) /\ Clean(b, heads[b])
    BY DEF Merge, Mergeable, Exists
<1>2. /\ "merge" \in Kinds /\ 0 \in Gifts("merge") /\ "merge" \in Steps /\ "done" \in Results
      /\ initialized' \in BOOLEAN
    BY <1>1 DEF Kinds, Gifts, Steps, Results, IInv, TypeOK
<1>3. /\ op' # Nothing /\ op'.kind = "merge" /\ op'.on = b /\ op'.from = c
      /\ op'.at = "merge"
      /\ op'.was.trees = trees
      /\ UNCHANGED <<commits, heads, trees>>
      /\ HEAD' = heads[b] /\ Source' = heads[c] /\ Unmoved'
      /\ Course' => Inherits
    BY <1>1, <1>2, BeginStep
<1>4. MergeCourse'  BY <1>1, <1>3, Ready DEF MergeCourse, Clean, Content
<1> QED BY <1>3, <1>4 DEF Course

LEMMA RequestStep == ASSUME IInv, Request PROVE Inherits
<1>1. CASE \E b \in Branches, d \in Given : Checkpoint(b, d) \/ RefuseDirty(b, d)
    BY <1>1, CheckpointBegins
<1>2. CASE \E b \in Branches, k \in DOMAIN commits : CreateBranch(b, k)
    BY <1>2, BranchBegins
<1>3. CASE \E b, c \in Branches, k \in DOMAIN commits : RestoreAsNewBranch(b, c, k)
    BY <1>3, BranchBegins
<1>4. CASE \E b, c \in Branches : PreviewMerge(b, c) \/ Merge(b, c)
    BY <1>4, PreviewBegins, MergeBegins
<1> QED BY <1>1, <1>2, <1>3, <1>4 DEF Request
-----------------------------------------------------------------------------
(* The invariant *)

\* What goes on while no operation runs touches neither the repository nor
\* the operation.
LEMMA SideStep ==
    ASSUME IInv, UNCHANGED <<disk, op>>, degraded' \in BOOLEAN, faults' \in 0..MaxFaults
    PROVE  Inherits
<1>1. UNCHANGED <<initialized, commits, heads, trees, op>>  BY DEF disk
<1>2. TypeOK /\ Whole /\ Trees /\ Reached  BY DEF IInv
<1>3. TypeOK'  BY <1>1, <1>2 DEF TypeOK
<1>4. Whole'  BY <1>1, <1>2 DEF Whole, Past
<1>5. Trees'  BY <1>1, <1>2 DEF Trees, Sound, Pending, Content, Past
<1>6. Visible' = Visible  BY <1>1 DEF Visible
<1>7. Reached'  BY <1>1, <1>2, <1>6 DEF Reached, Past
<1>8. UNCHANGED Implements!vars  BY <1>1, <1>6 DEF Implements!vars
<1>9. op # Nothing => Elsewhere' /\ Course'
    <2>1. HEAD' = HEAD /\ Source' = Source /\ Unmoved' = Unmoved /\ Mild' = Mild
          /\ Tidy' = Tidy /\ Place' = Place
        BY <1>1 DEF HEAD, Source, Unmoved, Mild, Tidy, Clean, Content, Place
    <2>2. ASSUME op # Nothing PROVE Elsewhere'
        BY <1>1, <2>1, <2>2 DEF IInv, Elsewhere
    <2>3. ASSUME op # Nothing, op.kind = "checkpoint" PROVE CheckpointCourse'
        BY <1>1, <2>1, <2>3 DEF IInv, Course, CheckpointCourse, Clean, Content
    <2>4. ASSUME op # Nothing, op.kind \in {"create", "restore"} PROVE BranchCourse'
        BY <1>1, <2>1, <2>4 DEF IInv, Course, BranchCourse, Clean, Content
    <2>5. ASSUME op # Nothing, op.kind = "preview" PROVE PreviewCourse'
        BY <1>1, <2>1, <2>5 DEF IInv, Course, PreviewCourse, Clean, Content
    <2>6. ASSUME op # Nothing, op.kind = "merge" PROVE MergeCourse'
        BY <1>1, <2>1, <2>6 DEF IInv, Course, MergeCourse, Clean, Content
    <2> QED BY <1>1, <2>2, <2>3, <2>4, <2>5, <2>6 DEF Course
<1> QED BY <1>1, <1>3, <1>4, <1>5, <1>7, <1>8, <1>9 DEF IInv, Inherits

LEMMA ThrownStep == ASSUME IInv, Thrown PROVE Inherits
<1>1. TypeOK /\ op # Nothing  BY DEF IInv, Thrown
<1>2. op' = Nothing /\ degraded' \in BOOLEAN /\ faults' \in 0..MaxFaults /\ UNCHANGED disk
    BY <1>1 DEF Thrown, Throw, TypeOK, disk
<1> QED BY <1>1, <1>2, EndStep

LEMMA CrashStep == ASSUME IInv, Crash PROVE Inherits
<1>1. TypeOK /\ op # Nothing  BY DEF IInv, Crash
<1>2. op' = Nothing /\ degraded' \in BOOLEAN /\ faults' \in 0..MaxFaults /\ UNCHANGED disk
    BY <1>1, OneMore DEF Crash, disk
<1> QED BY <1>1, <1>2, EndStep

LEMMA ReadStep == ASSUME IInv, Read \/ ReadFails \/ Inspect PROVE Inherits
<1>1. TypeOK  BY DEF IInv
<1>2. UNCHANGED <<disk, op>>  BY DEF Read, ReadFails, Inspect
<1>3. CASE Read  BY <1>1, <1>2, <1>3, SideStep DEF Read, TypeOK
<1>4. CASE ReadFails  BY <1>1, <1>2, <1>4, OneMore, SideStep DEF ReadFails
<1>5. CASE Inspect
    <2>1. faults' \in 0..MaxFaults /\ degraded' \in BOOLEAN
        BY <1>1, <1>5, OneMore DEF Inspect, TypeOK
    <2> QED BY <1>2, <2>1, SideStep
<1> QED BY <1>3, <1>4, <1>5

LEMMA InvInit == ASSUME Init PROVE IInv /\ Implements!Init
<1>1. /\ initialized = FALSE /\ commits = <<>> /\ degraded = FALSE /\ op = Nothing /\ faults = 0
      /\ heads = [b \in Branches |-> 0]
      /\ trees = [p \in Places |-> IF p = Main THEN Worktree(Nothing, FALSE) ELSE Nothing]
    BY DEF Init
<1>2. Main \in Branches /\ Main \in Places /\ MaxFaults \in Nat  BY GitAssumption DEF Places
<1>3. Worktree(Nothing, FALSE) \in Worktrees /\ Worktree(Nothing, FALSE).merging = 0
    BY DEF Worktree, Worktrees, Contents
<1>4. Worktree(Nothing, FALSE) # Nothing  BY <1>3, NothingAssumption
<1>5. TypeOK
    <2>1. commits \in Seq(Commits) /\ Len(commits) = 0  BY <1>1
    <2>2. heads \in [Branches -> 0..Len(commits)]  BY <1>1, <2>1
    <2>3. trees \in [Places -> Worktrees \cup {Nothing}]  BY <1>1, <1>3
    <2>4. initialized \in BOOLEAN /\ degraded \in BOOLEAN  BY <1>1, Zenon
    <2>5. faults = 0 /\ op = Nothing  BY <1>1, Zenon
    <2>6. faults \in 0..MaxFaults  BY <1>2, <2>5
    <2> QED BY <2>1, <2>2, <2>3, <2>4, <2>5, <2>6 DEF TypeOK
<1>6. Whole  BY <1>1 DEF Whole
<1>7. Trees  BY <1>1, <1>3, <1>4 DEF Trees, Sound
<1>8. Reached  BY <1>1 DEF Reached
<1>9. Implements!Init
    <2>1. Visible = [b \in Branches |-> heads[b]]  BY <1>1 DEF Visible
    <2>2. Visible = [b \in Branches |-> 0]  BY <1>1, <2>1
    <2> QED BY <1>1, <2>2 DEF Implements!Init
<1> QED BY <1>1, <1>5, <1>6, <1>7, <1>8, <1>9 DEF IInv

LEMMA InvNext == ASSUME IInv, [Next]_vars PROVE Inherits
<1>1. CASE Request \/ Thrown \/ Crash \/ Read \/ ReadFails \/ Inspect
    BY <1>1, RequestStep, ThrownStep, CrashStep, ReadStep
<1>2. CASE \/ ClearSnapshot \/ WriteSnapshot \/ AddSnapshot
           \/ CommitSnapshot \/ AnswerCheckpoint \/ RestoreCheckpoint
    BY <1>2, ClearSnapshotStep, WriteSnapshotStep, AddSnapshotStep, CommitSnapshotStep,
       AnswerCheckpointStep, RestoreCheckpointStep
<1>3. CASE \/ AddBranch \/ LockBranch \/ ListBranch
           \/ UnlockBranch \/ RemoveBranch \/ DeleteBranch
    BY <1>3, AddBranchStep, LockBranchStep, ListBranchStep, UnlockBranchStep,
       RemoveBranchStep, DeleteBranchStep
<1>4. CASE \/ AddPreview \/ LockPreview \/ VerifyPreview
           \/ UnlockPreview \/ RemovePreview \/ AnswerPreview
    BY <1>4, AddPreviewStep, LockPreviewStep, VerifyPreviewStep, UnlockPreviewStep,
       RemovePreviewStep, AnswerPreviewStep
<1>5. CASE \/ AttemptRefused \/ AttemptUpToDate \/ AttemptMerge \/ CommitMerge
           \/ AnswerMerge \/ AbortMerge \/ VerifyMerge
    BY <1>5, AttemptRefusedStep, AttemptUpToDateStep, AttemptStep, CommitMergeStep,
       AnswerMergeStep, AbortStep, VerifyMergeStep
<1>6. CASE UNCHANGED vars
    <2>1. UNCHANGED <<disk, op, degraded, faults>>  BY <1>6 DEF vars
    <2>2. degraded' \in BOOLEAN /\ faults' \in 0..MaxFaults  BY <2>1 DEF IInv, TypeOK
    <2> QED BY <2>1, <2>2, SideStep
<1> QED BY <1>1, <1>2, <1>3, <1>4, <1>5, <1>6 DEF Next

LEMMA Invariance == Spec => []IInv
<1>1. Init => IInv  BY InvInit
<1>2. IInv /\ [Next]_vars => IInv'  BY InvNext DEF Inherits
<1> QED BY <1>1, <1>2, PTL DEF Spec

\* The repository, the worktrees and the operation are what canvasGit.ts
\* takes them for.
THEOREM TypeCorrect == Spec => []TypeOK
<1>1. IInv => TypeOK  BY DEF IInv
<1> QED BY <1>1, Invariance, PTL

\* Whatever fails or crashes, CanvasGitStore keeps the promises of
\* CanvasHistory, step by step: a branch appears at a commit that is part of
\* another, and moves only to the next commit on top of it, a whole document.
THEOREM KeepsHistory == Spec => ImplementsHistory
<1>1. Init => Implements!Init  BY InvInit
<1>2. IInv /\ [Next]_vars => [Implements!Next]_(Implements!vars)  BY InvNext DEF Inherits
<1> QED BY <1>1, <1>2, Invariance, PTL DEF Spec, ImplementsHistory, Implements!Spec

-----------------------------------------------------------------------------
(* How operations end *)

LEMMA GoingOn ==
    ASSUME IInv, Ends
    PROVE  /\ TypeOK /\ op # Nothing /\ op.on \in Branches /\ op.kind \in Kinds
           /\ faults' # faults + 1
           /\ \A at \in Steps : ~Goto(at) /\ \A r \in Results : ~Turns(at, r)
<1>1. TypeOK /\ op # Nothing /\ op' = Nothing /\ faults' = faults  BY DEF IInv, Ends
<1>2. faults \in Nat  BY <1>1, GitAssumption DEF TypeOK
<1>3. ASSUME NEW at \in Steps, Goto(at) PROVE FALSE  BY <1>1, <1>3, Goes DEF Onward
<1>4. ASSUME NEW at \in Steps, NEW r \in Results, Turns(at, r) PROVE FALSE
    BY <1>1, <1>4, GoesWith DEF Onward
<1> QED BY <1>1, <1>2, <1>3, <1>4, OperationIs

\* The steps that can end an operation.
LEMMA EndsAt ==
    ASSUME IInv, [Next]_vars, Ends
    PROVE  \/ op.at = "thrown"
           \/ op.kind = "checkpoint" /\ op.at \in {"answer", "committed"}
           \/ op.kind \in {"create", "restore"} /\ op.at = "list"
           \/ op.kind = "preview" /\ op.at = "answer"
           \/ op.kind = "merge" /\ op.at \in {"merge", "answer", "verify"}
<1>1. /\ TypeOK /\ op # Nothing /\ op.on \in Branches /\ op.kind \in Kinds
      /\ faults' # faults + 1
      /\ \A at \in Steps : ~Goto(at) /\ \A r \in Results : ~Turns(at, r)
    BY GoingOn
<1>2. op' = Nothing  BY DEF Ends
<1>3. ~UNCHANGED vars  BY <1>1, <1>2 DEF vars
<1>4. ~Request
    BY <1>1 DEF Request, Checkpoint, RefuseDirty, CreateBranch, RestoreAsNewBranch,
                PreviewMerge, Merge, Begin, Idle
<1>5. ~Read /\ ~ReadFails /\ ~Inspect /\ ~Crash
    BY <1>1 DEF Read, ReadFails, Inspect, Crash, Idle, Ends
<1>6. ~ClearSnapshot /\ ~WriteSnapshot /\ ~AddSnapshot /\ ~RestoreCheckpoint
    BY <1>1 DEF ClearSnapshot, WriteSnapshot, AddSnapshot, RestoreCheckpoint,
                Command, Works, Fails, Steps
<1>7. ~CommitSnapshot  BY <1>1 DEF CommitSnapshot, Works, Fails, Steps
<1>8. ~AddBranch  BY <1>1 DEF AddBranch, Command, Works, Fails, Steps
<1>9. ~LockBranch /\ ~UnlockBranch /\ ~RemoveBranch /\ ~DeleteBranch
    BY <1>1 DEF LockBranch, UnlockBranch, RemoveBranch, DeleteBranch,
                Command, Works, Fails, Steps
<1>10. ~AddPreview /\ ~UnlockPreview
    BY <1>1 DEF AddPreview, UnlockPreview, Command, Works, Fails, Steps
<1>11. ~LockPreview
    <2>1. ASSUME op' = [op EXCEPT !.at = "merge", !.locked = TRUE] PROVE FALSE
        <3>1. op \in Operations(Gifts(op.kind))  BY <1>1, OperationIs
        <3>2. op' = [op EXCEPT !.at = "merge", !.result = op.result, !.fault = op.fault,
                               !.locked = TRUE]
            BY <2>1, <3>1 DEF Operations
        <3>3. "merge" \in Steps /\ TRUE \in BOOLEAN /\ op.result \in Results
              /\ op.fault \in Faults
            BY <1>1, OperationIs DEF Steps
        <3> HIDE <2>1
        <3> QED BY <1>1, <1>2, <3>2, <3>3, GoesOn DEF Onward
    <2> QED BY <1>1, <2>1 DEF LockPreview, Fails
<1>12. ~RemovePreview
    <2>1. Turns("thrown", "failed")
          <=> op' = [op EXCEPT !.at = "thrown", !.result = "failed"]
        BY DEF Turns
    <2> QED BY <1>1, <2>1 DEF RemovePreview, Command, Works, Fails, Steps, Results
<1>13. ~VerifyPreview
    <2>1. Refuse("thrown") => Turns("thrown", "refused")  BY DEF Refuse, Turns
    <2> QED BY <1>1, <2>1 DEF VerifyPreview, Steps, Results
<1>14. ~AttemptRefused
    <2>1. Turns("abort", "failed") <=> op' = [op EXCEPT !.at = "abort", !.result = "failed"]
        BY DEF Turns
    <2> QED BY <1>1, <2>1 DEF AttemptRefused, Steps, Results
<1>15. ~AttemptMerge
    <2>1. ASSUME AttemptMerge PROVE FALSE
        <3>1. PICK at \in {"commit", "abort"} :
                op' = [op EXCEPT !.at = at, !.result = Outcome]
            BY <1>1, <2>1 DEF AttemptMerge, Fails
        <3>2. Outcome \in Results
            <4>1. trees[Place] \in Worktrees
                <5>1. CASE op.kind = "preview"
                    <6>1. At({"preview"}, "merge")  BY <2>1, <5>1 DEF AttemptMerge, At
                    <6> QED BY <6>1, AtPreview DEF PreviewCourse
                <5>2. CASE op.kind = "merge"
                    <6>1. At({"merge"}, "merge")  BY <2>1, <5>2 DEF AttemptMerge, At
                    <6> QED BY <6>1, AtMerge
                <5> QED BY <2>1, <5>1, <5>2 DEF AttemptMerge, At
            <4>2. HEAD \in DOMAIN commits /\ Source \in DOMAIN commits
                <5>1. At({"preview"}, "merge") \/ At({"merge"}, "merge")
                    BY <2>1 DEF AttemptMerge, At
                <5> QED BY <5>1, AtPreview, AtMerge
            <4>3. ~UpToDate  BY <2>1 DEF AttemptMerge
            <4> QED BY <1>1, <4>1, <4>2, <4>3, AttemptIs
        <3>3. Turns(at, Outcome)  BY <3>1 DEF Turns
        <3> QED BY <1>1, <3>2, <3>3 DEF Steps
    <2> QED BY <2>1
<1>16. ~CommitMerge  BY <1>1 DEF CommitMerge, Command, Works, Fails, Steps
<1>17. ~AbortMerge  BY <1>1 DEF AbortMerge, Command, Works, Fails, Steps
<1>18. AttemptUpToDate => op.kind = "merge" /\ op.at = "merge"
    BY <1>1 DEF AttemptUpToDate, At, Steps
<1>19. CASE Thrown  BY <1>19 DEF Thrown
<1>20. CASE AnswerCheckpoint  BY <1>20 DEF AnswerCheckpoint, At
<1>21. CASE ListBranch  BY <1>21 DEF ListBranch, At
<1>22. CASE AnswerPreview  BY <1>22 DEF AnswerPreview, At
<1>23. CASE AnswerMerge \/ VerifyMerge  BY <1>23 DEF AnswerMerge, VerifyMerge, At
<1> QED BY <1>3, <1>4, <1>5, <1>6, <1>7, <1>8, <1>9, <1>10, <1>11, <1>12, <1>13, <1>14,
           <1>15, <1>16, <1>17, <1>18, <1>19, <1>20, <1>21, <1>22, <1>23 DEF Next

LEMMA KindsAre == Kinds = {"checkpoint", "create", "restore", "preview", "merge"}
BY DEF Kinds

LEMMA OrderIsLeft ==
    ASSUME IInv, [Next]_vars, Ends, op.fault \in {"none", "early"}
    PROVE  /\ op.result # "done" => heads = op.was.heads
           /\ \A b \in Branches \ {op.on} : trees[b] = op.was.trees[b]
           /\ trees[op.on] # op.was.trees[op.on] =>
                Clean(op.on, HEAD) /\ (op.result # "done" => trees[op.on].merging = 0)
           /\ op.kind = "preview" =>
                heads = op.was.heads /\ trees[Preview] \in {Nothing, op.was.trees[Preview]}
<1>1. /\ TypeOK /\ op # Nothing /\ op.on \in Branches /\ op.kind \in Kinds
      /\ Elsewhere /\ Course /\ Mild
    BY GoingOn DEF IInv, Mild
<1>2. /\ heads \in [Branches -> 0..Len(commits)] /\ op.was.heads \in [Branches -> Nat]
    BY <1>1, OperationIs DEF TypeOK
<1>3. Unmoved => heads = op.was.heads
    <2>1. ASSUME Unmoved PROVE \A b \in Branches : heads[b] = op.was.heads[b]
        BY <1>1, <2>1 DEF Elsewhere, Unmoved, HEAD
    <2> QED BY <1>2, <2>1
<1>4. \A b \in Branches \ {op.on} : trees[b] = op.was.trees[b]
    <2>1. ASSUME NEW b \in Branches \ {op.on} PROVE b # Place /\ b \in Places
        BY GitAssumption DEF Place, Places
    <2> QED BY <1>1, <2>1 DEF Elsewhere
<1>5. CASE op.kind = "checkpoint"
    <2>1. CheckpointCourse  BY <1>1, <1>5 DEF Course
    <2>2. op.at = "thrown" \/ op.at \in {"answer", "committed"}  BY <1>5, EndsAt
    <2>3. CASE op.at = "thrown"
        BY <1>1, <1>3, <1>4, <1>5, <2>1, <2>3 DEF CheckpointCourse, Tidy
    <2>4. CASE op.at \in {"answer", "committed"}
        BY <1>4, <1>5, <2>1, <2>4 DEF CheckpointCourse
    <2> QED BY <2>2, <2>3, <2>4
<1>6. CASE op.kind \in {"create", "restore"}
    <2>1. BranchCourse  BY <1>1, <1>6 DEF Course
    <2>2. op.at = "thrown" \/ op.at = "list"  BY <1>6, EndsAt
    <2>3. CASE op.at = "thrown"
        <3>1. HEAD = 0 /\ trees[op.on] = Nothing  BY <1>1, <2>1, <2>3 DEF BranchCourse
        <3>2. Unmoved /\ trees[op.on] = op.was.trees[op.on]
            BY <2>1, <3>1 DEF BranchCourse, Unmoved
        <3> QED BY <1>3, <1>4, <1>6, <3>2
    <2>4. CASE op.at = "list"
        BY <1>4, <1>6, <2>1, <2>4 DEF BranchCourse
    <2> QED BY <2>2, <2>3, <2>4
<1>7. CASE op.kind = "preview"
    <2>1. PreviewCourse  BY <1>1, <1>7 DEF Course
    <2>2. op.at = "thrown" \/ op.at = "answer"  BY <1>7, EndsAt
    <2>3. trees[op.on] = op.was.trees[op.on]
        BY <1>1, <1>7, GitAssumption DEF Elsewhere, Place, Places
    <2> QED BY <1>1, <1>3, <1>4, <2>1, <2>2, <2>3 DEF PreviewCourse
<1>8. CASE op.kind = "merge"
    <2>1. MergeCourse  BY <1>1, <1>8 DEF Course
    <2>2. op.at = "thrown" \/ op.at \in {"merge", "answer", "verify"}  BY <1>8, EndsAt
    <2>3. CASE op.at \in {"thrown", "verify"}
        BY <1>1, <1>3, <1>4, <1>8, <2>1, <2>3 DEF MergeCourse, Tidy
    <2>4. CASE op.at = "merge"
        BY <1>3, <1>4, <1>8, <2>1, <2>4 DEF MergeCourse
    <2>5. CASE op.at = "answer"
        BY <1>4, <1>8, <2>1, <2>5 DEF MergeCourse
    <2> QED BY <2>2, <2>3, <2>4, <2>5
<1> QED BY <1>1, <1>5, <1>6, <1>7, <1>8, KindsAre

\* An operation that ends with at most one command failed, and that without
\* effect, leaves the branches where they were unless it is done, and the
\* worktrees as they were or clean.
THEOREM OperationsLeaveOrder == Spec => LeavesOrder
<1>1. IInv /\ [Next]_vars =>
        (Ends /\ op.fault \in {"none", "early"} =>
           /\ op.result # "done" => heads = op.was.heads
           /\ \A b \in Branches \ {op.on} : trees[b] = op.was.trees[b]
           /\ trees[op.on] # op.was.trees[op.on] =>
                Clean(op.on, HEAD) /\ (op.result # "done" => trees[op.on].merging = 0)
           /\ op.kind = "preview" =>
                heads = op.was.heads /\ trees[Preview] \in {Nothing, op.was.trees[Preview]})
    BY OrderIsLeft
<1> QED BY <1>1, Invariance, PTL DEF Spec, LeavesOrder

LEMMA Repaired ==
    ASSUME IInv, [Next]_vars, Ends, op.kind = "checkpoint", op.result # "done", op.fault = "none"
    PROVE  HasWorktree(op.on) => Clean(op.on, HEAD) /\ trees[op.on].merging = 0
<1>1. op # Nothing /\ CheckpointCourse  BY GoingOn DEF IInv, Course
<1>2. op.at = "thrown" \/ op.at \in {"answer", "committed"}  BY EndsAt
<1>3. op.at = "thrown"  BY <1>1, <1>2 DEF CheckpointCourse
<1> QED BY <1>1, <1>3 DEF CheckpointCourse, Mild, Tidy

\* What a crash or a killed Git has left in a worktree, the next checkpoint of
\* the branch may refuse, but puts in order.
THEOREM RefusalsRepair == Spec => RefusalRepairs
<1>1. IInv /\ [Next]_vars =>
        (Ends /\ op.kind = "checkpoint" /\ op.result # "done" /\ op.fault = "none" =>
           (HasWorktree(op.on) => Clean(op.on, HEAD) /\ trees[op.on].merging = 0))
    BY Repaired
<1> QED BY <1>1, Invariance, PTL DEF Spec, RefusalRepairs
=============================================================================
