----------------------- MODULE WorkspaceVersioningProofs -----------------------
(***************************************************************************)
(* Theorems about WorkspaceVersioning, for any number of branches,         *)
(* documents and commands: the anchor of a runtime document is a commit of *)
(* its branch, nothing is destroyed that the history does not hold, a      *)
(* merge joins what its preview showed, and a conflict that is reported as *)
(* saved is saved, with crashes and failures at any step.                  *)
(***************************************************************************)
EXTENDS WorkspaceVersioning, TLAPS, WellFoundedInduction

Kinds ==
    {"get", "commit", "commitLatest", "manual", "timer", "create", "restore", "conflict",
     "preview", "merge"}
Growing == {"create", "restore", "conflict"}

\* The steps of an operation that holds these locks.
Steps(locks) ==
    ({"load", "checkpoint", "reconcile"} \X locks)
    \cup ({"admit", "commit"} \X locks \X Nat \X Commands)
    \cup ({"commitLatest"} \X locks \X Commands)
    \cup ({"anchor"} \X locks \X Nat \X Nat)
    \cup ({"apply"} \X Nat \X Nat)
    \cup {<<s>> : s \in {"lookup", "ref", "recover", "settle", "query", "cancel", "preview",
                         "assert", "merge"}}

Operation(o) ==
    /\ o \in [kind : Kinds, locks : SUBSET Branches, on : Branches, from : Branches,
              given : {o.given}, todo : Seq(Steps(o.locks))]
    /\ o.locks = {o.on, o.from} /\ o.todo # <<>>
    /\ o.kind \in Growing => o.on # o.from
    /\ o.kind = "conflict" => o.given \in Documents

\* Commits are whole, know their past, and have one root.
Commits ==
    /\ commits \in Seq([document : Documents, parents : Seq(Nat), past : SUBSET Nat])
    /\ \A k \in DOMAIN commits :
         /\ ToSet(commits[k].parents) \subseteq 1..k - 1
         /\ k \in Past(k) /\ 1 \in Past(k) /\ Past(k) \subseteq 1..k
    /\ commits # <<>> => tip[Main] # 0

Shape ==
    /\ initialized \in BOOLEAN /\ degraded \in BOOLEAN
    /\ tip \in [Branches -> 0..Len(commits)]
    /\ runtime \in [Branches -> [revision : Nat, document : Documents, anchor : 0..Len(commits)]]
    /\ scheduled \subseteq Branches
    /\ expected # Nothing => expected.source \in Branches /\ expected.target \in Branches

Operations == \A o \in running : Operation(o)

Apart == \A o, p \in running : o # p => o.locks \cap p.locks = {}

Name(o, i) == o.todo[i][1]

\* The step before is the checkpoint of this branch, or its second half.
SavedBefore(o, i, b) ==
    i > 1 /\ Name(o, i - 1) \in {"checkpoint", "anchor"} /\ o.todo[i - 1][2] = b

\* The document of a branch is that of its tip.
Saved(b) == tip[b] # 0 /\ runtime[b].document = TipDocument(b)

Anchoring(o, i) ==
    Name(o, i) = "anchor" =>
      /\ i = 1
      /\ Saved(o.todo[i][2])
      /\ o.todo[i][3] = runtime[o.todo[i][2]].revision /\ o.todo[i][4] = tip[o.todo[i][2]]

\* A destructive command finds its document in the history.
Committing(o, i) ==
    Name(o, i) = "commit" /\ o.todo[i][4] \in Destructive =>
      IF i = 1
      THEN runtime[o.todo[i][2]].revision = o.todo[i][3] =>
             runtime[o.todo[i][2]].document \in History(o.todo[i][2])
      ELSE SavedBefore(o, i, o.todo[i][2])

\* A new branch starts at a commit, and is settled only when it is there.
Growth(o, i) ==
    /\ Name(o, i) \in {"lookup", "ref", "recover", "settle"} => o.kind \in Growing
    /\ Name(o, i) = "ref" =>
         /\ tip[o.on] = 0
         /\ \A j \in 1..i - 1 : Name(o, j) \in {"load", "checkpoint", "anchor"} /\ o.todo[j][2] = o.from
         /\ IF i = 1 THEN tip[o.from] # 0 ELSE SavedBefore(o, i, o.from)
    /\ Name(o, i) = "recover" =>
         /\ o.kind = "conflict"
         /\ IF i = 1 THEN tip[o.on] # 0 ELSE Name(o, i - 1) = "ref"
    /\ Name(o, i) = "settle" =>
         IF i = 1 THEN tip[o.on] # 0 /\ (o.kind = "conflict" => TipDocument(o.on) = o.given)
         ELSE Name(o, i - 1) = IF o.kind = "conflict" THEN "recover" ELSE "ref"

\* A merge joins two tips, and the document that it replaces is one of them.
Joining(o, i) ==
    /\ Name(o, i) \in {"merge", "apply"} => o.kind = "merge"
    /\ Name(o, i) = "merge" =>
         /\ (\E j \in 1..i - 1 : Name(o, j) = "query") \/ (tip[o.on] # 0 /\ tip[o.from] # 0)
         /\ IF i = 1 THEN Saved(o.on) ELSE SavedBefore(o, i, o.on)
    /\ Name(o, i) = "apply" =>
         /\ i = 1
         /\ tip[o.on] # 0 /\ o.todo[i][3] = tip[o.on]
         /\ runtime[o.on].document \in History(o.on)

Course(o) ==
    \A i \in DOMAIN o.todo : Anchoring(o, i) /\ Committing(o, i) /\ Growth(o, i) /\ Joining(o, i)

Courses == \A o \in running : Course(o)

IInv == Commits /\ Shape /\ AnchorInHistory /\ Operations /\ Apart /\ Courses
-----------------------------------------------------------------------------
(* Commits *)

USE DEF Past

LEMMA HasGreatest ==
    ASSUME NEW n \in Nat, NEW S \in SUBSET (0..n), S # {}
    PROVE  \E k \in S : \A j \in S : j <= k
<1> DEFINE T == {n - k : k \in S}
<1>1. T \subseteq Nat /\ T # {}
    <2>1. ASSUME NEW k \in S PROVE n - k \in Nat  OBVIOUS
    <2> QED BY <2>1
<1> DEFINE R == OpToRel(<, Nat)
<1>2. PICK x \in T : \A y \in T : ~(<<y, x>> \in R)
    BY <1>1, NatLessThanWellFounded, WFMin, Zenon
<1>3. \A y \in T : ~(y < x)  BY <1>1, <1>2 DEF OpToRel
<1>4. PICK k \in S : x = n - k  OBVIOUS
<1>5. ASSUME NEW j \in S PROVE j <= k
    <2>1. n - j \in T  OBVIOUS
    <2>2. ~(n - j < n - k)  BY <2>1, <1>3, <1>4
    <2> HIDE DEF T
    <2> QED BY <2>2
<1> QED BY <1>4, <1>5

LEMMA ParentsOf ==
    /\ ToSet(<<>>) = {}
    /\ \A a : ToSet(<<a>>) = {a}
    /\ \A a, b : ToSet(<<a, b>>) = {a, b}
<1>1. ToSet(<<>>) = {}  BY DEF ToSet
<1>2. ASSUME NEW a PROVE ToSet(<<a>>) = {a}  BY DEF ToSet
<1>3. ASSUME NEW a, NEW b PROVE ToSet(<<a, b>>) = {a, b}
    <2>1. DOMAIN <<a, b>> = {1, 2}  OBVIOUS
    <2>2. <<a, b>>[1] = a /\ <<a, b>>[2] = b  OBVIOUS
    <2> QED BY <2>1, <2>2 DEF ToSet
<1> QED BY <1>1, <1>2, <1>3

LEMMA CommitIs ==
    ASSUME IInv, NEW k \in DOMAIN commits
    PROVE  /\ commits[k] \in [document : Documents, parents : Seq(Nat), past : SUBSET Nat]
           /\ commits[k].document \in Documents
<1>1. commits \in Seq([document : Documents, parents : Seq(Nat), past : SUBSET Nat])
    BY DEF IInv, Commits
<1> DEFINE R == [document : Documents, parents : Seq(Nat), past : SUBSET Nat]
<1>2. commits \in Seq(R)  BY <1>1
<1> HIDE DEF R
<1>3. commits[k] \in R  BY <1>2
<1> QED BY <1>3 DEF R

LEMMA Tips ==
    ASSUME IInv, NEW b \in Branches, tip[b] # 0
    PROVE  /\ tip[b] \in DOMAIN commits /\ tip[b] \in Nat
           /\ tip[b] \in Past(tip[b]) /\ 1 \in Past(tip[b]) /\ Past(tip[b]) \subseteq 1..tip[b]
           /\ Past(tip[b]) \subseteq DOMAIN commits
           /\ TipDocument(b) \in Documents
           /\ TipDocument(b) \in History(b)
<1>1. tip[b] \in 1..Len(commits)  BY DEF IInv, Shape
<1>2. DOMAIN commits = 1..Len(commits) /\ Len(commits) \in Nat  BY DEF IInv, Commits
<1>3. tip[b] \in Past(tip[b]) /\ 1 \in Past(tip[b]) /\ Past(tip[b]) \subseteq 1..tip[b]
    BY <1>1, <1>2 DEF IInv, Commits
<1>4. commits[tip[b]].document \in Documents  BY <1>1, <1>2, CommitIs
<1> QED BY <1>1, <1>2, <1>3, <1>4 DEF TipDocument, History

\* What git merge makes of two tips: conflicts, or a document.
LEMMA Merges ==
    ASSUME IInv, NEW b \in Branches, NEW c \in Branches, tip[b] # 0, tip[c] # 0
    PROVE  MergeOf(tip[b], tip[c]) \in Documents \cup {Conflicting}
<1> DEFINE S == Past(tip[b]) \cap Past(tip[c])
<1>1. S # {} /\ S \in SUBSET (0..tip[b]) /\ S \subseteq DOMAIN commits /\ tip[b] \in Nat  BY Tips
<1>2. \E k \in S : \A j \in S : j <= k  BY <1>1, HasGreatest, Zenon
<1>3. MergeBase(tip[b], tip[c]) \in S  BY <1>2 DEF MergeBase
<1>4. MergeBase(tip[b], tip[c]) \in DOMAIN commits  BY <1>1, <1>3
<1>5. commits[MergeBase(tip[b], tip[c])].document \in Documents
    BY <1>4, CommitIs
<1>6. commits[tip[b]].document \in Documents /\ commits[tip[c]].document \in Documents
    BY Tips DEF TipDocument
<1>7. \A x, y, z \in Documents : Merged[x, y, z] \in Documents \cup {Conflicting}
    BY VersioningAssumption, Zenon
<1> QED BY <1>5, <1>6, <1>7, Zenon DEF MergeOf

\* The history goes on: what is committed stays, and no branch loses its tip.
Kept(branches) ==
    /\ \A k \in DOMAIN commits : k \in DOMAIN commits' /\ commits'[k] = commits[k]
    /\ \A b \in Branches \ branches : tip'[b] = tip[b] /\ runtime'[b] = runtime[b]
    /\ \A b \in Branches : tip[b] # 0 => tip'[b] # 0

\* A commit on top of the tip of a branch, or the first one.
LEMMA Commitment ==
    ASSUME IInv, NEW b \in Branches, NEW d \in Documents, NEW parents \in Seq(Nat),
           CommitOnto(b, d, parents),
           ToSet(parents) \subseteq DOMAIN commits,
           IF tip[b] = 0 THEN b = Main /\ tip[Main] = 0 ELSE tip[b] \in ToSet(parents)
    PROVE  /\ Commits'
           /\ tip' \in [Branches -> 0..Len(commits')]
           /\ Len(commits) <= Len(commits')
           /\ \A k \in DOMAIN commits : k \in DOMAIN commits' /\ commits'[k] = commits[k]
           /\ \A c \in Branches \ {b} : tip'[c] = tip[c]
           /\ tip'[b] = Len(commits) + 1 /\ tip'[b] \notin DOMAIN commits
           /\ tip'[b] \in DOMAIN commits'
           /\ commits'[tip'[b]].document = d /\ commits'[tip'[b]].parents = parents
           /\ tip[b] # 0 => Past(tip[b]) \subseteq commits'[tip'[b]].past
           /\ tip'[b] \in commits'[tip'[b]].past
<1> DEFINE n == Len(commits) + 1
           new == NewCommit(d, parents)
           R == [document : Documents, parents : Seq(Nat), past : SUBSET Nat]
<1>1. commits \in Seq(R) /\ DOMAIN commits = 1..Len(commits) /\ Len(commits) \in Nat
    BY DEF IInv, Commits
<1>2. tip \in [Branches -> 0..Len(commits)]  BY DEF IInv, Shape
<1>3. new.document = d /\ new.parents = parents
      /\ new.past = (UNION {Past(p) : p \in ToSet(parents)}) \cup {n}
    BY DEF NewCommit
<1>4. new \in [document : {d}, parents : {parents}, past : {new.past}]  BY DEF NewCommit
<1>5. \A p \in ToSet(parents) : 1 \in Past(p) /\ Past(p) \subseteq 1..p /\ p \in 1..Len(commits)
    BY <1>1 DEF IInv, Commits
<1>6. new.past \subseteq 1..n
    <2>1. ASSUME NEW p \in ToSet(parents) PROVE Past(p) \subseteq 1..n  BY <2>1, <1>1, <1>5
    <2>2. n \in 1..n  BY <1>1
    <2>3. UNION {Past(p) : p \in ToSet(parents)} \subseteq 1..n  BY <2>1, Zenon
    <2> HIDE DEF new, n
    <2> QED BY <2>2, <2>3, <1>3
<1>7. 1 \in new.past
    <2>1. CASE tip[b] = 0
        <3>1. commits = <<>>  BY <2>1 DEF IInv, Commits
        <3>2. n = 1  BY <3>1
        <3>3. n \in new.past  BY <1>3, Zenon
        <3> QED BY <3>2, <3>3
    <2>2. CASE tip[b] # 0  BY <2>2, <1>3, <1>5
    <2> QED BY <2>1, <2>2
<1>8. new \in R  BY <1>1, <1>4, <1>6
<1> HIDE DEF new
<1>9. commits' = Append(commits, new) /\ tip' = [tip EXCEPT ![b] = n]  BY DEF CommitOnto, new
<1>10. commits' \in Seq(R) /\ Len(commits') = n /\ DOMAIN commits' = 1..n /\ commits'[n] = new
       /\ \A k \in 1..Len(commits) : commits'[k] = commits[k]
    BY <1>1, <1>8, <1>9
<1>11. tip' \in [Branches -> 0..Len(commits')]  BY <1>1, <1>2, <1>9, <1>10
<1>12. commits' # <<>> => tip'[Main] # 0
    <2>1. CASE b = Main  BY <2>1, <1>1, <1>2, <1>9
    <2>2. CASE b # Main
        <3>1. tip[b] # 0 /\ commits # <<>>  BY <2>2, <1>1, <1>2
        <3> QED BY <2>2, <3>1, <1>2, <1>9 DEF IInv, Commits
    <2> QED BY <2>1, <2>2
<1>13. ASSUME NEW k \in DOMAIN commits'
       PROVE  /\ ToSet(commits'[k].parents) \subseteq 1..k - 1
              /\ k \in commits'[k].past /\ 1 \in commits'[k].past /\ commits'[k].past \subseteq 1..k
    <2>1. CASE k = n
        <3>1. commits'[k] = new  BY <2>1, <1>10
        <3>2. ToSet(parents) \subseteq 1..n - 1  BY <1>1
        <3>3. n \in new.past  BY <1>3, Zenon
        <3> QED BY <2>1, <3>1, <3>2, <3>3, <1>3, <1>6, <1>7
    <2>2. CASE k \in DOMAIN commits
        BY <2>2, <1>1, <1>10 DEF IInv, Commits, Past
    <2> QED BY <2>1, <2>2, <1>1, <1>10
<1>14. Commits'
    BY <1>10, <1>12, <1>13 DEF Commits, Past
<1>15. tip'[b] = n /\ \A c \in Branches \ {b} : tip'[c] = tip[c]  BY <1>2, <1>9
<1>16. tip[b] # 0 => Past(tip[b]) \subseteq commits'[n].past
    BY <1>3, <1>10
<1>17. n \in commits'[n].past
    <2>1. n \in new.past  BY <1>3, Zenon
    <2> QED BY <2>1, <1>10
<1> QED BY <1>1, <1>3, <1>10, <1>11, <1>14, <1>15, <1>16, <1>17
-----------------------------------------------------------------------------
(* Operations and their steps *)

\* A step is put before others.
LEMMA Before ==
    ASSUME NEW S, NEW x \in S, NEW s \in Seq(S)
    PROVE  /\ <<x>> \o s \in Seq(S) /\ <<x>> \o s # <<>>
           /\ Len(<<x>> \o s) = Len(s) + 1
           /\ DOMAIN (<<x>> \o s) = 1..Len(s) + 1
           /\ (<<x>> \o s)[1] = x
           /\ \A i \in 1..Len(s) : (<<x>> \o s)[i + 1] = s[i]
           /\ \A i \in 2..Len(s) + 1 : (<<x>> \o s)[i] = s[i - 1]
<1> DEFINE t == <<x>> \o s
<1>1. <<x>> \in Seq(S) /\ Len(<<x>>) = 1 /\ Len(s) \in Nat  OBVIOUS
<1>2. t \in Seq(S) /\ Len(t) = Len(s) + 1  BY <1>1
<1>3. t[1] = x  BY <1>1
<1>4. \A i \in 1..Len(s) : t[i + 1] = s[i]  BY <1>1
<1>5. \A i \in 2..Len(s) + 1 : t[i] = s[i - 1]  BY <1>1
<1> HIDE DEF t
<1>6. DOMAIN t = 1..Len(s) + 1 /\ t # <<>>  BY <1>1, <1>2
<1> QED BY <1>2, <1>3, <1>4, <1>5, <1>6 DEF t

\* A step is put after others.
LEMMA After ==
    ASSUME NEW S, NEW x \in S, NEW s \in Seq(S)
    PROVE  /\ s \o <<x>> = Append(s, x)
           /\ Append(s, x) \in Seq(S) /\ Append(s, x) # <<>>
           /\ DOMAIN Append(s, x) = 1..Len(s) + 1
           /\ Append(s, x)[Len(s) + 1] = x
           /\ \A i \in 1..Len(s) : Append(s, x)[i] = s[i]
<1>1. Len(s) \in Nat  OBVIOUS
<1>2. s \o <<x>> = Append(s, x) /\ Append(s, x) \in Seq(S) /\ Append(s, x) # <<>>  OBVIOUS
<1>3. Append(s, x)[Len(s) + 1] = x  BY <1>1
<1>4. DOMAIN Append(s, x) = 1..Len(s) + 1  BY <1>1
<1>5. \A i \in 1..Len(s) : Append(s, x)[i] = s[i]  BY <1>1
<1> QED BY <1>2, <1>3, <1>4, <1>5

LEMMA StepIs ==
    ASSUME NEW locks, NEW s \in Steps(locks)
    PROVE  /\ s[1] \in {"load", "checkpoint", "reconcile"} => s[2] \in locks
           /\ s[1] \in {"admit", "commit"} => s[2] \in locks /\ s[3] \in Nat /\ s[4] \in Commands
           /\ s[1] = "commitLatest" => s[2] \in locks /\ s[3] \in Commands
           /\ s[1] = "anchor" => s[2] \in locks /\ s[3] \in Nat /\ s[4] \in Nat
           /\ s[1] = "apply" => s[2] \in Nat /\ s[3] \in Nat
<1>1. CASE s \in {"load", "checkpoint", "reconcile"} \X locks  BY <1>1
<1>2. CASE s \in {"admit", "commit"} \X locks \X Nat \X Commands  BY <1>2
<1>3. CASE s \in {"commitLatest"} \X locks \X Commands  BY <1>3
<1>4. CASE s \in {"anchor"} \X locks \X Nat \X Nat  BY <1>4
<1>5. CASE s \in {"apply"} \X Nat \X Nat  BY <1>5
<1>6. CASE s \in {<<n>> : n \in {"lookup", "ref", "recover", "settle", "query", "cancel",
                                 "preview", "assert", "merge"}}
    BY <1>6
<1> QED BY <1>1, <1>2, <1>3, <1>4, <1>5, <1>6 DEF Steps

LEMMA OperationIs ==
    ASSUME NEW o, Operation(o)
    PROVE  /\ o.kind \in Kinds /\ o.on \in Branches /\ o.from \in Branches
           /\ o.on \in o.locks /\ o.from \in o.locks /\ o.locks \subseteq Branches
           /\ o.todo \in Seq(Steps(o.locks)) /\ Len(o.todo) \in Nat /\ Len(o.todo) > 0
           /\ DOMAIN o.todo = 1..Len(o.todo)
           /\ 1 \in DOMAIN o.todo /\ Head(o.todo) = o.todo[1]
           /\ \A i \in DOMAIN o.todo : o.todo[i] \in Steps(o.locks)
<1> DEFINE S == Steps(o.locks)
<1>1. o.todo \in Seq(S) /\ o.todo # <<>> /\ o.locks = {o.on, o.from}  BY DEF Operation
<1>2. o.kind \in Kinds /\ o.on \in Branches /\ o.from \in Branches /\ o.locks \subseteq Branches
    BY DEF Operation
<1> HIDE DEF S
<1>3. Len(o.todo) \in Nat /\ Len(o.todo) > 0 /\ DOMAIN o.todo = 1..Len(o.todo)
      /\ Head(o.todo) = o.todo[1] /\ \A i \in DOMAIN o.todo : o.todo[i] \in S
    BY <1>1
<1>4. o.on \in o.locks /\ o.from \in o.locks  BY <1>1
<1>5. 1 \in DOMAIN o.todo  BY <1>3
<1> QED BY <1>1, <1>2, <1>3, <1>4, <1>5, Zenon DEF S

\* A branch that is kept as it is, and the history it is part of.
LEMMA SameBranch ==
    ASSUME IInv, NEW branches \in SUBSET Branches, Kept(branches), NEW b \in Branches \ branches
    PROVE  /\ tip'[b] = tip[b] /\ runtime'[b] = runtime[b]
           /\ tip[b] # 0 => TipDocument(b)' = TipDocument(b)
           /\ History(b)' = History(b)
           /\ Saved(b)' <=> Saved(b)
<1>1. tip'[b] = tip[b] /\ runtime'[b] = runtime[b]  BY DEF Kept
<1>2. \A k \in DOMAIN commits : commits'[k] = commits[k]  BY DEF Kept
<1>3. CASE tip[b] = 0  BY <1>1, <1>3 DEF History, Saved
<1>4. CASE tip[b] # 0
    <2>1. tip[b] \in DOMAIN commits /\ Past(tip[b]) \subseteq DOMAIN commits  BY <1>4, Tips
    <2>2. commits'[tip'[b]] = commits[tip[b]]  BY <1>1, <1>2, <2>1
    <2>3. TipDocument(b)' = TipDocument(b)  BY <2>2 DEF TipDocument
    <2>4. \A k \in Past(tip[b]) : commits'[k] = commits[k]  BY <1>2, <2>1
    <2>5. {commits'[k].document : k \in commits'[tip'[b]].past}
            = {commits[k].document : k \in commits[tip[b]].past}
        BY <2>2, <2>4
    <2>6. History(b)' = History(b)  BY <1>1, <1>4, <2>5 DEF History
    <2> QED BY <1>1, <2>3, <2>6 DEF Saved
<1> QED BY <1>3, <1>4

\* Operations on other branches are not disturbed.
LEMMA Others ==
    ASSUME IInv, NEW branches \in SUBSET Branches, Kept(branches),
           NEW p \in running, p.locks \cap branches = {}
    PROVE  Course(p)'
<1>1. Operation(p) /\ Course(p)  BY DEF IInv, Operations, Courses
<1>2. \A b \in p.locks : b \in Branches \ branches  BY <1>1, OperationIs
<1>3. p.on \in p.locks /\ p.from \in p.locks  BY <1>1, OperationIs
<1>4. SUFFICES ASSUME NEW i \in DOMAIN p.todo
               PROVE  Anchoring(p, i)' /\ Committing(p, i)' /\ Growth(p, i)' /\ Joining(p, i)'
    BY DEF Course
<1>5. p.todo[i] \in Steps(p.locks)  BY <1>1, OperationIs
<1>6. Anchoring(p, i) /\ Committing(p, i) /\ Growth(p, i) /\ Joining(p, i)
    BY <1>1 DEF Course
<1>7. Anchoring(p, i)'
    <2>1. SUFFICES ASSUME Name(p, i) = "anchor" PROVE Anchoring(p, i)'  BY DEF Anchoring, Name
    <2>2. p.todo[i][2] \in Branches \ branches  BY <1>2, <1>5, <2>1, StepIs DEF Name
    <2> QED BY <1>6, <2>1, <2>2, SameBranch DEF Anchoring, Name
<1>8. Committing(p, i)'
    <2>1. SUFFICES ASSUME Name(p, i) = "commit" PROVE Committing(p, i)'  BY DEF Committing, Name
    <2>2. p.todo[i][2] \in Branches \ branches  BY <1>2, <1>5, <2>1, StepIs DEF Name
    <2> QED BY <1>6, <2>2, SameBranch DEF Committing, Name, SavedBefore
<1>9. Growth(p, i)'
    BY <1>2, <1>3, <1>6, SameBranch DEF Growth, Name, SavedBefore
<1>10. Joining(p, i)'
    BY <1>2, <1>3, <1>6, SameBranch DEF Joining, Name, SavedBefore
<1> QED BY <1>7, <1>8, <1>9, <1>10

\* The operations, when one of them ends, ...
LEMMA Ends ==
    ASSUME IInv, NEW o \in running, End(o), Kept(o.locks)
    PROVE  Operations' /\ Apart' /\ Courses'
<1>1. o.locks \in SUBSET Branches  BY OperationIs DEF IInv, Operations
<1>2. running' = running \ {o}  BY DEF End
<1>3. \A p \in running' : p \in running /\ p.locks \cap o.locks = {}
    BY <1>2 DEF IInv, Apart
<1>4. Courses'  BY <1>1, <1>3, Others DEF Courses
<1>5. Apart'  BY <1>2 DEF IInv, Apart
<1> QED BY <1>2, <1>4, <1>5 DEF IInv, Operations

\* ... or goes on with these steps.
LEMMA GoesOn ==
    ASSUME IInv, NEW o \in running, NEW todo \in Seq(Steps(o.locks)), todo # <<>>,
           Follow(o, todo), Kept(o.locks),
           Course([o EXCEPT !.todo = todo])'
    PROVE  Operations' /\ Apart' /\ Courses'
<1> DEFINE n == [o EXCEPT !.todo = todo]
<1>1. Operation(o)  BY DEF IInv, Operations
<1>2. o.locks \in SUBSET Branches  BY <1>1, OperationIs
<1>3. running' = (running \ {o}) \cup {n}  BY DEF Follow
<1>4. n.locks = o.locks /\ Operation(n)
    <2>1. n \in [kind : Kinds, locks : SUBSET Branches, on : Branches, from : Branches,
                 given : {o.given}, todo : Seq(Steps(o.locks))]
        BY <1>1 DEF Operation
    <2>2. n.locks = o.locks /\ n.on = o.on /\ n.from = o.from /\ n.given = o.given
          /\ n.kind = o.kind /\ n.todo = todo
        BY <1>1 DEF Operation
    <2> HIDE DEF n
    <2> QED BY <1>1, <2>1, <2>2 DEF Operation
<1>5. Course(n)'  OBVIOUS
<1> HIDE DEF n
<1>6. \A p \in running \ {o} : p.locks \cap o.locks = {}  BY DEF IInv, Apart
<1>7. \A p \in running \ {o} : Course(p)'  BY <1>2, <1>6, Others
<1>8. Courses'  BY <1>3, <1>5, <1>7 DEF Courses
<1>9. Apart'
    <2> SUFFICES ASSUME NEW p \in running', NEW q \in running', p # q
                 PROVE  p.locks \cap q.locks = {}
        BY DEF Apart
    <2>1. CASE p = n  BY <2>1, <1>3, <1>4, <1>6
    <2>2. CASE q = n  BY <2>2, <1>3, <1>4, <1>6
    <2>3. CASE p # n /\ q # n  BY <2>3, <1>3 DEF IInv, Apart
    <2> QED BY <2>1, <2>2, <2>3
<1> QED BY <1>3, <1>4, <1>8, <1>9 DEF IInv, Operations

\* The step it has taken is gone.
LEMMA GoesRest ==
    ASSUME IInv, NEW o \in running, Follow(o, Rest(o)), Kept(o.locks),
           Name(o, 1) # "checkpoint",
           Name(o, 1) = "anchor" =>
             Saved(o.todo[1][2])' /\ runtime'[o.todo[1][2]].document \in History(o.todo[1][2])',
           Name(o, 1) \in {"load", "anchor"} => tip'[o.on] = tip[o.on],
           Name(o, 1) = "ref" => tip'[o.on] # 0,
           Name(o, 1) = "recover" => tip'[o.on] # 0 /\ TipDocument(o.on)' = o.given,
           Name(o, 1) = "query" => tip[o.on] # 0 /\ tip[o.from] # 0
    PROVE  Operations' /\ Apart' /\ Courses'
<1> DEFINE t == Tail(o.todo)
           n == [o EXCEPT !.todo = t]
<1>1. Operation(o) /\ Course(o)  BY DEF IInv, Operations, Courses
<1>2. o.todo \in Seq(Steps(o.locks)) /\ Len(o.todo) \in Nat /\ Len(o.todo) > 0
      /\ DOMAIN o.todo = 1..Len(o.todo) /\ o.on \in Branches /\ o.from \in Branches
    BY <1>1, OperationIs
<1>3. t \in Seq(Steps(o.locks)) /\ Len(t) = Len(o.todo) - 1 /\ DOMAIN t = 1..Len(t)
      /\ \A i \in DOMAIN t : i + 1 \in DOMAIN o.todo /\ t[i] = o.todo[i + 1]
    <2> DEFINE S == Steps(o.locks)
    <2>1. o.todo \in Seq(S)  BY <1>2
    <2> HIDE DEF S
    <2>2. t \in Seq(S) /\ Len(t) = Len(o.todo) - 1 /\ DOMAIN t = 1..Len(t)
          /\ \A i \in DOMAIN t : i + 1 \in DOMAIN o.todo /\ t[i] = o.todo[i + 1]
        BY <1>2, <2>1
    <2> QED BY <2>2, Zenon DEF S
<1>4. CASE t = <<>>
    BY <1>4, Ends DEF Follow, End, Rest
<1>5. CASE t # <<>>
    <2>1. n.locks = o.locks /\ n.on = o.on /\ n.from = o.from /\ n.given = o.given
          /\ n.kind = o.kind /\ n.todo = t
        BY <1>1 DEF Operation
    <2> HIDE DEF n
    <2>2. ASSUME NEW i \in DOMAIN t
          PROVE  Anchoring(n, i)' /\ Committing(n, i)' /\ Growth(n, i)' /\ Joining(n, i)'
        <3>1. i \in Nat /\ i > 0 /\ i + 1 \in DOMAIN o.todo /\ Name(n, i) = Name(o, i + 1)
              /\ n.todo[i] = o.todo[i + 1]
            BY <1>3, <2>1 DEF Name
        <3>2. Anchoring(o, i + 1) /\ Committing(o, i + 1) /\ Growth(o, i + 1) /\ Joining(o, i + 1)
            BY <1>1, <3>1 DEF Course
        <3>3. i > 1 => Name(n, i - 1) = Name(o, i) /\ n.todo[i - 1] = o.todo[i]
            BY <1>3, <2>1 DEF Name
        <3>4. \A b : SavedBefore(o, i + 1, b) =>
                IF i = 1 THEN Name(o, 1) = "anchor" /\ o.todo[1][2] = b ELSE SavedBefore(n, i, b)
            BY <3>1, <3>3 DEF SavedBefore
        <3>5. Anchoring(n, i)'
            BY <3>1, <3>2 DEF Anchoring, Name
        <3>6. Committing(n, i)'
            <4>1. SUFFICES ASSUME Name(o, i + 1) = "commit", o.todo[i + 1][4] \in Destructive
                           PROVE  Committing(n, i)'
                BY <3>1 DEF Committing, Name
            <4>2. SavedBefore(o, i + 1, o.todo[i + 1][2])  BY <3>1, <3>2, <4>1 DEF Committing
            <4>3. CASE i = 1
                <5>1. Name(o, 1) = "anchor" /\ o.todo[1][2] = o.todo[2][2]  BY <3>4, <4>2, <4>3
                <5>2. runtime'[o.todo[2][2]].document \in History(o.todo[2][2])'  BY <5>1
                <5> QED BY <3>1, <4>3, <5>2 DEF Committing
            <4>4. CASE i > 1  BY <3>1, <3>4, <4>2, <4>4 DEF Committing, SavedBefore, Name
            <4> QED BY <3>1, <4>3, <4>4
        <3>7. Growth(n, i)'
            <4>1. ASSUME Name(n, i) = "ref"
                  PROVE  /\ tip'[o.on] = 0
                         /\ \A j \in 1..i - 1 : Name(n, j) \in {"load", "checkpoint", "anchor"}
                                                /\ n.todo[j][2] = o.from
                         /\ IF i = 1 THEN tip'[o.from] # 0 ELSE SavedBefore(n, i, o.from)
                <5>1. tip[o.on] = 0 /\ SavedBefore(o, i + 1, o.from)
                      /\ \A j \in 1..i : Name(o, j) \in {"load", "checkpoint", "anchor"}
                                         /\ o.todo[j][2] = o.from
                    BY <3>1, <3>2, <4>1 DEF Growth
                <5>2. Name(o, 1) \in {"load", "anchor"}  BY <3>1, <5>1
                <5>3. ASSUME NEW j \in 1..i - 1
                      PROVE  Name(n, j) = Name(o, j + 1) /\ n.todo[j] = o.todo[j + 1] /\ j + 1 \in 1..i
                    BY <1>3, <2>1, <3>1 DEF Name
                <5>4. CASE i = 1
                    <6>1. Name(o, 1) = "anchor" /\ o.todo[1][2] = o.from  BY <5>1, <5>4, <3>4
                    <6> QED BY <5>1, <5>2, <5>4, <6>1 DEF Saved
                <5>5. CASE i > 1
                    <6>1. SavedBefore(n, i, o.from)  BY <5>1, <3>4, <5>5
                    <6> QED BY <5>1, <5>2, <5>3, <5>5, <6>1
                <5> QED BY <3>1, <5>4, <5>5
            <4>2. ASSUME Name(n, i) = "recover"
                  PROVE  o.kind = "conflict"
                         /\ IF i = 1 THEN tip'[o.on] # 0 ELSE Name(n, i - 1) = "ref"
                <5>1. o.kind = "conflict" /\ Name(o, i) = "ref"
                    BY <3>1, <3>2, <4>2 DEF Growth
                <5> QED BY <3>1, <3>3, <5>1
            <4>3. ASSUME Name(n, i) = "settle"
                  PROVE  IF i = 1 THEN tip'[o.on] # 0 /\ (o.kind = "conflict" => TipDocument(o.on)' = o.given)
                         ELSE Name(n, i - 1) = IF o.kind = "conflict" THEN "recover" ELSE "ref"
                <5>1. Name(o, i) = IF o.kind = "conflict" THEN "recover" ELSE "ref"
                    BY <3>1, <3>2, <4>3 DEF Growth
                <5> QED BY <3>1, <3>3, <5>1
            <4>4. Name(n, i) \in {"lookup", "ref", "recover", "settle"} => o.kind \in Growing
                BY <3>1, <3>2 DEF Growth
            <4> QED BY <2>1, <4>1, <4>2, <4>3, <4>4 DEF Growth, Name, SavedBefore
        <3>8. Joining(n, i)'
            <4>1. Name(n, i) \in {"merge", "apply"} => o.kind = "merge"  BY <3>1, <3>2 DEF Joining
            <4>2. Name(n, i) # "apply"  BY <3>1, <3>2 DEF Joining
            <4>3. ASSUME Name(n, i) = "merge"
                  PROVE  /\ (\E j \in 1..i - 1 : Name(n, j) = "query")
                            \/ (tip'[o.on] # 0 /\ tip'[o.from] # 0)
                         /\ IF i = 1 THEN Saved(o.on)' ELSE SavedBefore(n, i, o.on)
                <5>1. ((\E j \in 1..i : Name(o, j) = "query") \/ (tip[o.on] # 0 /\ tip[o.from] # 0))
                      /\ SavedBefore(o, i + 1, o.on)
                    BY <3>1, <3>2, <4>3 DEF Joining
                <5>2. IF i = 1 THEN Saved(o.on)' ELSE SavedBefore(n, i, o.on)  BY <3>1, <3>4, <5>1
                <5>3. CASE tip[o.on] # 0 /\ tip[o.from] # 0
                    BY <1>2, <5>2, <5>3 DEF Kept
                <5>4. CASE \E j \in 1..i : Name(o, j) = "query"
                    <6>1. PICK j \in 1..i : Name(o, j) = "query"  BY <5>4
                    <6>2. CASE j = 1  BY <1>2, <5>2, <6>1, <6>2 DEF Kept
                    <6>3. CASE j > 1
                        <7>1. j - 1 \in 1..i - 1 /\ Name(n, j - 1) = Name(o, j)
                            BY <1>3, <2>1, <3>1, <6>3 DEF Name
                        <7> QED BY <5>2, <6>1, <7>1
                    <6> QED BY <3>1, <6>2, <6>3
                <5> QED BY <5>1, <5>3, <5>4
            <4> QED BY <2>1, <4>1, <4>2, <4>3 DEF Joining, Name, SavedBefore
        <3> QED BY <3>5, <3>6, <3>7, <3>8
    <2>3. Course(n)'
        BY <2>1, <2>2 DEF Course
    <2> QED BY <1>3, <1>5, <2>3, GoesOn DEF n, Rest
<1> QED BY <1>4, <1>5

\* An operation begins.
LEMMA Begins ==
    ASSUME IInv, NEW n, Operation(n), Course(n), Unlocked(n.locks),
           running' = running \cup {n}, UNCHANGED <<commits, tip, runtime>>
    PROVE  Operations' /\ Apart' /\ Courses'
<1>1. \A p \in running : p.locks \cap n.locks = {}  BY DEF Unlocked
<1>2. Operations'  BY DEF IInv, Operations
<1>3. Apart'
    <2> SUFFICES ASSUME NEW p \in running', NEW q \in running', p # q
                 PROVE  p.locks \cap q.locks = {}
        BY DEF Apart
    <2>1. CASE p = n  BY <2>1, <1>1
    <2>2. CASE q = n  BY <2>2, <1>1
    <2>3. CASE p # n /\ q # n  BY <2>3 DEF IInv, Apart
    <2> QED BY <2>1, <2>2, <2>3
<1>4. ASSUME NEW p \in running' PROVE Course(p)'
    <2>1. Course(p)  BY DEF IInv, Courses
    <2>2. \A b : TipDocument(b)' = TipDocument(b) /\ History(b)' = History(b)
        BY DEF TipDocument, History
    <2> QED BY <2>1, <2>2
         DEF Course, Anchoring, Committing, Growth, Joining, Saved, SavedBefore, Name
<1> QED BY <1>2, <1>3, <1>4 DEF Courses

Envelopes == [revision : Nat, document : Documents, anchor : Nat]

\* The document of one branch is replaced by another envelope.
Fits(b, e) ==
    /\ e \in Envelopes
    /\ e.anchor # 0 => tip[b] # 0 /\ e.anchor \in Past(tip[b])

LEMMA Replaces ==
    ASSUME IInv, NEW b \in Branches, NEW e, Fits(b, e), UNCHANGED <<commits, tip>>,
           runtime' = [runtime EXCEPT ![b] = e]
    PROVE  /\ Commits' /\ AnchorInHistory'
           /\ tip' \in [Branches -> 0..Len(commits')]
           /\ runtime' \in [Branches -> [revision : Nat, document : Documents,
                                         anchor : 0..Len(commits')]]
           /\ runtime'[b] = e
           /\ \A c \in Branches \ {b} : runtime'[c] = runtime[c]
           /\ \A locks : b \in locks => Kept(locks)
           /\ \A c : TipDocument(c)' = TipDocument(c) /\ History(c)' = History(c)
<1>1. tip \in [Branches -> 0..Len(commits)]
      /\ runtime \in [Branches -> [revision : Nat, document : Documents, anchor : 0..Len(commits)]]
    BY DEF IInv, Shape
<1>2. e.anchor \in 0..Len(commits)
    <2>1. CASE e.anchor = 0  BY <2>1 DEF IInv, Commits
    <2>2. CASE e.anchor # 0
        <3>1. e.anchor \in DOMAIN commits  BY <2>2, Tips DEF Fits
        <3>2. DOMAIN commits = 1..Len(commits) /\ Len(commits) \in Nat  BY DEF IInv, Commits
        <3> QED BY <3>1, <3>2
    <2> QED BY <2>1, <2>2
<1>3. e \in [revision : Nat, document : Documents, anchor : 0..Len(commits)]
    BY <1>2 DEF Fits, Envelopes
<1>4. runtime' \in [Branches -> [revision : Nat, document : Documents, anchor : 0..Len(commits)]]
      /\ runtime'[b] = e /\ \A c \in Branches \ {b} : runtime'[c] = runtime[c]
    BY <1>1, <1>3
<1>5. Commits'  BY DEF IInv, Commits
<1>6. AnchorInHistory'
    BY <1>4 DEF IInv, AnchorInHistory, Fits
<1>7. \A locks : b \in locks => Kept(locks)  BY <1>4 DEF Kept
<1>8. \A c : TipDocument(c)' = TipDocument(c) /\ History(c)' = History(c)
    BY DEF TipDocument, History
<1> QED BY <1>1, <1>4, <1>5, <1>6, <1>7, <1>8

\* What a branch holds fits it, and so does what reconciling and settling make of it.
LEMMA FitsNow ==
    ASSUME IInv, NEW b \in Branches
    PROVE  Fits(b, runtime[b]) /\ Fits(b, Reconciled(b))
           /\ (tip[b] # 0 => Fits(b, Settled(b, Reconciled(b))) /\ Fits(b, Settled(b, runtime[b])))
<1>1. runtime[b] \in [revision : Nat, document : Documents, anchor : 0..Len(commits)]
    BY DEF IInv, Shape
<1>2. Len(commits) \in Nat  BY DEF IInv, Commits
<1>3. runtime[b] \in Envelopes  BY <1>1, <1>2 DEF Envelopes
<1>4. Fits(b, runtime[b])  BY <1>3 DEF Fits, IInv, AnchorInHistory
<1>5. ASSUME tip[b] # 0, NEW r \in Nat, NEW d \in Documents
      PROVE  Fits(b, [revision |-> r, document |-> d, anchor |-> tip[b]])
    BY <1>5, Tips DEF Fits, Envelopes
<1>6. Fits(b, Reconciled(b))
    <2>1. CASE PendingMerge(b)
        <3>1. tip[b] # 0  BY <2>1 DEF PendingMerge
        <3>2. TipDocument(b) \in Documents  BY <3>1, Tips
        <3>3. runtime[b].revision + 1 \in Nat  BY <1>3 DEF Envelopes
        <3> QED BY <1>5, <2>1, <3>1, <3>2, <3>3 DEF Reconciled
    <2>2. CASE ~PendingMerge(b)  BY <1>4, <2>2 DEF Reconciled
    <2> QED BY <2>1, <2>2
<1>7. ASSUME tip[b] # 0, NEW e, Fits(b, e) PROVE Fits(b, Settled(b, e))
    <2>1. TipDocument(b) \in Documents  BY <1>7, Tips
    <2>2. CASE e.revision = 0
        BY <1>5, <1>7, <2>1, <2>2 DEF Settled
    <2>3. CASE e.revision # 0
        <3>1. tip[b] \in Past(tip[b]) /\ tip[b] \in Nat  BY <1>7, Tips
        <3>2. Settled(b, e) = [e EXCEPT !.anchor = tip[b]]  BY <2>3 DEF Settled
        <3>3. [e EXCEPT !.anchor = tip[b]] \in Envelopes
              /\ [e EXCEPT !.anchor = tip[b]].anchor = tip[b]
            BY <1>7, <3>1 DEF Fits, Envelopes
        <3> QED BY <1>7, <3>1, <3>2, <3>3 DEF Fits
    <2> QED BY <2>2, <2>3
<1> QED BY <1>4, <1>6, <1>7
-----------------------------------------------------------------------------
(* Steps that leave Git alone *)

LEMMA AtIs ==
    ASSUME IInv, NEW o, NEW s, At(o, s)
    PROVE  /\ o \in running /\ Operation(o)
           /\ Name(o, 1) = s /\ o.todo[1] \in Steps(o.locks)
           /\ \A i : Arg(o, i) = o.todo[1][i + 1]
           /\ Anchoring(o, 1) /\ Committing(o, 1) /\ Growth(o, 1) /\ Joining(o, 1)
           /\ o.on \in Branches /\ o.from \in Branches /\ o.on \in o.locks /\ o.from \in o.locks
           /\ o.locks \in SUBSET Branches
<1>1. o \in running /\ Operation(o) /\ Course(o)  BY DEF At, IInv, Operations, Courses
<1>2. 1 \in DOMAIN o.todo /\ Head(o.todo) = o.todo[1] /\ o.todo[1] \in Steps(o.locks)
      /\ o.on \in Branches /\ o.from \in Branches /\ o.on \in o.locks /\ o.from \in o.locks
      /\ o.locks \in SUBSET Branches
    BY <1>1, OperationIs
<1> QED BY <1>1, <1>2 DEF At, Arg, Name, Course

\* A step that replaces one document and then goes on or ends.
LEMMA Shaped ==
    ASSUME IInv, UNCHANGED initialized, degraded' \in BOOLEAN, scheduled' \subseteq Branches,
           UNCHANGED expected,
           tip' \in [Branches -> 0..Len(commits')],
           runtime' \in [Branches -> [revision : Nat, document : Documents,
                                      anchor : 0..Len(commits')]]
    PROVE  Shape'
BY DEF IInv, Shape

LEMMA SameStores ==
    ASSUME IInv, UNCHANGED <<commits, tip, runtime>>
    PROVE  /\ Commits' /\ AnchorInHistory'
           /\ tip' \in [Branches -> 0..Len(commits')]
           /\ runtime' \in [Branches -> [revision : Nat, document : Documents,
                                         anchor : 0..Len(commits')]]
           /\ \A locks : Kept(locks)
           /\ \A c : TipDocument(c)' = TipDocument(c) /\ History(c)' = History(c)
BY DEF IInv, Commits, Shape, AnchorInHistory, Kept, TipDocument, History

LEMMA LoadStep == ASSUME IInv, NEW o \in running, Load(o) PROVE IInv'
<1> DEFINE b == Arg(o, 1)
<1>1. At(o, "load") /\ UNCHANGED <<git, degraded, scheduled, expected>>  BY DEF Load
<1>2. Operation(o) /\ Name(o, 1) = "load" /\ b = o.todo[1][2] /\ b \in o.locks
      /\ b \in Branches
    BY <1>1, AtIs, StepIs DEF Name
<1>3. UNCHANGED <<initialized, commits, tip>>  BY <1>1 DEF git
<1>4. degraded' \in BOOLEAN /\ scheduled' \subseteq Branches  BY <1>1 DEF IInv, Shape
<1> HIDE DEF b
<1>5. CASE Loads(b)
    <2>1. runtime' = [runtime EXCEPT ![b] = Loaded(b)] /\ Follow(o, Rest(o))
        BY <1>5 DEF Load, b
    <2>2. Fits(b, Loaded(b))
        BY <1>2, <1>5, FitsNow DEF Loads, Loaded
    <2>3. Commits' /\ AnchorInHistory' /\ Kept(o.locks) /\ Shape'
        BY <1>1, <1>2, <1>3, <1>4, <2>1, <2>2, Replaces, Shaped
    <2>4. Operations' /\ Apart' /\ Courses'
        BY <1>2, <1>3, <2>1, <2>3, GoesRest
    <2> QED BY <2>3, <2>4 DEF IInv
<1>6. CASE ~Loads(b)
    <2>1. End(o) /\ UNCHANGED runtime  BY <1>6 DEF Load, b
    <2>2. Commits' /\ AnchorInHistory' /\ Kept(o.locks) /\ Shape'
        BY <1>1, <1>3, <1>4, <2>1, SameStores, Shaped
    <2> QED BY <2>1, <2>2, Ends DEF IInv
<1> QED BY <1>5, <1>6

\* Steps that only end their operation, or only go on with the rest.
LEMMA EndsOnly ==
    ASSUME IInv, NEW o \in running, End(o), UNCHANGED <<git, runtime, expected>>,
           degraded' \in BOOLEAN, scheduled' \subseteq Branches
    PROVE  IInv'
<1>1. UNCHANGED <<initialized, commits, tip>>  BY DEF git
<1>2. Commits' /\ AnchorInHistory' /\ Kept(o.locks) /\ Shape'
    BY <1>1, SameStores, Shaped
<1> QED BY <1>2, Ends DEF IInv

LEMMA RestOnly ==
    ASSUME IInv, NEW o \in running, Follow(o, Rest(o)), UNCHANGED <<git, runtime, expected>>,
           degraded' \in BOOLEAN, scheduled' \subseteq Branches,
           Name(o, 1) \in {"load", "query", "cancel", "assert"},
           Name(o, 1) = "query" => tip[o.on] # 0 /\ tip[o.from] # 0
    PROVE  IInv'
<1>1. UNCHANGED <<initialized, commits, tip>>  BY DEF git
<1>2. Commits' /\ AnchorInHistory' /\ Kept(o.locks) /\ Shape'
    BY <1>1, SameStores, Shaped
<1>3. Operations' /\ Apart' /\ Courses'  BY <1>1, <1>2, GoesRest
<1> QED BY <1>2, <1>3 DEF IInv

LEMMA CancelsSome ==
    ASSUME IInv, NEW branches, CancelScheduled(branches) PROVE scheduled' \subseteq Branches
BY DEF CancelScheduled, IInv, Shape

LEMMA QueryStep == ASSUME IInv, NEW o \in running, Query(o) PROVE IInv'
<1>1. At(o, "query") /\ UNCHANGED <<git, runtime, degraded, scheduled, expected>>  BY DEF Query
<1>2. Name(o, 1) = "query" /\ o.on \in o.locks /\ o.from \in o.locks  BY <1>1, AtIs
<1>3. degraded' \in BOOLEAN /\ scheduled' \subseteq Branches  BY <1>1 DEF IInv, Shape
<1>4. CASE \A b \in o.locks : tip[b] # 0
    <2>1. Follow(o, Rest(o)) \/ End(o)  BY DEF Query
    <2> QED BY <1>1, <1>2, <1>3, <1>4, <2>1, RestOnly, EndsOnly
<1>5. CASE ~\A b \in o.locks : tip[b] # 0
    <2>1. End(o)  BY <1>5 DEF Query
    <2> QED BY <1>1, <1>3, <2>1, EndsOnly
<1> QED BY <1>4, <1>5

LEMMA CancelStep == ASSUME IInv, NEW o \in running, Cancel(o) PROVE IInv'
<1>1. At(o, "cancel") /\ UNCHANGED <<git, runtime, degraded, expected>> /\ Follow(o, Rest(o))
      /\ CancelScheduled(o.locks)
    BY DEF Cancel
<1>2. Name(o, 1) = "cancel"  BY <1>1, AtIs
<1>3. degraded' \in BOOLEAN /\ scheduled' \subseteq Branches
    BY <1>1, CancelsSome DEF IInv, Shape
<1> QED BY <1>1, <1>2, <1>3, RestOnly

LEMMA AssertStep == ASSUME IInv, NEW o \in running, AssertExpectation(o) PROVE IInv'
<1>1. At(o, "assert") /\ UNCHANGED <<git, runtime, degraded, scheduled, expected>>
      /\ (Follow(o, Rest(o)) \/ End(o))
    BY DEF AssertExpectation
<1>2. Name(o, 1) = "assert"  BY <1>1, AtIs
<1>3. degraded' \in BOOLEAN /\ scheduled' \subseteq Branches  BY <1>1 DEF IInv, Shape
<1> QED BY <1>1, <1>2, <1>3, RestOnly, EndsOnly

LEMMA PreviewStep == ASSUME IInv, NEW o \in running, Preview(o) PROVE IInv'
<1>1. At(o, "preview") /\ UNCHANGED <<git, runtime, scheduled>> /\ End(o) /\ degraded' = FALSE
      /\ expected' = Expectation(o.from, o.on)
    BY DEF Preview
<1>2. o.on \in Branches /\ o.from \in Branches  BY <1>1, AtIs
<1>3. UNCHANGED <<initialized, commits, tip>>  BY <1>1 DEF git
<1>4. Commits' /\ AnchorInHistory' /\ Kept(o.locks)  BY <1>1, <1>3, SameStores
<1>5. expected'.source \in Branches /\ expected'.target \in Branches
    BY <1>1, <1>2 DEF Expectation
<1>6. Shape'  BY <1>1, <1>3, <1>5 DEF IInv, Shape
<1> QED BY <1>1, <1>4, <1>6, Ends DEF IInv

LEMMA SettleRefusedStep == ASSUME IInv, NEW o \in running, SettleRefused(o) PROVE IInv'
<1>1. UNCHANGED <<git, runtime, degraded, scheduled, expected>> /\ End(o)
    BY DEF SettleRefused
<1>2. degraded' \in BOOLEAN /\ scheduled' \subseteq Branches  BY <1>1 DEF IInv, Shape
<1> QED BY <1>1, <1>2, EndsOnly

LEMMA FailStep == ASSUME IInv, NEW o \in running, Fail(o) PROVE IInv'
<1>1. UNCHANGED <<git, runtime, scheduled, expected>> /\ End(o) /\ degraded' \in {degraded, TRUE}
    BY DEF Fail
<1>2. degraded' \in BOOLEAN /\ scheduled' \subseteq Branches  BY <1>1 DEF IInv, Shape
<1> QED BY <1>1, <1>2, EndsOnly

LEMMA Applies ==
    ASSUME NEW d \in Documents, NEW c \in Commands, Apply(d, c) # Rejected
    PROVE  Apply(d, c) \in Documents
<1>1. Reducer[<<d, c>>] \in Documents \cup {Rejected}
    <2>1. <<d, c>> \in Documents \X Commands  OBVIOUS
    <2> QED BY <2>1, ReducerAssumption
<1>2. Apply(d, c) = Reducer[<<d, c>>]  BY Zenon DEF Apply
<1> QED BY <1>1, <1>2

\* The document of a branch is replaced, and the operation ends.
LEMMA EndsReplaced ==
    ASSUME IInv, NEW o \in running, NEW b \in o.locks, NEW e, Fits(b, e),
           runtime' = [runtime EXCEPT ![b] = e], UNCHANGED <<git, degraded, expected>>,
           scheduled' \subseteq Branches, End(o)
    PROVE  IInv'
<1>1. UNCHANGED <<initialized, commits, tip>> /\ degraded' \in BOOLEAN  BY DEF git, IInv, Shape
<1>2. b \in Branches  BY OperationIs DEF IInv, Operations
<1>3. Commits' /\ AnchorInHistory' /\ Kept(o.locks) /\ Shape'
    BY <1>1, <1>2, Replaces, Shaped
<1> QED BY <1>3, Ends DEF IInv

LEMMA Anchored ==
    ASSUME IInv, NEW o \in running, At(o, "anchor")
    PROVE  /\ Arg(o, 1) \in o.locks /\ Arg(o, 1) \in Branches
           /\ Saved(Arg(o, 1)) /\ Arg(o, 2) = runtime[Arg(o, 1)].revision
           /\ Arg(o, 3) = tip[Arg(o, 1)]
           /\ Fits(Arg(o, 1), [runtime[Arg(o, 1)] EXCEPT !.anchor = tip[Arg(o, 1)]])
<1> DEFINE b == Arg(o, 1)
<1>1. b \in o.locks /\ b \in Branches /\ b = o.todo[1][2] /\ Arg(o, 2) = o.todo[1][3]
      /\ Arg(o, 3) = o.todo[1][4]
    BY AtIs, StepIs DEF Name
<1>2. Saved(b) /\ Arg(o, 2) = runtime[b].revision /\ Arg(o, 3) = tip[b]
    BY <1>1, AtIs DEF Anchoring
<1> HIDE DEF b
<1>3. runtime[b] \in Envelopes  BY <1>1, FitsNow DEF Fits
<1>4. tip[b] \in Nat /\ tip[b] \in Past(tip[b]) /\ tip[b] # 0  BY <1>1, <1>2, Tips DEF Saved
<1>5. [runtime[b] EXCEPT !.anchor = tip[b]] \in Envelopes
      /\ [runtime[b] EXCEPT !.anchor = tip[b]].anchor = tip[b]
    BY <1>3, <1>4 DEF Envelopes
<1>6. Fits(b, [runtime[b] EXCEPT !.anchor = tip[b]])  BY <1>4, <1>5 DEF Fits
<1> QED BY <1>1, <1>2, <1>6 DEF b

LEMMA AnchorStep == ASSUME IInv, NEW o \in running, Anchor(o) PROVE IInv'
<1> DEFINE b == Arg(o, 1)
           e == [runtime[b] EXCEPT !.anchor = tip[b]]
<1>1. At(o, "anchor") /\ UNCHANGED <<git, degraded, scheduled, expected>>  BY DEF Anchor
<1>2. b \in o.locks /\ b \in Branches /\ Saved(b) /\ Arg(o, 2) = runtime[b].revision
      /\ Arg(o, 3) = tip[b] /\ Fits(b, e)
    BY <1>1, Anchored
<1>3. Name(o, 1) = "anchor" /\ b = o.todo[1][2]  BY <1>1, AtIs
<1>4. UNCHANGED <<initialized, commits, tip>> /\ degraded' \in BOOLEAN /\ scheduled' \subseteq Branches
    BY <1>1 DEF git, IInv, Shape
<1>5. runtime' = [runtime EXCEPT ![b].anchor = tip[b]] /\ Follow(o, Rest(o))
    BY <1>2 DEF Anchor
<1> HIDE DEF b
<1>6. runtime' = [runtime EXCEPT ![b] = e]  BY <1>5
<1>7. e.document = runtime[b].document
    <2>1. runtime[b] \in Envelopes  BY <1>2, FitsNow DEF Fits
    <2> QED BY <2>1 DEF Envelopes
<1> HIDE DEF e
<1>8. Commits' /\ AnchorInHistory' /\ Kept(o.locks) /\ Shape'
      /\ runtime'[b] = e /\ TipDocument(b)' = TipDocument(b) /\ History(b)' = History(b)
    BY <1>1, <1>2, <1>4, <1>6, Replaces, Shaped
<1>9. Saved(b)' /\ runtime'[b].document \in History(b)'
    BY <1>2, <1>4, <1>7, <1>8, Tips DEF Saved
<1>10. Operations' /\ Apart' /\ Courses'
    BY <1>3, <1>4, <1>5, <1>8, <1>9, GoesRest
<1> QED BY <1>8, <1>10 DEF IInv

LEMMA ReconcileStep == ASSUME IInv, NEW o \in running, Reconcile(o) PROVE IInv'
<1> DEFINE b == Arg(o, 1)
<1>1. At(o, "reconcile") /\ UNCHANGED <<git, scheduled, expected>>  BY DEF Reconcile
<1>2. Name(o, 1) = "reconcile" /\ b = o.todo[1][2] /\ b \in o.locks /\ b \in Branches
    BY <1>1, AtIs, StepIs DEF Name
<1>3. UNCHANGED <<initialized, commits, tip>> /\ scheduled' \subseteq Branches
    BY <1>1 DEF git, IInv, Shape
<1> HIDE DEF b
<1>4. CASE Reconciles(b)
    <2>1. runtime' = [runtime EXCEPT ![b] = Reconciled(b)] /\ Follow(o, Rest(o))
          /\ degraded' = (degraded /\ ~PendingMerge(b))
        BY <1>4 DEF Reconcile, b
    <2>2. degraded' \in BOOLEAN
        <3>1. degraded \in BOOLEAN  BY DEF IInv, Shape
        <3> QED BY <2>1, <3>1, Zenon
    <2>3. Fits(b, Reconciled(b))  BY <1>2, FitsNow
    <2>4. Commits' /\ AnchorInHistory' /\ Kept(o.locks) /\ Shape'
        BY <1>1, <1>2, <1>3, <2>1, <2>2, <2>3, Replaces, Shaped
    <2>5. Operations' /\ Apart' /\ Courses'  BY <1>2, <2>1, <2>4, GoesRest
    <2> QED BY <2>4, <2>5 DEF IInv
<1>5. CASE ~Reconciles(b)
    <2>1. End(o) /\ UNCHANGED <<runtime, degraded>>  BY <1>5 DEF Reconcile, b
    <2>2. degraded' \in BOOLEAN  BY <2>1 DEF IInv, Shape
    <2> QED BY <1>1, <1>3, <2>1, <2>2, EndsOnly
<1> QED BY <1>4, <1>5

LEMMA SettleStep == ASSUME IInv, NEW o \in running, Settle(o) PROVE IInv'
<1>1. At(o, "settle") /\ UNCHANGED <<git, degraded, scheduled, expected>> /\ End(o)
      /\ runtime' = [runtime EXCEPT ![o.on] = Settled(o.on, runtime[o.on])]
    BY DEF Settle
<1>2. o.on \in o.locks /\ o.on \in Branches /\ tip[o.on] # 0
    BY <1>1, AtIs DEF Growth
<1>3. Fits(o.on, Settled(o.on, runtime[o.on]))  BY <1>2, FitsNow
<1>4. scheduled' \subseteq Branches  BY <1>1 DEF IInv, Shape
<1> QED BY <1>1, <1>2, <1>3, <1>4, EndsReplaced

LEMMA ApplyMergeStep == ASSUME IInv, NEW o \in running, ApplyMerge(o) PROVE IInv'
<1>1. At(o, "apply") /\ UNCHANGED <<git, degraded, scheduled, expected>> /\ End(o)
    BY DEF ApplyMerge
<1>2. scheduled' \subseteq Branches /\ degraded' \in BOOLEAN  BY <1>1 DEF IInv, Shape
<1>3. o.on \in o.locks /\ o.on \in Branches /\ tip[o.on] # 0 /\ Arg(o, 2) = tip[o.on]
      /\ Arg(o, 1) \in Nat
    BY <1>1, AtIs, StepIs DEF Joining, Name
<1>4. CASE runtime[o.on].revision = Arg(o, 1)
    <2> DEFINE e == [revision |-> Arg(o, 1) + 1, document |-> TipDocument(o.on), anchor |-> tip[o.on]]
    <2>1. runtime' = [runtime EXCEPT ![o.on] = e]
        BY <1>3, <1>4 DEF ApplyMerge, TipDocument
    <2>2. Fits(o.on, e)  BY <1>3, Tips DEF Fits, Envelopes
    <2> HIDE DEF e
    <2> QED BY <1>1, <1>2, <1>3, <2>1, <2>2, EndsReplaced
<1>5. CASE runtime[o.on].revision # Arg(o, 1)
    <2>1. UNCHANGED runtime  BY <1>5 DEF ApplyMerge
    <2> QED BY <1>1, <1>2, <2>1, EndsOnly
<1> QED BY <1>4, <1>5

LEMMA TakeIs ==
    ASSUME IInv, NEW b \in Branches, NEW c \in Commands, Apply(runtime[b].document, c) # Rejected,
           Take(b, c)
    PROVE  \E e : Fits(b, e) /\ runtime' = [runtime EXCEPT ![b] = e]
<1> DEFINE r == runtime[b]
           d == Apply(runtime[b].document, c)
           e == [r EXCEPT !.revision = r.revision + 1, !.document = d]
<1>1. runtime[b] \in Envelopes /\ Fits(b, runtime[b])  BY FitsNow DEF Fits
<1>2. Apply(runtime[b].document, c) \in Documents  BY <1>1, Applies DEF Envelopes
<1>3. runtime' = [runtime EXCEPT ![b].revision = @ + 1, ![b].document = Apply(@, c)]
    BY DEF Take
<1>4. runtime' = [runtime EXCEPT ![b] = e]  BY <1>3
<1>5. e \in Envelopes /\ e.anchor = runtime[b].anchor
    <2>1. r \in Envelopes /\ d \in Documents  BY <1>1, <1>2
    <2> HIDE DEF r, d
    <2> DEFINE f == [r EXCEPT !.revision = r.revision + 1]
    <2>2. f \in Envelopes /\ f.anchor = r.anchor  BY <2>1 DEF Envelopes
    <2>3. e = [f EXCEPT !.document = d]  BY <2>1 DEF Envelopes
    <2> HIDE DEF e, f
    <2>4. e \in Envelopes /\ e.anchor = f.anchor  BY <2>1, <2>2, <2>3 DEF Envelopes
    <2> QED BY <2>2, <2>4 DEF r
<1>6. Fits(b, e)  BY <1>1, <1>5 DEF Fits
<1> QED BY <1>4, <1>6

LEMMA CommitStep == ASSUME IInv, NEW o \in running, Commit(o) PROVE IInv'
<1> DEFINE b == Arg(o, 1)
           c == Arg(o, 3)
<1>1. At(o, "commit") /\ UNCHANGED <<git, degraded, expected>> /\ End(o)  BY DEF Commit
<1>2. b \in o.locks /\ b \in Branches /\ c \in Commands
    BY <1>1, AtIs, StepIs DEF Name
<1>3. degraded' \in BOOLEAN /\ scheduled \subseteq Branches  BY <1>1 DEF IInv, Shape
<1>4. CASE Apply(runtime[b].document, c) # Rejected /\ Take(b, c)
    <2>1. scheduled' \subseteq Branches  BY <1>2, <1>3, <1>4 DEF Take
    <2>2. PICK e : Fits(b, e) /\ runtime' = [runtime EXCEPT ![b] = e]  BY <1>2, <1>4, TakeIs
    <2> QED BY <1>1, <1>2, <2>1, <2>2, EndsReplaced
<1>5. CASE UNCHANGED <<runtime, scheduled>>  BY <1>1, <1>3, <1>5, EndsOnly
<1> QED BY <1>4, <1>5 DEF Commit

LEMMA CommitLatestStep == ASSUME IInv, NEW o \in running, CommitLatest(o) PROVE IInv'
<1> DEFINE b == Arg(o, 1)
           c == Arg(o, 2)
<1>1. At(o, "commitLatest") /\ UNCHANGED <<git, degraded, expected>> /\ End(o)  BY DEF CommitLatest
<1>2. b \in o.locks /\ b \in Branches /\ c \in Commands
    BY <1>1, AtIs, StepIs DEF Name
<1>3. degraded' \in BOOLEAN /\ scheduled \subseteq Branches  BY <1>1 DEF IInv, Shape
<1>4. CASE Apply(runtime[b].document, c) # Rejected /\ Take(b, c)
    <2>1. scheduled' \subseteq Branches  BY <1>2, <1>3, <1>4 DEF Take
    <2>2. PICK e : Fits(b, e) /\ runtime' = [runtime EXCEPT ![b] = e]  BY <1>2, <1>4, TakeIs
    <2> QED BY <1>1, <1>2, <2>1, <2>2, EndsReplaced
<1>5. CASE UNCHANGED runtime /\ scheduled' \in {scheduled, scheduled \cup {b}}
    BY <1>1, <1>2, <1>3, <1>5, EndsOnly
<1> QED BY <1>4, <1>5 DEF CommitLatest

\* An operation goes on with other steps; nothing else happens to the stores.
LEMMA GoesOnOnly ==
    ASSUME IInv, NEW o \in running, NEW todo \in Seq(Steps(o.locks)), todo # <<>>,
           Follow(o, todo), UNCHANGED <<git, runtime, expected>>,
           degraded' \in BOOLEAN, scheduled' \subseteq Branches,
           Course([o EXCEPT !.todo = todo])
    PROVE  IInv'
<1> DEFINE n == [o EXCEPT !.todo = todo]
<1>1. UNCHANGED <<initialized, commits, tip, runtime>>  BY DEF git
<1>2. Commits' /\ AnchorInHistory' /\ Kept(o.locks) /\ Shape'
      /\ \A c : TipDocument(c)' = TipDocument(c) /\ History(c)' = History(c)
    BY <1>1, SameStores, Shaped
<1>3. Course(n)  OBVIOUS
<1> HIDE DEF n
<1>4. Course(n)'
    BY <1>1, <1>2, <1>3 DEF Course, Anchoring, Committing, Growth, Joining, Saved, SavedBefore, Name
<1>5. Operations' /\ Apart' /\ Courses'  BY <1>2, <1>4, GoesOn DEF n
<1> QED BY <1>2, <1>5 DEF IInv

LEMMA AdmitStep == ASSUME IInv, NEW o \in running, Admit(o) PROVE IInv'
<1> DEFINE b == Arg(o, 1)
           base == Arg(o, 2)
           c == Arg(o, 3)
           commit == <<"commit", b, base, c>>
<1>1. At(o, "admit") /\ UNCHANGED <<git, runtime, degraded, expected>>  BY DEF Admit
<1>2. b \in o.locks /\ b \in Branches /\ base \in Nat /\ c \in Commands /\ Operation(o)
    BY <1>1, AtIs, StepIs DEF Name
<1>3. degraded' \in BOOLEAN /\ scheduled \subseteq Branches  BY <1>1 DEF IInv, Shape
<1>4. <<commit>> \in Seq(Steps(o.locks))
      /\ <<"checkpoint", b>> \in Steps(o.locks)
    <2>1. commit \in Steps(o.locks) /\ <<"checkpoint", b>> \in Steps(o.locks)
        BY <1>2 DEF Steps
    <2> HIDE DEF commit
    <2> QED BY <2>1
<1>5. CASE ~(NeedsCheckpoint(c) /\ runtime[b].revision = base)
    <2>1. Follow(o, <<commit>>) /\ UNCHANGED scheduled  BY <1>5 DEF Admit
    <2> DEFINE n == [o EXCEPT !.todo = <<commit>>]
    <2>2. n.todo = <<commit>>  BY <1>2 DEF Operation
    <2> HIDE DEF n
    <2>3. DOMAIN n.todo = {1} /\ n.todo[1] = commit  BY <2>2
    <2> HIDE DEF b, base, c
    <2>4. n.todo[1][1] = "commit" /\ n.todo[1][2] = b /\ n.todo[1][3] = base /\ n.todo[1][4] = c
        BY <2>3
    <2> HIDE DEF commit
    <2>5. Course(n)
        BY <1>5, <2>3, <2>4
        DEF Course, Name, Anchoring, Committing, Growth, Joining, NeedsCheckpoint
    <2> QED BY <1>1, <1>3, <1>4, <2>1, <2>5, GoesOnOnly DEF n
<1>6. CASE NeedsCheckpoint(c) /\ runtime[b].revision = base
           /\ Apply(runtime[b].document, c) = Rejected
    <2>1. End(o) /\ UNCHANGED scheduled  BY <1>6 DEF Admit
    <2> QED BY <1>1, <1>3, <2>1, EndsOnly
<1>7. CASE NeedsCheckpoint(c) /\ runtime[b].revision = base
           /\ Apply(runtime[b].document, c) # Rejected
    <2> DEFINE check == <<"checkpoint", b>>
               t == <<check>> \o <<commit>>
               n == [o EXCEPT !.todo = t]
    <2>1. Follow(o, t) /\ CancelScheduled({b})  BY <1>7 DEF Admit
    <2>2. t \in Seq(Steps(o.locks)) /\ t # <<>> /\ DOMAIN t = {1, 2} /\ t[1] = check /\ t[2] = commit
        <3> DEFINE S == Steps(o.locks)
                   s == <<commit>>
        <3>1. check \in S /\ s \in Seq(S) /\ Len(s) = 1 /\ s[1] = commit  BY <1>4
        <3> HIDE DEF S, s, check
        <3> QED BY <3>1, Before DEF S, s
    <2>3. n.todo = t  BY <1>2 DEF Operation
    <2> HIDE DEF t
    <2> HIDE DEF n
    <2>4. DOMAIN n.todo = {1, 2} /\ n.todo[1] = check /\ n.todo[2] = commit  BY <2>2, <2>3
    <2> HIDE DEF b, base, c
    <2>5. n.todo[1][1] = "checkpoint" /\ n.todo[1][2] = b
          /\ n.todo[2][1] = "commit" /\ n.todo[2][2] = b
        BY <2>4
    <2> HIDE DEF commit, check
    <2>6. Course(n)
        BY <2>4, <2>5 DEF Course, Name, Anchoring, Committing, Growth, Joining, SavedBefore
    <2>7. scheduled' \subseteq Branches  BY <2>1, CancelsSome
    <2> QED BY <1>1, <1>3, <2>1, <2>2, <2>6, <2>7, GoesOnOnly DEF n
<1> QED BY <1>5, <1>6, <1>7

LEMMA LastStepsAre ==
    ASSUME NEW o, Operation(o)
    PROVE  /\ LastSteps(o) \in Seq(Steps(o.locks))
           /\ Len(LastSteps(o)) = IF o.kind = "conflict" THEN 2 ELSE 1
           /\ LastSteps(o)[1] = IF o.kind = "conflict" THEN <<"recover">> ELSE <<"settle">>
           /\ o.kind = "conflict" => LastSteps(o)[2] = <<"settle">>
<1> DEFINE S == Steps(o.locks)
           recover == <<"recover">>
           settle == <<"settle">>
<1>1. recover \in S /\ settle \in S  BY DEF Steps
<1>2. LastSteps(o) = IF o.kind = "conflict" THEN <<recover, settle>> ELSE <<settle>>
    BY DEF LastSteps
<1> HIDE DEF S, recover, settle
<1>3. <<recover, settle>> \in Seq(S) /\ <<settle>> \in Seq(S)  BY <1>1
<1>4. LastSteps(o) \in Seq(S) /\ Len(LastSteps(o)) = (IF o.kind = "conflict" THEN 2 ELSE 1)
      /\ LastSteps(o)[1] = (IF o.kind = "conflict" THEN recover ELSE settle)
      /\ (o.kind = "conflict" => LastSteps(o)[2] = settle)
    BY <1>2, <1>3
<1> QED BY <1>4 DEF S, recover, settle

LEMMA LookUpStep == ASSUME IInv, NEW o \in running, LookUp(o) PROVE IInv'
<1> DEFINE last == LastSteps(o)
<1>1. At(o, "lookup") /\ UNCHANGED <<git, runtime, degraded, expected>>  BY DEF LookUp
<1>2. Operation(o) /\ o.on \in Branches /\ o.from \in Branches /\ o.on \in o.locks
      /\ o.from \in o.locks /\ o.kind \in Growing
    BY <1>1, AtIs DEF Growth
<1>3. degraded' \in BOOLEAN /\ scheduled \subseteq Branches  BY <1>1 DEF IInv, Shape
<1>4. last \in Seq(Steps(o.locks)) /\ Len(last) = (IF o.kind = "conflict" THEN 2 ELSE 1)
      /\ last[1] = (IF o.kind = "conflict" THEN <<"recover">> ELSE <<"settle">>)
      /\ (o.kind = "conflict" => last[2] = <<"settle">>)
    BY <1>2, LastStepsAre
<1>5. CASE Refused(o)
    <2>1. End(o) /\ UNCHANGED scheduled  BY <1>5 DEF LookUp
    <2> QED BY <1>1, <1>3, <2>1, EndsOnly
<1>6. CASE ~Refused(o) /\ tip[o.on] # 0
    <2> DEFINE n == [o EXCEPT !.todo = last]
    <2>1. Follow(o, last) /\ UNCHANGED scheduled  BY <1>6 DEF LookUp
    <2>2. n.todo = last /\ n.kind = o.kind /\ n.on = o.on /\ n.from = o.from /\ n.given = o.given
        BY <1>2 DEF Operation
    <2> HIDE DEF n, last
    <2>3. Course(n)
        <3>1. CASE o.kind = "conflict"
            <4>1. DOMAIN n.todo = {1, 2} /\ Name(n, 1) = "recover" /\ Name(n, 2) = "settle"
                BY <3>1, <1>4, <2>2 DEF Name
            <4> QED BY <1>2, <1>6, <2>2, <3>1, <4>1
                 DEF Course, Anchoring, Committing, Growth, Joining
        <3>2. CASE o.kind # "conflict"
            <4>1. DOMAIN n.todo = {1} /\ Name(n, 1) = "settle"  BY <3>2, <1>4, <2>2 DEF Name
            <4> QED BY <1>2, <1>6, <2>2, <3>2, <4>1
                 DEF Course, Anchoring, Committing, Growth, Joining
        <3> QED BY <3>1, <3>2
    <2>4. last # <<>>  BY <1>4
    <2> QED BY <1>1, <1>3, <1>4, <2>1, <2>3, <2>4, GoesOnOnly DEF n
<1>7. CASE ~Refused(o) /\ tip[o.on] = 0
    <2> DEFINE S == Steps(o.locks)
               load == <<"load", o.from>>
               check == <<"checkpoint", o.from>>
               ref == <<"ref">>
               t == <<load, check, ref>> \o last
               n == [o EXCEPT !.todo = t]
    <2>1. Follow(o, t) /\ CancelScheduled({o.from})  BY <1>7 DEF LookUp
    <2>2. load \in S /\ check \in S /\ ref \in S  BY <1>2 DEF Steps
    <2>3. t \in Seq(S) /\ t # <<>> /\ Len(t) = Len(last) + 3 /\ DOMAIN t = 1..Len(last) + 3
          /\ t[1] = load /\ t[2] = check /\ t[3] = ref /\ t[4] = last[1]
          /\ (Len(last) = 2 => t[5] = last[2])
        <3>1. last \in Seq(S) /\ Len(last) \in {1, 2}  BY <1>4
        <3> HIDE DEF S, load, check, ref, last
        <3> DEFINE p == <<load, check, ref>>
        <3>2. p \in Seq(S) /\ Len(p) = 3 /\ p[1] = load /\ p[2] = check /\ p[3] = ref  BY <2>2
        <3> HIDE DEF p
        <3>3. t \in Seq(S) /\ Len(t) = Len(last) + 3  BY <3>1, <3>2 DEF p
        <3>4. t[1] = load /\ t[2] = check /\ t[3] = ref  BY <3>1, <3>2 DEF p
        <3>5. t[4] = last[1] /\ (Len(last) = 2 => t[5] = last[2])  BY <3>1, <3>2 DEF p
        <3> HIDE DEF t
        <3>6. t # <<>> /\ DOMAIN t = 1..Len(last) + 3  BY <3>1, <3>3
        <3> QED BY <3>3, <3>4, <3>5, <3>6
    <2>4. n.todo = t /\ n.kind = o.kind /\ n.on = o.on /\ n.from = o.from /\ n.given = o.given
        BY <1>2 DEF Operation
    <2> HIDE DEF n, t, last
    <2>5. Name(n, 1) = "load" /\ Name(n, 2) = "checkpoint" /\ Name(n, 3) = "ref"
          /\ n.todo[1][2] = o.from /\ n.todo[2][2] = o.from
        BY <2>3, <2>4 DEF Name
    <2>6. Course(n)
        <3>1. CASE o.kind = "conflict"
            <4>1. DOMAIN n.todo = {1, 2, 3, 4, 5} /\ Name(n, 4) = "recover" /\ Name(n, 5) = "settle"
                BY <3>1, <1>4, <2>3, <2>4 DEF Name
            <4> QED BY <1>2, <1>7, <2>4, <2>5, <3>1, <4>1
                 DEF Course, Anchoring, Committing, Growth, Joining, SavedBefore
        <3>2. CASE o.kind # "conflict"
            <4>1. DOMAIN n.todo = {1, 2, 3, 4} /\ Name(n, 4) = "settle"
                BY <3>2, <1>4, <2>3, <2>4 DEF Name
            <4> QED BY <1>2, <1>7, <2>4, <2>5, <3>2, <4>1
                 DEF Course, Anchoring, Committing, Growth, Joining, SavedBefore
        <3> QED BY <3>1, <3>2
    <2>7. scheduled' \subseteq Branches  BY <2>1, CancelsSome
    <2> QED BY <1>1, <1>3, <2>1, <2>3, <2>6, <2>7, GoesOnOnly DEF n
<1> QED BY <1>5, <1>6, <1>7
-----------------------------------------------------------------------------
(* Steps of Git *)

\* A branch takes a new commit, or stays; the runtime documents do.
LEMMA Extends ==
    ASSUME IInv, NEW b \in Branches, NEW d \in Documents, NEW parents \in Seq(Nat),
           CommitOnto(b, d, parents), UNCHANGED runtime,
           ToSet(parents) \subseteq DOMAIN commits,
           IF tip[b] = 0 THEN b = Main /\ tip[Main] = 0 ELSE tip[b] \in ToSet(parents)
    PROVE  /\ Commits' /\ AnchorInHistory'
           /\ tip' \in [Branches -> 0..Len(commits')]
           /\ runtime' \in [Branches -> [revision : Nat, document : Documents,
                                         anchor : 0..Len(commits')]]
           /\ \A locks : b \in locks => Kept(locks)
           /\ \A c \in Branches \ {b} : tip'[c] = tip[c]
           /\ tip'[b] # 0 /\ tip'[b] \notin DOMAIN commits /\ tip'[b] \in Nat
           /\ TipDocument(b)' = d
           /\ commits'[tip'[b]].parents = parents
           /\ History(b) \subseteq History(b)'
<1>1. /\ Commits'
      /\ tip' \in [Branches -> 0..Len(commits')]
      /\ Len(commits) <= Len(commits')
      /\ \A k \in DOMAIN commits : k \in DOMAIN commits' /\ commits'[k] = commits[k]
      /\ \A c \in Branches \ {b} : tip'[c] = tip[c]
      /\ tip'[b] = Len(commits) + 1 /\ tip'[b] \notin DOMAIN commits
      /\ tip'[b] \in DOMAIN commits'
      /\ commits'[tip'[b]].document = d /\ commits'[tip'[b]].parents = parents
      /\ tip[b] # 0 => Past(tip[b]) \subseteq commits'[tip'[b]].past
    BY Commitment
<1>2. Len(commits) \in Nat  BY DEF IInv, Commits
<1>3. Len(commits') \in Nat  BY <1>1 DEF Commits
<1>4. tip'[b] # 0 /\ tip'[b] \in Nat  BY <1>1, <1>2
<1>5. \A c \in Branches : tip[c] # 0 => tip'[c] # 0  BY <1>1, <1>4
<1>6. \A locks : b \in locks => Kept(locks)  BY <1>1, <1>5 DEF Kept
<1>7. TipDocument(b)' = d  BY <1>1 DEF TipDocument
<1>8. runtime \in [Branches -> [revision : Nat, document : Documents, anchor : 0..Len(commits)]]
    BY DEF IInv, Shape
<1>9. ASSUME NEW c \in Branches
      PROVE  runtime[c] \in [revision : Nat, document : Documents, anchor : 0..Len(commits')]
    BY <1>1, <1>2, <1>3, <1>8
<1>10. runtime' \in [Branches -> [revision : Nat, document : Documents, anchor : 0..Len(commits')]]
    BY <1>8, <1>9
<1>11. ASSUME NEW c \in Branches, runtime[c].anchor # 0
       PROVE  tip'[c] # 0 /\ runtime[c].anchor \in commits'[tip'[c]].past
    <2>1. tip[c] # 0 /\ runtime[c].anchor \in Past(tip[c])  BY <1>11 DEF IInv, AnchorInHistory
    <2>2. CASE c = b  BY <1>1, <1>4, <2>1, <2>2
    <2>3. CASE c # b
        <3>1. tip'[c] = tip[c] /\ commits'[tip[c]] = commits[tip[c]]  BY <1>1, <2>1, <2>3, Tips
        <3> QED BY <2>1, <3>1
    <2> QED BY <2>2, <2>3
<1>12. AnchorInHistory'  BY <1>11 DEF AnchorInHistory
<1>13. History(b) \subseteq History(b)'
    <2>1. CASE tip[b] = 0  BY <2>1 DEF History
    <2>2. CASE tip[b] # 0
        <3>1. \A k \in Past(tip[b]) : commits'[k] = commits[k] /\ k \in commits'[tip'[b]].past
            BY <1>1, <2>2, Tips
        <3> QED BY <1>4, <2>2, <3>1 DEF History
    <2> QED BY <2>1, <2>2
<1> QED BY <1>1, <1>4, <1>6, <1>7, <1>10, <1>12, <1>13

LEMMA GitCheckpoints ==
    ASSUME IInv, NEW b \in Branches, NEW d \in Documents, GitKnows(b), GitCheckpoint(b, d),
           UNCHANGED runtime
    PROVE  /\ Commits' /\ AnchorInHistory' /\ initialized' = TRUE
           /\ tip' \in [Branches -> 0..Len(commits')]
           /\ runtime' \in [Branches -> [revision : Nat, document : Documents,
                                         anchor : 0..Len(commits')]]
           /\ \A locks : b \in locks => Kept(locks)
           /\ \A c \in Branches \ {b} : tip'[c] = tip[c]
           /\ tip'[b] # 0 /\ tip'[b] \in Nat
           /\ TipDocument(b)' = d
           /\ tip'[b] \notin DOMAIN commits => Len(commits'[tip'[b]].parents) # 2
           /\ History(b) \subseteq History(b)'
<1>1. CASE tip[b] = 0
    <2>1. CommitOnto(b, d, <<>>) /\ b = Main /\ initialized' = TRUE
        BY <1>1 DEF GitCheckpoint, GitKnows
    <2>2. <<>> \in Seq(Nat) /\ ToSet(<<>>) \subseteq DOMAIN commits /\ Len(<<>>) # 2  BY ParentsOf
    <2> QED BY <1>1, <2>1, <2>2, Extends
<1>2. CASE tip[b] # 0 /\ TipDocument(b) = d
    <2>1. UNCHANGED <<commits, tip>> /\ initialized' = TRUE  BY <1>2 DEF GitCheckpoint
    <2>2. tip[b] \in Nat /\ tip[b] \in DOMAIN commits  BY <1>2, Tips
    <2> QED BY <1>2, <2>1, <2>2, SameStores
<1>3. CASE tip[b] # 0 /\ TipDocument(b) # d
    <2> DEFINE parents == <<tip[b]>>
    <2>1. CommitOnto(b, d, parents) /\ initialized' = TRUE  BY <1>3 DEF GitCheckpoint
    <2>2. tip[b] \in Nat /\ tip[b] \in DOMAIN commits  BY <1>3, Tips
    <2>3. parents \in Seq(Nat) /\ ToSet(parents) = {tip[b]} /\ Len(parents) # 2
        BY <2>2, ParentsOf
    <2> HIDE DEF parents
    <2> QED BY <1>3, <2>1, <2>2, <2>3, Extends
<1> QED BY <1>1, <1>2, <1>3

LEMMA RestIs ==
    ASSUME NEW o, Operation(o)
    PROVE  /\ Rest(o) \in Seq(Steps(o.locks)) /\ Len(Rest(o)) = Len(o.todo) - 1
           /\ \A i \in 1..Len(o.todo) - 1 : Rest(o)[i] = o.todo[i + 1]
<1> DEFINE S == Steps(o.locks)
<1>1. o.todo \in Seq(S) /\ Len(o.todo) > 0 /\ Len(o.todo) \in Nat  BY OperationIs
<1> HIDE DEF S
<1>2. Tail(o.todo) \in Seq(S) /\ Len(Tail(o.todo)) = Len(o.todo) - 1
      /\ \A i \in 1..Len(o.todo) - 1 : Tail(o.todo)[i] = o.todo[i + 1]
    BY <1>1
<1> QED BY <1>2 DEF Rest, S

LEMMA CheckpointStep == ASSUME IInv, NEW o \in running, Checkpoint(o) PROVE IInv'
<1> DEFINE b == Arg(o, 1)
           d == runtime[b].document
<1>1. At(o, "checkpoint") /\ UNCHANGED <<runtime, scheduled, expected>>  BY DEF Checkpoint
<1>2. Operation(o) /\ Course(o) /\ Name(o, 1) = "checkpoint" /\ b = o.todo[1][2] /\ b \in o.locks
      /\ b \in Branches /\ o.on \in Branches /\ o.from \in Branches
    BY <1>1, AtIs, StepIs DEF Name, IInv, Courses
<1>3. runtime[b] \in Envelopes  BY <1>2, FitsNow DEF Fits
<1>4. d \in Documents /\ runtime[b].revision \in Nat  BY <1>3 DEF Envelopes
<1>5. scheduled' \subseteq Branches  BY <1>1 DEF IInv, Shape
<1>6. CASE ~GitKnows(b)
    <2>1. End(o) /\ UNCHANGED <<git, degraded>>  BY <1>6 DEF Checkpoint
    <2>2. degraded' \in BOOLEAN  BY <2>1 DEF IInv, Shape
    <2> QED BY <1>1, <1>5, <2>1, <2>2, EndsOnly
<1>7. CASE GitKnows(b)
    <2>1. GitCheckpoint(b, d) /\ degraded' = FALSE
          /\ Follow(o, << <<"anchor", b, runtime[b].revision, tip'[b]>> >> \o Rest(o))
        BY <1>7 DEF Checkpoint
    <2> HIDE DEF b, d
    <2>2. /\ Commits' /\ AnchorInHistory' /\ initialized' = TRUE
          /\ tip' \in [Branches -> 0..Len(commits')]
          /\ runtime' \in [Branches -> [revision : Nat, document : Documents,
                                        anchor : 0..Len(commits')]]
          /\ Kept(o.locks)
          /\ \A c \in Branches \ {b} : tip'[c] = tip[c]
          /\ tip'[b] # 0 /\ tip'[b] \in Nat
          /\ TipDocument(b)' = d
        BY <1>1, <1>2, <1>4, <1>7, <2>1, GitCheckpoints
    <2>3. Shape'  BY <1>1, <1>5, <2>1, <2>2 DEF IInv, Shape
    <2>4. PICK k \in Nat : k = tip'[b]  BY <2>2
    <2>40. PICK r \in Nat : r = runtime[b].revision  BY <1>4
    <2> DEFINE step == <<"anchor", b, r, k>>
               t == <<step>> \o Rest(o)
               n == [o EXCEPT !.todo = t]
    <2>5. Follow(o, t)  BY <2>1, <2>4, <2>40
    <2>6. step \in Steps(o.locks)  BY <1>2, <1>4, <2>4 DEF Steps
    <2>7. Len(o.todo) \in Nat /\ Len(o.todo) > 0 /\ DOMAIN o.todo = 1..Len(o.todo)
        BY <1>2, OperationIs
    <2>8. /\ t \in Seq(Steps(o.locks)) /\ t # <<>> /\ DOMAIN t = DOMAIN o.todo
          /\ t[1] = step /\ \A i \in DOMAIN o.todo : i > 1 => t[i] = o.todo[i]
        <3> DEFINE S == Steps(o.locks)
        <3>1. Rest(o) \in Seq(S) /\ Len(Rest(o)) = Len(o.todo) - 1
              /\ \A i \in 1..Len(o.todo) - 1 : Rest(o)[i] = o.todo[i + 1]
            BY <1>2, RestIs
        <3>2. step \in S  BY <2>6
        <3> HIDE DEF S, step
        <3>3. t \in Seq(S) /\ t # <<>> /\ DOMAIN t = 1..Len(Rest(o)) + 1 /\ t[1] = step
              /\ \A i \in 2..Len(Rest(o)) + 1 : t[i] = Rest(o)[i - 1]
            BY <3>1, <3>2, Before
        <3> HIDE DEF t
        <3>4. DOMAIN t = DOMAIN o.todo  BY <2>7, <3>1, <3>3
        <3>5. ASSUME NEW i \in DOMAIN o.todo, i > 1 PROVE t[i] = o.todo[i]
            BY <2>7, <3>1, <3>3, <3>5
        <3> QED BY <3>3, <3>4, <3>5 DEF S
    <2>9. n.todo = t /\ n.kind = o.kind /\ n.on = o.on /\ n.from = o.from /\ n.given = o.given
        BY <1>2 DEF Operation
    <2>10. step[1] = "anchor" /\ step[2] = b /\ step[3] = r /\ step[4] = k  OBVIOUS
    <2> HIDE DEF n, t, step
    <2>11. ASSUME NEW i \in DOMAIN n.todo
           PROVE  Anchoring(n, i)' /\ Committing(n, i)' /\ Growth(n, i)' /\ Joining(n, i)'
        <3>1. i \in Nat /\ i > 0 /\ i \in DOMAIN o.todo  BY <2>7, <2>8, <2>9
        <3>2. CASE i = 1
            <4>1. Name(n, 1) = "anchor" /\ n.todo[1][2] = b /\ n.todo[1][3] = r /\ n.todo[1][4] = k
                BY <2>8, <2>9, <2>10 DEF Name
            <4>2. Saved(b)' /\ runtime'[b].revision = r
                BY <1>1, <2>2, <2>40 DEF Saved, d
            <4>3. Anchoring(n, 1)'  BY <2>4, <4>1, <4>2 DEF Anchoring, Name
            <4> QED BY <3>2, <4>1, <4>3 DEF Committing, Growth, Joining, Name
        <3>3. CASE i > 1
            <4>1. \A j \in DOMAIN o.todo : j > 1 => Name(n, j) = Name(o, j) /\ n.todo[j] = o.todo[j]
                BY <2>8, <2>9 DEF Name
            <4>2. Name(n, 1) = "anchor" /\ n.todo[1][2] = o.todo[1][2]
                BY <1>2, <2>8, <2>9, <2>10 DEF Name
            <4>3. Anchoring(o, i) /\ Committing(o, i) /\ Growth(o, i) /\ Joining(o, i)
                BY <1>2, <3>1 DEF Course
            <4>4. i - 1 \in DOMAIN o.todo /\ (i - 1 = 1 \/ i - 1 > 1)  BY <2>7, <3>1, <3>3
            <4>5. \A c : SavedBefore(o, i, c) => SavedBefore(n, i, c)
                BY <3>3, <4>1, <4>2, <4>4, <1>2 DEF SavedBefore
            <4>6. Name(o, i - 1) \in {"ref", "recover"} => Name(n, i - 1) = Name(o, i - 1)
                BY <4>1, <4>4, <1>2
            <4>7. Anchoring(n, i)'  BY <3>1, <3>3, <4>1, <4>3 DEF Anchoring, Name
            <4>8. Committing(n, i)'
                BY <3>1, <3>3, <4>1, <4>3, <4>5 DEF Committing, Name, SavedBefore
            <4>9. Growth(n, i)'
                <5>1. ASSUME Name(n, i) = "ref"
                      PROVE  /\ tip'[o.on] = 0
                             /\ \A j \in 1..i - 1 : Name(n, j) \in {"load", "checkpoint", "anchor"}
                                                    /\ n.todo[j][2] = o.from
                             /\ SavedBefore(n, i, o.from)
                    <6>1. Name(o, i) = "ref"  BY <3>1, <3>3, <4>1, <5>1
                    <6>2. tip[o.on] = 0 /\ SavedBefore(o, i, o.from) /\ o.kind \in Growing
                          /\ \A j \in 1..i - 1 : Name(o, j) \in {"load", "checkpoint", "anchor"}
                                                 /\ o.todo[j][2] = o.from
                        BY <3>3, <4>3, <6>1 DEF Growth
                    <6>3. b = o.from  BY <1>2, <3>1, <3>3, <6>2
                    <6>4. o.on # o.from  BY <1>2, <6>2 DEF Operation
                    <6>5. ASSUME NEW j \in 1..i - 1
                          PROVE  Name(n, j) \in {"load", "checkpoint", "anchor"} /\ n.todo[j][2] = o.from
                        <7>1. j \in DOMAIN o.todo /\ (j = 1 \/ j > 1)  BY <2>7, <3>1
                        <7> QED BY <4>1, <4>2, <6>2, <7>1
                    <6> QED BY <1>2, <2>2, <4>5, <6>2, <6>3, <6>4, <6>5
                <5>2. ASSUME Name(n, i) = "recover"
                      PROVE  o.kind = "conflict" /\ Name(n, i - 1) = "ref"
                    BY <3>1, <3>3, <4>1, <4>3, <4>6, <5>2 DEF Growth
                <5>3. ASSUME Name(n, i) = "settle"
                      PROVE  Name(n, i - 1) = IF o.kind = "conflict" THEN "recover" ELSE "ref"
                    BY <3>1, <3>3, <4>1, <4>3, <4>6, <5>3 DEF Growth
                <5>4. Name(n, i) \in {"lookup", "ref", "recover", "settle"} => o.kind \in Growing
                    BY <3>1, <3>3, <4>1, <4>3 DEF Growth
                <5> QED BY <2>9, <3>3, <5>1, <5>2, <5>3, <5>4 DEF Growth, Name, SavedBefore
            <4>10. Joining(n, i)'
                <5>1. Name(n, i) = Name(o, i)  BY <3>1, <3>3, <4>1
                <5>2. Name(n, i) \in {"merge", "apply"} => o.kind = "merge"  BY <4>3, <5>1 DEF Joining
                <5>3. Name(n, i) # "apply"  BY <3>3, <4>3, <5>1 DEF Joining
                <5>4. ASSUME Name(n, i) = "merge"
                      PROVE  /\ (\E j \in 1..i - 1 : Name(n, j) = "query")
                                \/ (tip'[o.on] # 0 /\ tip'[o.from] # 0)
                             /\ SavedBefore(n, i, o.on)
                    <6>1. ((\E j \in 1..i - 1 : Name(o, j) = "query") \/ (tip[o.on] # 0 /\ tip[o.from] # 0))
                          /\ SavedBefore(o, i, o.on)
                        BY <3>3, <4>3, <5>1, <5>4 DEF Joining
                    <6>2. CASE tip[o.on] # 0 /\ tip[o.from] # 0
                        BY <1>2, <2>2, <4>5, <6>1, <6>2 DEF Kept
                    <6>3. CASE \E j \in 1..i - 1 : Name(o, j) = "query"
                        <7>1. PICK j \in 1..i - 1 : Name(o, j) = "query"  BY <6>3
                        <7>2. j \in DOMAIN o.todo /\ j > 1  BY <1>2, <2>7, <3>1, <7>1
                        <7> QED BY <4>1, <4>5, <6>1, <7>1, <7>2
                    <6> QED BY <6>1, <6>2, <6>3
                <5> QED BY <2>9, <3>3, <5>2, <5>3, <5>4 DEF Joining, Name, SavedBefore
            <4> QED BY <4>7, <4>8, <4>9, <4>10
        <3> QED BY <3>1, <3>2, <3>3
    <2>12. Course(n)'  BY <2>11 DEF Course
    <2>13. Operations' /\ Apart' /\ Courses'  BY <2>2, <2>5, <2>8, <2>12, GoesOn DEF n
    <2> QED BY <2>2, <2>3, <2>13 DEF IInv
<1> QED BY <1>6, <1>7

LEMMA RefStep == ASSUME IInv, NEW o \in running, Ref(o) PROVE IInv'
<1> DEFINE k == StartPoint(o)
<1>1. At(o, "ref") /\ UNCHANGED <<initialized, commits, runtime, scheduled, expected>>  BY DEF Ref
<1>2. Name(o, 1) = "ref" /\ o.on \in Branches /\ o.from \in Branches /\ o.on \in o.locks
      /\ tip[o.on] = 0 /\ tip[o.from] # 0
    BY <1>1, AtIs DEF Growth
<1>3. scheduled' \subseteq Branches  BY <1>1 DEF IInv, Shape
<1>4. CASE k \in Past(tip[o.from])
    <2>1. tip' = [tip EXCEPT ![o.on] = k] /\ degraded' = FALSE /\ Follow(o, Rest(o))
        BY <1>4 DEF Ref
    <2> HIDE DEF k
    <2>2. k \in DOMAIN commits  BY <1>2, <1>4, Tips
    <2>3. Len(commits) \in Nat /\ DOMAIN commits = 1..Len(commits)  BY DEF IInv, Commits
    <2>4. tip \in [Branches -> 0..Len(commits)]  BY DEF IInv, Shape
    <2>5. tip' \in [Branches -> 0..Len(commits')] /\ tip'[o.on] = k
          /\ \A c \in Branches \ {o.on} : tip'[c] = tip[c]
        BY <1>1, <1>2, <2>1, <2>2, <2>3, <2>4
    <2>6. k # 0  BY <2>2, <2>3
    <2>7. Kept(o.locks)  BY <1>1, <1>2, <2>5, <2>6 DEF Kept
    <2>8. Shape'  BY <1>1, <1>3, <2>1, <2>5 DEF IInv, Shape
    <2>9. Commits'
        <3>1. Main \in Branches  BY VersioningAssumption
        <3>2. commits # <<>> => tip'[Main] # 0  BY <2>5, <2>6, <3>1 DEF IInv, Commits
        <3> QED BY <1>1, <3>2 DEF IInv, Commits
    <2>10. AnchorInHistory'
        BY <1>1, <1>2, <2>5 DEF IInv, AnchorInHistory
    <2>11. Operations' /\ Apart' /\ Courses'  BY <1>2, <2>1, <2>5, <2>6, <2>7, GoesRest
    <2> QED BY <2>8, <2>9, <2>10, <2>11 DEF IInv
<1>5. CASE k \notin Past(tip[o.from])
    <2>1. End(o) /\ UNCHANGED <<tip, degraded>>  BY <1>5 DEF Ref
    <2>2. degraded' \in BOOLEAN  BY <2>1 DEF IInv, Shape
    <2> QED BY <1>1, <1>3, <2>1, <2>2, EndsOnly DEF git
<1> QED BY <1>4, <1>5

LEMMA RecoverStep == ASSUME IInv, NEW o \in running, Recover(o) PROVE IInv'
<1>1. At(o, "recover") /\ UNCHANGED <<runtime, scheduled, expected>> /\ degraded' = FALSE
    BY DEF Recover
<1>2. Name(o, 1) = "recover" /\ o.on \in Branches /\ o.on \in o.locks /\ tip[o.on] # 0
      /\ o.kind = "conflict" /\ Operation(o)
    BY <1>1, AtIs DEF Growth
<1>3. scheduled' \subseteq Branches /\ degraded' \in BOOLEAN  BY <1>1 DEF IInv, Shape
<1>4. CASE End(o) /\ UNCHANGED git  BY <1>1, <1>3, <1>4, EndsOnly
<1>5. CASE GitCheckpoint(o.on, o.given) /\ Follow(o, Rest(o))
    <2>1. o.given \in Documents /\ GitKnows(o.on)  BY <1>2 DEF Operation, GitKnows
    <2>2. /\ Commits' /\ AnchorInHistory' /\ initialized' = TRUE
          /\ tip' \in [Branches -> 0..Len(commits')]
          /\ runtime' \in [Branches -> [revision : Nat, document : Documents,
                                        anchor : 0..Len(commits')]]
          /\ Kept(o.locks) /\ tip'[o.on] # 0 /\ TipDocument(o.on)' = o.given
        BY <1>1, <1>2, <1>5, <2>1, GitCheckpoints
    <2>3. Shape'  BY <1>1, <1>3, <2>2 DEF IInv, Shape
    <2>4. Operations' /\ Apart' /\ Courses'  BY <1>2, <1>5, <2>2, GoesRest
    <2> QED BY <2>2, <2>3, <2>4 DEF IInv
<1> QED BY <1>4, <1>5 DEF Recover

LEMMA InitializeOnlyStep == ASSUME IInv, NEW o \in running, InitializeOnly(o) PROVE IInv'
<1>1. UNCHANGED <<commits, tip, runtime, scheduled, expected>> /\ End(o) /\ initialized' = TRUE
      /\ degraded' \in {degraded, TRUE}
    BY DEF InitializeOnly
<1>2. Commits' /\ AnchorInHistory' /\ Kept(o.locks)  BY <1>1, SameStores
<1>3. Shape'  BY <1>1 DEF IInv, Shape
<1> QED BY <1>1, <1>2, <1>3, Ends DEF IInv

\* What a merge that goes through finds.
LEMMA Joins ==
    ASSUME IInv, NEW o \in running, At(o, "merge")
    PROVE  /\ o.kind = "merge" /\ o.on \in Branches /\ o.from \in Branches /\ o.on \in o.locks
           /\ tip[o.on] # 0 /\ tip[o.from] # 0 /\ Saved(o.on)
           /\ Operation(o)
<1>1. ~\E j \in 1..1 - 1 : Name(o, j) = "query"  OBVIOUS
<1> QED BY <1>1, AtIs DEF Joining

LEMMA MergeStep == ASSUME IInv, NEW o \in running, Merge(o) PROVE IInv'
<1> DEFINE s == tip[o.from]
           t == tip[o.on]
           d == MergeOf(s, t)
<1>1. At(o, "merge") /\ UNCHANGED <<runtime, scheduled, expected>> /\ degraded' = FALSE
    BY DEF Merge
<1>2. o.kind = "merge" /\ o.on \in Branches /\ o.from \in Branches /\ o.on \in o.locks
      /\ t # 0 /\ s # 0 /\ Saved(o.on) /\ Operation(o)
    BY <1>1, Joins
<1>3. scheduled' \subseteq Branches /\ degraded' \in BOOLEAN  BY <1>1 DEF IInv, Shape
<1>4. CASE End(o) /\ UNCHANGED git  BY <1>1, <1>3, <1>4, EndsOnly
<1>5. CASE /\ d # Conflicting
           /\ CommitOnto(o.on, d, <<t, s>>)
           /\ Follow(o, << <<"apply", runtime[o.on].revision, tip'[o.on]>> >>)
           /\ UNCHANGED initialized
    <2>1. d \in Documents  BY <1>2, <1>5, Merges
    <2>2. s \in DOMAIN commits /\ t \in DOMAIN commits /\ s \in Nat /\ t \in Nat  BY <1>2, Tips
    <2> DEFINE parents == <<t, s>>
    <2>3. parents \in Seq(Nat) /\ ToSet(parents) = {t, s}  BY <2>2, ParentsOf
    <2> HIDE DEF d, parents
    <2>4. /\ Commits' /\ AnchorInHistory'
          /\ tip' \in [Branches -> 0..Len(commits')]
          /\ runtime' \in [Branches -> [revision : Nat, document : Documents,
                                        anchor : 0..Len(commits')]]
          /\ Kept(o.locks)
          /\ tip'[o.on] # 0 /\ tip'[o.on] \in Nat
          /\ History(o.on) \subseteq History(o.on)'
        <3>1. CommitOnto(o.on, d, parents)  BY <1>5 DEF parents
        <3> QED BY <1>1, <1>2, <2>1, <2>2, <2>3, <3>1, Extends
    <2>5. Shape'  BY <1>1, <1>3, <1>5, <2>4 DEF IInv, Shape
    <2>6. PICK k \in Nat : k = tip'[o.on]  BY <2>4
    <2>7. PICK r \in Nat : r = runtime[o.on].revision
        <3>1. runtime[o.on] \in Envelopes  BY <1>2, FitsNow DEF Fits
        <3> QED BY <3>1 DEF Envelopes
    <2> DEFINE step == <<"apply", r, k>>
               n == [o EXCEPT !.todo = <<step>>]
    <2>8. Follow(o, <<step>>)  BY <1>5, <2>6, <2>7
    <2>9. step \in Steps(o.locks) /\ step[1] = "apply" /\ step[3] = k  BY <2>6, <2>7 DEF Steps
    <2> HIDE DEF step
    <2>10. <<step>> \in Seq(Steps(o.locks)) /\ <<step>> # <<>> /\ DOMAIN <<step>> = {1}
        <3> DEFINE S == Steps(o.locks)
        <3>1. step \in S  BY <2>9
        <3> HIDE DEF S
        <3>2. <<step>> \in Seq(S) /\ <<step>> # <<>> /\ DOMAIN <<step>> = {1}  BY <3>1
        <3> QED BY <3>2 DEF S
    <2>11. n.todo = <<step>> /\ n.kind = o.kind /\ n.on = o.on
        BY <1>2 DEF Operation
    <2> HIDE DEF n
    <2>12. runtime'[o.on].document \in History(o.on)'
        BY <1>1, <1>2, <2>4, Tips DEF Saved
    <2>13. Course(n)'
        <3>1. DOMAIN n.todo = {1} /\ n.todo[1][1] = "apply" /\ n.todo[1][3] = k
            BY <2>9, <2>10, <2>11
        <3> QED BY <1>2, <2>4, <2>6, <2>11, <2>12, <3>1
             DEF Course, Anchoring, Committing, Growth, Joining, Name
    <2>14. Operations' /\ Apart' /\ Courses'  BY <2>4, <2>8, <2>10, <2>13, GoesOn DEF n
    <2> QED BY <2>4, <2>5, <2>14 DEF IInv
<1> QED BY <1>4, <1>5 DEF Merge
-----------------------------------------------------------------------------
(* Requests *)

LEMMA Starts ==
    ASSUME IInv, NEW kind \in Kinds, NEW on \in Branches, NEW from \in Branches, NEW given,
           NEW todo \in Seq(Steps({on, from})), todo # <<>>,
           kind \in Growing => on # from,
           kind = "conflict" => given \in Documents,
           \A n : n.kind = kind /\ n.on = on /\ n.from = from /\ n.todo = todo => Course(n),
           Start(kind, on, from, given, todo),
           UNCHANGED <<git, runtime, degraded, expected>>, scheduled' \subseteq Branches
    PROVE  IInv'
<1> DEFINE n == [kind |-> kind, locks |-> {on, from}, on |-> on, from |-> from,
                 given |-> given, todo |-> todo]
<1>1. UNCHANGED <<initialized, commits, tip>> /\ degraded' \in BOOLEAN  BY DEF git, IInv, Shape
<1>2. Unlocked(n.locks) /\ running' = running \cup {n}  BY DEF Start
<1>3. Operation(n)  BY DEF Operation
<1>4. Course(n)  OBVIOUS
<1> HIDE DEF n
<1>5. Operations' /\ Apart' /\ Courses'  BY <1>1, <1>2, <1>3, <1>4, Begins
<1>6. Commits' /\ AnchorInHistory' /\ Shape'  BY <1>1, SameStores, Shaped
<1> QED BY <1>5, <1>6 DEF IInv

\* Most operations begin with steps that need nothing.
LEMMA Harmless ==
    ASSUME NEW n,
           \A i \in DOMAIN n.todo :
             /\ Name(n, i) \in {"load", "admit", "commitLatest", "checkpoint", "reconcile",
                                "lookup", "query", "cancel", "preview", "assert"}
             /\ Name(n, i) = "lookup" => n.kind \in Growing
    PROVE  Course(n)
BY DEF Course, Anchoring, Committing, Growth, Joining

LEMMA SingleIs ==
    ASSUME NEW S, NEW x \in S
    PROVE  <<x>> \in Seq(S) /\ <<x>> # <<>> /\ DOMAIN <<x>> = {1} /\ <<x>>[1] = x
OBVIOUS

LEMMA PairIs ==
    ASSUME NEW S, NEW x \in S, NEW y \in S
    PROVE  /\ <<x, y>> \in Seq(S) /\ <<x, y>> # <<>> /\ DOMAIN <<x, y>> = {1, 2}
           /\ <<x, y>>[1] = x /\ <<x, y>>[2] = y
OBVIOUS

LEMMA GetCanvasStep == ASSUME IInv, NEW b \in Branches, GetCanvas(b) PROVE IInv'
<1> DEFINE x == <<"load", b>>
<1>1. Start("get", b, b, Nothing, <<x>>) /\ UNCHANGED <<git, runtime, degraded, scheduled, expected>>
    BY DEF GetCanvas
<1>2. x \in Steps({b, b}) /\ x[1] = "load"  BY DEF Steps
<1>3. scheduled' \subseteq Branches  BY <1>1 DEF IInv, Shape
<1> HIDE DEF x
<1>4. <<x>> \in Seq(Steps({b, b})) /\ <<x>> # <<>> /\ DOMAIN <<x>> = {1} /\ <<x>>[1] = x
    BY <1>2, SingleIs
<1>5. ASSUME NEW n, n.todo = <<x>> PROVE Course(n)  BY <1>2, <1>4, <1>5, Harmless DEF Name
<1> QED BY <1>1, <1>3, <1>4, <1>5, Starts DEF Kinds, Growing

LEMMA TimerCheckpointStep == ASSUME IInv, NEW b \in Branches, TimerCheckpoint(b) PROVE IInv'
<1> DEFINE x == <<"checkpoint", b>>
<1>1. Start("timer", b, b, Nothing, <<x>>) /\ UNCHANGED <<git, runtime, degraded, expected>>
      /\ scheduled' = scheduled \ {b}
    BY DEF TimerCheckpoint
<1>2. x \in Steps({b, b}) /\ x[1] = "checkpoint"  BY DEF Steps
<1>3. scheduled' \subseteq Branches  BY <1>1 DEF IInv, Shape
<1> HIDE DEF x
<1>4. <<x>> \in Seq(Steps({b, b})) /\ <<x>> # <<>> /\ DOMAIN <<x>> = {1} /\ <<x>>[1] = x
    BY <1>2, SingleIs
<1>5. ASSUME NEW n, n.todo = <<x>> PROVE Course(n)  BY <1>2, <1>4, <1>5, Harmless DEF Name
<1> QED BY <1>1, <1>3, <1>4, <1>5, Starts DEF Kinds, Growing

\* The operations of two steps on one branch.
LEMMA StartsTwo ==
    ASSUME IInv, NEW kind \in {"commit", "commitLatest", "manual"}, NEW b \in Branches,
           NEW x \in Steps({b, b}), NEW y \in Steps({b, b}),
           x[1] = "load", y[1] \in {"admit", "commitLatest", "checkpoint"},
           Start(kind, b, b, Nothing, <<x, y>>),
           UNCHANGED <<git, runtime, degraded, expected>>, scheduled' \subseteq Branches
    PROVE  IInv'
<1>1. <<x, y>> \in Seq(Steps({b, b})) /\ <<x, y>> # <<>> /\ DOMAIN <<x, y>> = {1, 2}
      /\ <<x, y>>[1] = x /\ <<x, y>>[2] = y
    BY PairIs
<1>2. ASSUME NEW n, n.todo = <<x, y>> PROVE Course(n)  BY <1>1, <1>2, Harmless DEF Name
<1>3. kind \in Kinds /\ kind \notin Growing /\ kind # "conflict"  BY DEF Kinds, Growing
<1> QED BY <1>1, <1>2, <1>3, Starts

LEMMA CommitCanvasStep ==
    ASSUME IInv, NEW b \in Branches, NEW c \in Commands, NEW base \in 0..runtime[b].revision,
           CommitCanvas(b, base, c)
    PROVE  IInv'
<1>1. runtime[b] \in Envelopes  BY FitsNow DEF Fits
<1>2. base \in Nat
    <2>1. runtime[b].revision \in Nat  BY <1>1 DEF Envelopes
    <2> QED BY <2>1
<1> DEFINE x == <<"load", b>>
           y == <<"admit", b, base, c>>
<1>3. Start("commit", b, b, Nothing, <<x, y>>)
      /\ UNCHANGED <<git, runtime, degraded, scheduled, expected>>
    BY DEF CommitCanvas
<1>4. x \in Steps({b, b}) /\ y \in Steps({b, b}) /\ x[1] = "load" /\ y[1] = "admit"
    BY <1>2 DEF Steps
<1>5. scheduled' \subseteq Branches  BY <1>3 DEF IInv, Shape
<1> HIDE DEF x, y
<1> QED BY <1>3, <1>4, <1>5, StartsTwo

LEMMA CommitLatestCanvasStep ==
    ASSUME IInv, NEW b \in Branches, NEW c \in Commands, CommitLatestCanvas(b, c)
    PROVE  IInv'
<1> DEFINE x == <<"load", b>>
           y == <<"commitLatest", b, c>>
<1>1. Start("commitLatest", b, b, Nothing, <<x, y>>)
      /\ UNCHANGED <<git, runtime, degraded, scheduled, expected>>
    BY DEF CommitLatestCanvas
<1>2. x \in Steps({b, b}) /\ y \in Steps({b, b}) /\ x[1] = "load" /\ y[1] = "commitLatest"
    BY DEF Steps
<1>3. scheduled' \subseteq Branches  BY <1>1 DEF IInv, Shape
<1> HIDE DEF x, y
<1> QED BY <1>1, <1>2, <1>3, StartsTwo

LEMMA ManualCheckpointStep == ASSUME IInv, NEW b \in Branches, ManualCheckpoint(b) PROVE IInv'
<1> DEFINE x == <<"load", b>>
           y == <<"checkpoint", b>>
<1>1. Start("manual", b, b, Nothing, <<x, y>>) /\ CancelScheduled({b})
      /\ UNCHANGED <<git, runtime, degraded, expected>>
    BY DEF ManualCheckpoint
<1>2. x \in Steps({b, b}) /\ y \in Steps({b, b}) /\ x[1] = "load" /\ y[1] = "checkpoint"
    BY DEF Steps
<1>3. scheduled' \subseteq Branches  BY <1>1, CancelsSome
<1> HIDE DEF x, y
<1> QED BY <1>1, <1>2, <1>3, StartsTwo

LEMMA GrowStep ==
    ASSUME IInv, NEW kind \in Growing, NEW new \in Branches, NEW from \in Branches, NEW given,
           kind = "conflict" => given \in Documents, Grow(kind, new, from, given)
    PROVE  IInv'
<1> DEFINE x == <<"reconcile", new>>
           y == <<"lookup">>
           S == Steps({new, from})
<1>1. Start(kind, new, from, given, <<x, y>>) /\ CancelScheduled({new}) /\ new # from
      /\ UNCHANGED <<git, runtime, degraded, expected>>
    BY DEF Grow
<1>2. x \in S /\ y \in S /\ x[1] = "reconcile" /\ y[1] = "lookup"
    BY DEF Steps
<1>3. scheduled' \subseteq Branches /\ kind \in Kinds  BY <1>1, CancelsSome DEF Growing, Kinds
<1> HIDE DEF x, y, S
<1>4. <<x, y>> \in Seq(S) /\ <<x, y>> # <<>> /\ DOMAIN <<x, y>> = {1, 2}
      /\ <<x, y>>[1] = x /\ <<x, y>>[2] = y
    BY <1>2, PairIs
<1>5. ASSUME NEW n, n.kind = kind, n.todo = <<x, y>> PROVE Course(n)
    BY <1>2, <1>4, <1>5, Harmless DEF Name
<1> QED BY <1>1, <1>3, <1>4, <1>5, Starts DEF S

LEMMA PrepareMergeIs ==
    ASSUME NEW s, NEW t
    PROVE  LET p == PrepareMerge(s, t) IN
           /\ p \in Seq(Steps({t, s})) /\ Len(p) = 6
           /\ p[1][1] = "query" /\ p[2][1] = "reconcile" /\ p[3][1] = "reconcile"
           /\ p[4][1] = "cancel" /\ p[5][1] = "checkpoint"
           /\ p[6][1] = "checkpoint" /\ p[6][2] = t
<1> DEFINE a == <<"query">>
           b == <<"reconcile", s>>
           c == <<"reconcile", t>>
           d == <<"cancel">>
           e == <<"checkpoint", s>>
           f == <<"checkpoint", t>>
           S == Steps({t, s})
<1>1. a \in S /\ b \in S /\ c \in S /\ d \in S /\ e \in S /\ f \in S  BY DEF Steps
<1>2. a[1] = "query" /\ b[1] = "reconcile" /\ c[1] = "reconcile" /\ d[1] = "cancel"
      /\ e[1] = "checkpoint" /\ f[1] = "checkpoint" /\ f[2] = t
    OBVIOUS
<1>3. PrepareMerge(s, t) = <<a, b, c, d, e, f>>  BY DEF PrepareMerge
<1> HIDE DEF a, b, c, d, e, f, S
<1>4. <<a, b, c, d, e, f>> \in Seq(S) /\ Len(<<a, b, c, d, e, f>>) = 6  BY <1>1
<1> QED BY <1>2, <1>3, <1>4 DEF S

LEMMA PreviewMergeStep ==
    ASSUME IInv, NEW s \in Branches, NEW t \in Branches, PreviewMerge(s, t)
    PROVE  IInv'
<1> DEFINE p == PrepareMerge(s, t)
           y == <<"preview">>
           S == Steps({t, s})
           todo == Append(p, y)
<1>1. Start("preview", t, s, Nothing, todo)
      /\ UNCHANGED <<git, runtime, degraded, scheduled, expected>>
    BY DEF PreviewMerge
<1>2. scheduled' \subseteq Branches  BY <1>1 DEF IInv, Shape
<1>3. y \in S /\ y[1] = "preview"  BY DEF Steps
<1>4. p \in Seq(S) /\ Len(p) = 6
      /\ p[1][1] = "query" /\ p[2][1] = "reconcile" /\ p[3][1] = "reconcile"
      /\ p[4][1] = "cancel" /\ p[5][1] = "checkpoint" /\ p[6][1] = "checkpoint"
    BY PrepareMergeIs
<1> HIDE DEF p, y, S
<1>5. todo \in Seq(S) /\ todo # <<>> /\ DOMAIN todo = 1..7 /\ todo[7] = y
      /\ \A i \in 1..6 : todo[i] = p[i]
    <2>0. p \in Seq(S) /\ y \in S  BY <1>3, <1>4
    <2>1. /\ todo \in Seq(S) /\ todo # <<>> /\ DOMAIN todo = 1..Len(p) + 1
          /\ todo[Len(p) + 1] = y /\ \A i \in 1..Len(p) : todo[i] = p[i]
        BY <2>0, After
    <2> HIDE DEF todo
    <2> QED BY <1>4, <2>1
<1> HIDE DEF todo
<1>6. ASSUME NEW n, n.todo = todo PROVE Course(n)
    <2>1. \A i \in 1..7 : i = 1 \/ i = 2 \/ i = 3 \/ i = 4 \/ i = 5 \/ i = 6 \/ i = 7  OBVIOUS
    <2>2. \A i \in DOMAIN n.todo :
            Name(n, i) \in {"query", "reconcile", "cancel", "checkpoint", "preview"}
        BY <1>3, <1>4, <1>5, <1>6, <2>1 DEF Name
    <2> QED BY <2>2, Harmless
<1> QED BY <1>1, <1>2, <1>5, <1>6, Starts DEF Kinds, Growing, S

LEMMA ExecuteMergeStep == ASSUME IInv, ExecuteMerge PROVE IInv'
<1>1. PICK e : e = expected  OBVIOUS
<1>2. e.source \in Branches /\ e.target \in Branches  BY <1>1 DEF ExecuteMerge, IInv, Shape
<1>20. PICK s \in Branches, t \in Branches : s = e.source /\ t = e.target  BY <1>2
<1> DEFINE p == PrepareMerge(s, t)
           x == <<"assert">>
           y == <<"merge">>
           S == Steps({t, s})
           todo == <<x>> \o p \o <<y>>
<1>3. Start("merge", t, s, e, todo)
      /\ UNCHANGED <<git, runtime, degraded, scheduled, expected>>
    BY <1>1, <1>20 DEF ExecuteMerge
<1>4. scheduled' \subseteq Branches  BY <1>3 DEF IInv, Shape
<1>5. x \in S /\ x[1] = "assert" /\ y \in S /\ y[1] = "merge"  BY DEF Steps
<1>6. p \in Seq(S) /\ Len(p) = 6
      /\ p[1][1] = "query" /\ p[2][1] = "reconcile" /\ p[3][1] = "reconcile"
      /\ p[4][1] = "cancel" /\ p[5][1] = "checkpoint" /\ p[6][1] = "checkpoint" /\ p[6][2] = t
    BY PrepareMergeIs
<1> HIDE DEF p, x, y, S
<1> DEFINE q == <<x>> \o p
<1>7. q \in Seq(S) /\ Len(q) = 7 /\ q[1] = x /\ \A i \in 2..7 : q[i] = p[i - 1]
    <2>0. p \in Seq(S) /\ x \in S  BY <1>5, <1>6
    <2>1. /\ q \in Seq(S) /\ Len(q) = Len(p) + 1 /\ q[1] = x
          /\ \A i \in 2..Len(p) + 1 : q[i] = p[i - 1]
        BY <2>0, Before
    <2> HIDE DEF q
    <2> QED BY <1>6, <2>1
<1> HIDE DEF q
<1>8. q \o <<y>> \in Seq(S) /\ q \o <<y>> # <<>> /\ DOMAIN (q \o <<y>>) = 1..8
      /\ (q \o <<y>>)[8] = y /\ \A i \in 1..7 : (q \o <<y>>)[i] = q[i]
    <2>0. q \in Seq(S) /\ y \in S  BY <1>5, <1>7
    <2>1. /\ q \o <<y>> \in Seq(S) /\ q \o <<y>> # <<>>
          /\ DOMAIN (q \o <<y>>) = 1..Len(q) + 1
          /\ (q \o <<y>>)[Len(q) + 1] = y
          /\ \A i \in 1..Len(q) : (q \o <<y>>)[i] = q[i]
        BY <2>0, After
    <2> DEFINE w == q \o <<y>>
    <2> HIDE DEF w
    <2> QED BY <1>7, <2>1 DEF w
<1>9. todo = q \o <<y>>  BY DEF q
<1> HIDE DEF todo
<1>10. todo \in Seq(S) /\ todo # <<>> /\ DOMAIN todo = 1..8 /\ todo[1] = x /\ todo[8] = y
       /\ \A i \in 2..7 : todo[i] = p[i - 1]
    BY <1>7, <1>8, <1>9
<1>11. ASSUME NEW n, n.kind = "merge", n.on = t, n.todo = todo PROVE Course(n)
    <2>1. Name(n, 1) = "assert" /\ Name(n, 2) = "query" /\ Name(n, 3) = "reconcile"
          /\ Name(n, 4) = "reconcile" /\ Name(n, 5) = "cancel" /\ Name(n, 6) = "checkpoint"
          /\ Name(n, 7) = "checkpoint" /\ Name(n, 8) = "merge" /\ n.todo[7][2] = t
        BY <1>5, <1>6, <1>10, <1>11 DEF Name
    <2>2. Joining(n, 8)
        <3>1. SavedBefore(n, 8, n.on)  BY <1>11, <2>1 DEF SavedBefore
        <3>2. \E j \in 1..8 - 1 : Name(n, j) = "query"  BY <2>1
        <3> QED BY <1>11, <2>1, <3>1, <3>2 DEF Joining
    <2>3. ASSUME NEW i \in 1..8
          PROVE  Anchoring(n, i) /\ Committing(n, i) /\ Growth(n, i) /\ Joining(n, i)
        <3>1. i = 1 \/ i = 2 \/ i = 3 \/ i = 4 \/ i = 5 \/ i = 6 \/ i = 7 \/ i = 8  OBVIOUS
        <3>2. Name(n, i) \in {"assert", "query", "reconcile", "cancel", "checkpoint", "merge"}
              /\ (i # 8 => Name(n, i) # "merge")
            BY <2>1, <3>1
        <3> QED BY <2>2, <3>2 DEF Anchoring, Committing, Growth, Joining
    <2> QED BY <1>10, <1>11, <2>3 DEF Course
<1> QED BY <1>2, <1>3, <1>4, <1>10, <1>11, Starts DEF Kinds, Growing, S
-----------------------------------------------------------------------------
(* The invariant *)

LEMMA RequestsStep == ASSUME IInv, Requests PROVE IInv'
<1>1. CASE \E b \in Branches : GetCanvas(b) \/ ManualCheckpoint(b)
    BY <1>1, GetCanvasStep, ManualCheckpointStep
<1>2. CASE \E b \in Branches, c \in Commands :
             \/ \E base \in 0..runtime[b].revision : CommitCanvas(b, base, c)
             \/ c \notin Destructive /\ CommitLatestCanvas(b, c)
    BY <1>2, CommitCanvasStep, CommitLatestCanvasStep
<1>3. CASE \E new \in Branches \ {Main}, from \in Branches :
             \/ Grow("create", new, from, Nothing)
             \/ \E k \in DOMAIN commits : Grow("restore", new, from, k)
             \/ \E d \in Documents : Grow("conflict", new, from, d)
    <2>1. PICK new \in Branches, from \in Branches :
            \/ Grow("create", new, from, Nothing)
            \/ \E k \in DOMAIN commits : Grow("restore", new, from, k)
            \/ \E d \in Documents : Grow("conflict", new, from, d)
        BY <1>3
    <2>2. "create" \in Growing /\ "restore" \in Growing /\ "conflict" \in Growing  BY DEF Growing
    <2> QED BY <2>1, <2>2, GrowStep
<1>4. CASE \E source, target \in Branches : PreviewMerge(source, target)
    BY <1>4, PreviewMergeStep
<1>5. CASE ExecuteMerge  BY <1>5, ExecuteMergeStep
<1> QED BY <1>1, <1>2, <1>3, <1>4, <1>5 DEF Requests

LEMMA BrowseStep == ASSUME IInv, Browse PROVE IInv'
<1>1. UNCHANGED <<git, runtime, scheduled, running, expected>> /\ degraded' \in BOOLEAN
    BY DEF Browse
<1>2. UNCHANGED <<initialized, commits, tip>>  BY <1>1 DEF git
<1>3. Commits' /\ AnchorInHistory' /\ Shape'
      /\ \A c : TipDocument(c)' = TipDocument(c) /\ History(c)' = History(c)
    BY <1>1, <1>2, SameStores DEF IInv, Shape
<1>4. Operations' /\ Apart'  BY <1>1 DEF IInv, Operations, Apart
<1>5. Courses'
    BY <1>1, <1>2, <1>3
    DEF IInv, Courses, Course, Anchoring, Committing, Growth, Joining, Saved, SavedBefore, Name
<1> QED BY <1>3, <1>4, <1>5 DEF IInv

\* A crash forgets all operations; what they left behind is consistent.
LEMMA CrashStep == ASSUME IInv, Crash PROVE IInv'
<1>1. UNCHANGED <<git, runtime, expected>> /\ running' = {} /\ scheduled' = {} /\ degraded' = FALSE
    BY DEF Crash
<1>2. UNCHANGED <<initialized, commits, tip>>  BY <1>1 DEF git
<1>3. Commits' /\ AnchorInHistory' /\ Shape'  BY <1>1, <1>2, SameStores DEF IInv, Shape
<1>4. Operations' /\ Apart' /\ Courses'  BY <1>1 DEF Operations, Apart, Courses
<1> QED BY <1>3, <1>4 DEF IInv

LEMMA StepStep == ASSUME IInv, NEW o \in running, Step(o) PROVE IInv'
BY LoadStep, AdmitStep, CommitStep, CommitLatestStep, CheckpointStep, AnchorStep, ReconcileStep,
   LookUpStep, RefStep, RecoverStep, SettleStep, SettleRefusedStep, QueryStep, CancelStep,
   PreviewStep, AssertStep, MergeStep, ApplyMergeStep
DEF Step

LEMMA InvInit == ASSUME Init PROVE IInv
<1>1. commits = <<>> /\ running = {} /\ scheduled = {} /\ initialized = FALSE /\ degraded = FALSE
      /\ expected = Nothing
    BY DEF Init
<1>2. Len(commits) = 0 /\ DOMAIN commits = {}
      /\ commits \in Seq([document : Documents, parents : Seq(Nat), past : SUBSET Nat])
    BY <1>1
<1>3. Commits  BY <1>1, <1>2 DEF Commits
<1>4. tip \in [Branches -> 0..Len(commits)]  BY <1>2 DEF Init
<1>5. NoRuntime \in [revision : Nat, document : Documents, anchor : 0..Len(commits)]
    BY <1>2, ReducerAssumption DEF NoRuntime
<1>6. runtime \in [Branches -> [revision : Nat, document : Documents, anchor : 0..Len(commits)]]
    BY <1>5 DEF Init
<1>7. Shape  BY <1>1, <1>4, <1>6 DEF Shape
<1>8. AnchorInHistory  BY DEF Init, AnchorInHistory, NoRuntime
<1>9. Operations /\ Apart /\ Courses  BY <1>1 DEF Operations, Apart, Courses
<1> QED BY <1>3, <1>7, <1>8, <1>9 DEF IInv

LEMMA InvNext == ASSUME IInv, [Next]_vars PROVE IInv'
<1>1. CASE UNCHANGED vars
    <2>1. UNCHANGED <<initialized, commits, tip, runtime, degraded, scheduled, running, expected>>
        BY <1>1 DEF vars
    <2>2. Commits' /\ AnchorInHistory' /\ Shape'
          /\ \A c : TipDocument(c)' = TipDocument(c) /\ History(c)' = History(c)
        BY <2>1, SameStores DEF IInv, Shape
    <2>3. Operations' /\ Apart'  BY <2>1 DEF IInv, Operations, Apart
    <2>4. Courses'
        BY <2>1, <2>2
        DEF IInv, Courses, Course, Anchoring, Committing, Growth, Joining, Saved, SavedBefore, Name
    <2> QED BY <2>2, <2>3, <2>4 DEF IInv
<1>2. CASE Requests  BY <1>2, RequestsStep
<1>3. CASE \E b \in Branches : TimerCheckpoint(b)  BY <1>3, TimerCheckpointStep
<1>4. CASE \E o \in running : Step(o) \/ Fail(o) \/ InitializeOnly(o)
    BY <1>4, StepStep, FailStep, InitializeOnlyStep
<1>5. CASE Browse  BY <1>5, BrowseStep
<1>6. CASE Crash  BY <1>6, CrashStep
<1> QED BY <1>1, <1>2, <1>3, <1>4, <1>5, <1>6 DEF Next

LEMMA Invariance == Spec => []IInv
<1>1. Init => IInv  BY InvInit
<1>2. IInv /\ [Next]_vars => IInv'  BY InvNext
<1> QED BY <1>1, <1>2, PTL DEF Spec
-----------------------------------------------------------------------------
(* Theorems *)

\* Every variable has its type in every reachable state: commits know parents
\* and ancestors that came before them, and no branch has two operations,
\* whatever the locks of src/daemon/workspaceVersioning.ts have to serialize.
THEOREM TypeCorrect == Spec => []TypeOK
<1>1. IInv => TypeOK
    <2> SUFFICES ASSUME IInv PROVE TypeOK  OBVIOUS
    <2>1. ASSUME NEW k \in DOMAIN commits PROVE commits[k].document \in Documents
        BY CommitIs
    <2>2. ASSUME NEW o \in running
          PROVE  o.locks = {o.on, o.from} /\ o.locks \subseteq Branches /\ o.todo # <<>>
        BY DEF IInv, Operations, Operation
    <2> QED BY <2>1, <2>2 DEF IInv, Shape, Commits, Apart, TypeOK
<1> QED BY <1>1, Invariance, PTL

\* lastCheckpoint names a commit of its own branch's history at every moment,
\* with a crash or a failed command between the commit and the envelope.
THEOREM AnchorsAreHistory == Spec => []AnchorInHistory
<1>1. IInv => AnchorInHistory  BY DEF IInv
<1> QED BY <1>1, Invariance, PTL

\* What reconciling replaces is the document of the anchor.
LEMMA TakenOver ==
    ASSUME IInv, NEW b \in Branches, Reconciles(b),
           Reconciled(b).document # runtime[b].document
    PROVE  runtime[b].document \in History(b)
<1>1. PendingMerge(b)  BY DEF Reconciled
<1>2. runtime[b].document = commits[runtime[b].anchor].document  BY <1>1 DEF Reconciles
<1>3. tip[b] # 0 /\ runtime[b].anchor \in Past(tip[b])
    BY <1>1 DEF PendingMerge, IInv, AnchorInHistory
<1> QED BY <1>2, <1>3 DEF History

\* Settling a branch that has a document leaves the document.
LEMMA SettlingKeeps ==
    ASSUME NEW b \in Branches, NEW r \in Envelopes, r.revision # 0
    PROVE  Settled(b, r).document = r.document
BY DEF Settled, Envelopes

\* The steps of an operation other than commands, where they replace a document.
Replacing(o, b) ==
    /\ b \in o.locks
    /\ runtime[b].revision > 0 => runtime[b].document \in History(b)
    /\ Name(o, 1) # "commit"

LEMMA LoadReplaces ==
    ASSUME IInv, NEW o \in running, Load(o), NEW b \in Branches,
           runtime'[b].document # runtime[b].document
    PROVE  Replacing(o, b)
<1> DEFINE c == Arg(o, 1)
<1>1. At(o, "load")  BY DEF Load
<1>2. Name(o, 1) = "load" /\ c \in o.locks /\ c \in Branches
    BY <1>1, AtIs, StepIs DEF Name
<1>3. Loads(c) /\ runtime' = [runtime EXCEPT ![c] = Loaded(c)]  BY DEF Load
<1> HIDE DEF c
<1>4. runtime[b] \in Envelopes /\ Reconciled(b) \in Envelopes  BY FitsNow DEF Fits
<1>5. b = c  BY <1>3 DEF IInv, Shape
<1>6. Loaded(b).document # runtime[b].document  BY <1>2, <1>3, <1>5 DEF IInv, Shape
<1>7. Status = "ready" /\ Loaded(b) = Settled(b, Reconciled(b))  BY <1>6 DEF Loaded
<1>8. Reconciles(b)  BY <1>3, <1>5, <1>7 DEF Loads
<1>9. ASSUME runtime[b].revision > 0 PROVE runtime[b].document \in History(b)
    <2>1. Reconciled(b).revision # 0
        <3>1. runtime[b].revision \in Nat  BY <1>4 DEF Envelopes
        <3> QED BY <1>9, <3>1 DEF Reconciled
    <2>2. Reconciled(b).document # runtime[b].document
        BY <1>4, <1>6, <1>7, <2>1, SettlingKeeps
    <2> QED BY <1>8, <2>2, TakenOver
<1> QED BY <1>2, <1>5, <1>9 DEF Replacing

LEMMA ReconcileReplaces ==
    ASSUME IInv, NEW o \in running, Reconcile(o), NEW b \in Branches,
           runtime'[b].document # runtime[b].document
    PROVE  Replacing(o, b)
<1> DEFINE c == Arg(o, 1)
<1>1. At(o, "reconcile")  BY DEF Reconcile
<1>2. Name(o, 1) = "reconcile" /\ c \in o.locks /\ c \in Branches
    BY <1>1, AtIs, StepIs DEF Name
<1>3. Reconciles(c) /\ runtime' = [runtime EXCEPT ![c] = Reconciled(c)]  BY DEF Reconcile
<1> HIDE DEF c
<1>4. b = c  BY <1>3 DEF IInv, Shape
<1>5. Reconciled(b).document # runtime[b].document  BY <1>2, <1>3, <1>4 DEF IInv, Shape
<1>6. runtime[b].document \in History(b)  BY <1>3, <1>4, <1>5, TakenOver
<1> QED BY <1>2, <1>4, <1>6 DEF Replacing

LEMMA SettleReplaces ==
    ASSUME IInv, NEW o \in running, Settle(o), NEW b \in Branches,
           runtime'[b].document # runtime[b].document
    PROVE  Replacing(o, b)
<1>1. At(o, "settle") /\ runtime' = [runtime EXCEPT ![o.on] = Settled(o.on, runtime[o.on])]
    BY DEF Settle
<1>2. Name(o, 1) = "settle" /\ o.on \in o.locks  BY <1>1, AtIs
<1>3. b = o.on  BY <1>1 DEF IInv, Shape
<1>4. Settled(b, runtime[b]).document # runtime[b].document
    BY <1>1, <1>3 DEF IInv, Shape
<1>5. runtime[b] \in Envelopes  BY FitsNow DEF Fits
<1>6. runtime[b].revision = 0  BY <1>4, <1>5, SettlingKeeps
<1> QED BY <1>2, <1>3, <1>6 DEF Replacing

LEMMA ApplyMergeReplaces ==
    ASSUME IInv, NEW o \in running, ApplyMerge(o), NEW b \in Branches,
           runtime'[b].document # runtime[b].document
    PROVE  Replacing(o, b)
<1>1. At(o, "apply")  BY DEF ApplyMerge
<1>2. Name(o, 1) = "apply" /\ o.on \in o.locks /\ runtime[o.on].document \in History(o.on)
    BY <1>1, AtIs DEF Joining
<1>3. \E e : runtime' = [runtime EXCEPT ![o.on] = e] \/ runtime' = runtime  BY DEF ApplyMerge
<1>4. b = o.on  BY <1>3 DEF IInv, Shape
<1> QED BY <1>2, <1>4 DEF Replacing

LEMMA AnchorReplacesNothing ==
    ASSUME IInv, NEW o \in running, Anchor(o), NEW b \in Branches
    PROVE  runtime'[b].document = runtime[b].document
<1> DEFINE c == Arg(o, 1)
           k == Arg(o, 3)
<1>1. CASE runtime' = [runtime EXCEPT ![c].anchor = k]
    <2>1. runtime[b] \in Envelopes  BY FitsNow DEF Fits
    <2> HIDE DEF c, k
    <2>2. CASE b = c
        <3>1. runtime'[b] = [runtime[b] EXCEPT !.anchor = k]  BY <1>1, <2>2 DEF IInv, Shape
        <3> QED BY <2>1, <3>1 DEF Envelopes
    <2>3. CASE b # c  BY <1>1, <2>3 DEF IInv, Shape
    <2> QED BY <2>2, <2>3
<1>2. CASE UNCHANGED runtime  BY <1>2
<1> QED BY <1>1, <1>2 DEF Anchor

\* A destructive command finds what it destroys in the history.
LEMMA CommandReplaces ==
    ASSUME IInv, NEW o \in running, Commit(o) \/ CommitLatest(o), NEW b \in Branches,
           runtime'[b].document # runtime[b].document
    PROVE  /\ b \in o.locks
           /\ Name(o, 1) = "commit" /\ Arg(o, 3) \in Destructive =>
                runtime[b].document \in History(b)
<1> DEFINE c == Arg(o, 1)
<1>1. CASE Commit(o)
    <2>1. At(o, "commit")  BY <1>1 DEF Commit
    <2>2. c \in o.locks /\ c \in Branches /\ c = o.todo[1][2] /\ Arg(o, 2) = o.todo[1][3]
          /\ Arg(o, 3) = o.todo[1][4]
        BY <2>1, AtIs, StepIs DEF Name
    <2> HIDE DEF c
    <2>3. runtime[c].revision = Arg(o, 2) /\ Take(c, Arg(o, 3))  BY <1>1 DEF Commit, c
    <2>4. b = c  BY <2>3 DEF Take, IInv, Shape
    <2>5. Arg(o, 3) \in Destructive => runtime[b].document \in History(b)
        BY <2>1, <2>2, <2>3, <2>4, AtIs DEF Committing
    <2> QED BY <2>2, <2>4, <2>5
<1>2. CASE CommitLatest(o)
    <2>1. At(o, "commitLatest")  BY <1>2 DEF CommitLatest
    <2>2. c \in o.locks /\ Name(o, 1) = "commitLatest"  BY <2>1, AtIs, StepIs DEF Name
    <2> HIDE DEF c
    <2>3. Take(c, Arg(o, 2))  BY <1>2 DEF CommitLatest, c
    <2>4. b = c  BY <2>3 DEF Take, IInv, Shape
    <2> QED BY <2>2, <2>4
<1> QED BY <1>1, <1>2

\* Only these steps write a document.
LEMMA Writers ==
    ASSUME [Next]_vars, NEW b \in Branches, runtime'[b].document # runtime[b].document
    PROVE  \E o \in running :
             Load(o) \/ Commit(o) \/ CommitLatest(o) \/ Anchor(o) \/ Reconcile(o) \/ Settle(o)
             \/ ApplyMerge(o)
<1>1. runtime' # runtime  OBVIOUS
<1>2. ~UNCHANGED vars  BY <1>1 DEF vars
<1>3. ~Requests
    BY <1>1 DEF Requests, GetCanvas, ManualCheckpoint, CommitCanvas, CommitLatestCanvas, Grow,
                PreviewMerge, ExecuteMerge
<1>4. ~\E c \in Branches : TimerCheckpoint(c)  BY <1>1 DEF TimerCheckpoint
<1>5. ~Browse /\ ~Crash  BY <1>1 DEF Browse, Crash
<1>6. PICK o \in running : Step(o) \/ Fail(o) \/ InitializeOnly(o)
    BY <1>2, <1>3, <1>4, <1>5 DEF Next
<1>7. ~Fail(o) /\ ~InitializeOnly(o)  BY <1>1 DEF Fail, InitializeOnly
<1>8. ~Admit(o) /\ ~Checkpoint(o) /\ ~LookUp(o) /\ ~Ref(o) /\ ~Recover(o) /\ ~SettleRefused(o)
      /\ ~Query(o) /\ ~Cancel(o) /\ ~Preview(o) /\ ~AssertExpectation(o) /\ ~Merge(o)
    BY <1>1 DEF Admit, Checkpoint, LookUp, Ref, Recover, SettleRefused, Query, Cancel, Preview,
                AssertExpectation, Merge
<1> QED BY <1>6, <1>7, <1>8 DEF Step

\* No document goes that Git cannot bring back: a destructive command destroys
\* what is a checkpoint of its branch, and what else replaces a document finds
\* it in the history, with other requests, failures and crashes in between.
THEOREM NothingIsDestroyed == Spec => NothingDestroyed
<1> DEFINE Lost(b) ==
             /\ runtime'[b].document # runtime[b].document
             /\ \/ runtime[b].revision > 0 /\ ~\E o \in running : Commit(o) \/ CommitLatest(o)
                \/ \E o \in running :
                     /\ At(o, "commit") /\ o \notin running'
                     /\ Arg(o, 1) = b /\ Arg(o, 3) \in Destructive
<1>1. ASSUME IInv, [Next]_vars, NEW b \in Branches, Lost(b)
      PROVE  runtime[b].document \in History(b)
    <2>1. PICK p \in running :
            Load(p) \/ Commit(p) \/ CommitLatest(p) \/ Anchor(p) \/ Reconcile(p) \/ Settle(p)
            \/ ApplyMerge(p)
        BY <1>1, Writers
    <2>2. ~Anchor(p)  BY <1>1, AnchorReplacesNothing
    <2>3. CASE Commit(p) \/ CommitLatest(p)
        <3>1. PICK o \in running : At(o, "commit") /\ Arg(o, 1) = b /\ Arg(o, 3) \in Destructive
            BY <1>1, <2>3
        <3>2. b \in o.locks /\ Name(o, 1) = "commit"  BY <1>1, <3>1, AtIs, StepIs DEF Name
        <3>3. b \in p.locks  BY <1>1, <2>3, CommandReplaces
        <3>4. p = o  BY <1>1, <3>2, <3>3 DEF IInv, Apart
        <3> QED BY <1>1, <2>3, <3>1, <3>2, <3>4, CommandReplaces
    <2>4. CASE Load(p) \/ Reconcile(p) \/ Settle(p) \/ ApplyMerge(p)
        <3>1. Replacing(p, b)
            BY <1>1, <2>4, LoadReplaces, ReconcileReplaces, SettleReplaces, ApplyMergeReplaces
        <3>2. ASSUME NEW o \in running, At(o, "commit"), Arg(o, 1) = b PROVE FALSE
            <4>1. b \in o.locks /\ Name(o, 1) = "commit"  BY <1>1, <3>2, AtIs, StepIs DEF Name
            <4>2. p = o  BY <1>1, <3>1, <4>1 DEF IInv, Apart, Replacing
            <4> QED BY <3>1, <4>1, <4>2 DEF Replacing
        <3> QED BY <1>1, <3>1, <3>2 DEF Replacing
    <2> QED BY <2>1, <2>2, <2>3, <2>4
<1>2. IInv /\ [Next]_vars =>
        [\A b \in Branches : Lost(b) => runtime[b].document \in History(b)]_vars
    BY <1>1
<1> QED BY <1>2, Invariance, PTL DEF Spec, NothingDestroyed

\* Only these steps move a tip.
LEMMA Movers ==
    ASSUME [Next]_vars, tip' # tip
    PROVE  \E o \in running : Checkpoint(o) \/ Ref(o) \/ Recover(o) \/ Merge(o)
<1>1. ~UNCHANGED git /\ ~UNCHANGED vars  BY DEF git, vars
<1>2. ~Requests
    BY <1>1 DEF Requests, GetCanvas, ManualCheckpoint, CommitCanvas, CommitLatestCanvas, Grow,
                PreviewMerge, ExecuteMerge
<1>3. ~\E c \in Branches : TimerCheckpoint(c)  BY <1>1 DEF TimerCheckpoint
<1>4. ~Browse /\ ~Crash  BY <1>1 DEF Browse, Crash
<1>5. PICK o \in running : Step(o) \/ Fail(o) \/ InitializeOnly(o)
    BY <1>1, <1>2, <1>3, <1>4 DEF Next
<1>6. ~Fail(o) /\ ~InitializeOnly(o)  BY <1>1 DEF Fail, InitializeOnly
<1>7. ~Load(o) /\ ~Admit(o) /\ ~Commit(o) /\ ~CommitLatest(o) /\ ~Anchor(o) /\ ~Reconcile(o)
      /\ ~LookUp(o) /\ ~Settle(o) /\ ~SettleRefused(o) /\ ~Query(o) /\ ~Cancel(o) /\ ~Preview(o)
      /\ ~AssertExpectation(o) /\ ~ApplyMerge(o)
    BY <1>1 DEF Load, Admit, Commit, CommitLatest, Anchor, Reconcile, LookUp, Settle,
                SettleRefused, Query, Cancel, Preview, AssertExpectation, ApplyMerge
<1> QED BY <1>5, <1>6, <1>7 DEF Step

\* A merge commit has for parents the two tips of the preview its client has
\* confirmed, and its branches are at the revisions shown there: nothing that
\* came later is merged.
THEOREM MergesAsPreviewed == Spec => MergeAsPreviewed
<1> DEFINE Moved(b) == tip'[b] # tip[b] /\ tip'[b] \notin DOMAIN commits
                         /\ Len(commits'[tip'[b]].parents) = 2
           Confirmed(o, b) ==
             /\ o.kind = "merge" /\ o.on = b
             /\ commits'[tip'[b]].parents = <<o.given.targetCommit, o.given.sourceCommit>>
             /\ runtime[b].revision = o.given.targetRevision
             /\ runtime[o.from].revision = o.given.sourceRevision
<1>1. ASSUME IInv, [Next]_vars, NEW b \in Branches, Moved(b)
      PROVE  \E o \in running : Confirmed(o, b)
    <2>1. PICK o \in running : Checkpoint(o) \/ Ref(o) \/ Recover(o) \/ Merge(o)
        BY <1>1, Movers
    <2>2. ASSUME Checkpoint(o) PROVE FALSE
        <3> DEFINE c == Arg(o, 1)
        <3>1. At(o, "checkpoint") /\ UNCHANGED runtime  BY <2>2 DEF Checkpoint
        <3>2. c \in Branches  BY <1>1, <3>1, AtIs, StepIs DEF Name
        <3>3. GitKnows(c) /\ GitCheckpoint(c, runtime[c].document)
            BY <1>1, <2>2 DEF Checkpoint, git
        <3> HIDE DEF c
        <3>4. runtime[c].document \in Documents  BY <1>1, <3>2, FitsNow DEF Fits, Envelopes
        <3>5. /\ \A a \in Branches \ {c} : tip'[a] = tip[a]
              /\ tip'[c] \notin DOMAIN commits => Len(commits'[tip'[c]].parents) # 2
            BY <1>1, <3>1, <3>2, <3>3, <3>4, GitCheckpoints
        <3> QED BY <1>1, <3>5
    <2>3. ASSUME Ref(o) PROVE FALSE
        <3>1. At(o, "ref")  BY <2>3 DEF Ref
        <3>2. o.from \in Branches /\ tip[o.from] # 0  BY <1>1, <3>1, AtIs DEF Growth
        <3>3. StartPoint(o) \in Past(tip[o.from]) /\ tip' = [tip EXCEPT ![o.on] = StartPoint(o)]
            BY <1>1, <2>3 DEF Ref
        <3>4. StartPoint(o) \in DOMAIN commits  BY <1>1, <3>2, <3>3, Tips
        <3> QED BY <1>1, <3>3, <3>4 DEF IInv, Shape
    <2>4. ASSUME Recover(o) PROVE FALSE
        <3>1. At(o, "recover") /\ UNCHANGED runtime  BY <2>4 DEF Recover
        <3>2. o.on \in Branches /\ tip[o.on] # 0 /\ o.kind = "conflict" /\ Operation(o)
            BY <1>1, <3>1, AtIs DEF Growth
        <3>3. GitCheckpoint(o.on, o.given)  BY <1>1, <2>4 DEF Recover, git
        <3>4. o.given \in Documents /\ GitKnows(o.on)  BY <3>2 DEF Operation, GitKnows
        <3>5. /\ \A a \in Branches \ {o.on} : tip'[a] = tip[a]
              /\ tip'[o.on] \notin DOMAIN commits => Len(commits'[tip'[o.on]].parents) # 2
            BY <1>1, <3>1, <3>2, <3>3, <3>4, GitCheckpoints
        <3> QED BY <1>1, <3>5
    <2>5. CASE Merge(o)
        <3> DEFINE s == tip[o.from]
                   t == tip[o.on]
                   d == MergeOf(s, t)
        <3>1. At(o, "merge") /\ UNCHANGED runtime  BY <2>5 DEF Merge
        <3>2. o.kind = "merge" /\ o.on \in Branches /\ o.from \in Branches /\ t # 0 /\ s # 0
            BY <1>1, <3>1, Joins
        <3>3. StillExpected(o) /\ d # Conflicting /\ CommitOnto(o.on, d, <<t, s>>)
            BY <1>1, <2>5 DEF Merge, git
        <3>4. d \in Documents  BY <1>1, <3>2, <3>3, Merges
        <3>5. s \in DOMAIN commits /\ t \in DOMAIN commits /\ s \in Nat /\ t \in Nat
            BY <1>1, <3>2, Tips
        <3>6. <<t, s>> \in Seq(Nat) /\ ToSet(<<t, s>>) = {t, s}  BY <3>5, ParentsOf
        <3> HIDE DEF d
        <3>7. /\ \A a \in Branches \ {o.on} : tip'[a] = tip[a]
              /\ commits'[tip'[o.on]].parents = <<t, s>>
            BY <1>1, <3>1, <3>2, <3>3, <3>4, <3>5, <3>6, Extends
        <3>8. b = o.on  BY <1>1, <3>7
        <3>9. /\ o.given.targetCommit = t /\ o.given.sourceCommit = s
              /\ o.given.targetRevision = runtime[o.on].revision
              /\ o.given.sourceRevision = runtime[o.from].revision
            BY <3>3 DEF StillExpected, Expectation
        <3> QED BY <3>2, <3>7, <3>8, <3>9
    <2> QED BY <2>1, <2>2, <2>3, <2>4, <2>5
<1>2. IInv /\ [Next]_vars =>
        [\A b \in Branches : Moved(b) => \E o \in running : Confirmed(o, b)]_vars
    BY <1>1
<1> QED BY <1>2, Invariance, PTL DEF Spec, MergeAsPreviewed

\* saveConflictBranch succeeds only when the branch shows the recovered document
\* and its history has it, so that the browser may forget its outbox.
THEOREM SavedIsThere == Spec => SavedIsRecovered
<1>1. ASSUME IInv, [Next]_vars, NEW o \in running, o.kind = "conflict", Settle(o)
      PROVE  runtime'[o.on].document = o.given /\ o.given \in History(o.on)
    <2>1. At(o, "settle") /\ CanSettle(o)
          /\ runtime' = [runtime EXCEPT ![o.on] = Settled(o.on, runtime[o.on])]
        BY <1>1 DEF Settle
    <2>2. o.on \in Branches /\ tip[o.on] # 0 /\ TipDocument(o.on) = o.given
        BY <1>1, <2>1, AtIs DEF Growth
    <2>3. o.given \in History(o.on)  BY <1>1, <2>2, Tips
    <2>4. runtime'[o.on] = Settled(o.on, runtime[o.on])  BY <1>1, <2>1, <2>2 DEF IInv, Shape
    <2>5. runtime[o.on] \in Envelopes  BY <1>1, <2>2, FitsNow DEF Fits
    <2>6. CASE runtime[o.on].revision = 0  BY <2>2, <2>3, <2>4, <2>6 DEF Settled
    <2>7. CASE runtime[o.on].revision # 0
        <3>1. runtime[o.on].revision > 0  BY <2>5, <2>7 DEF Envelopes
        <3>2. runtime[o.on].document = o.given  BY <1>1, <2>1, <3>1 DEF CanSettle, HoldsOther
        <3> QED BY <2>3, <2>4, <2>5, <2>7, <3>2, SettlingKeeps, <2>2
    <2> QED BY <2>6, <2>7
<1>2. IInv /\ [Next]_vars =>
        [\A o \in running : o.kind = "conflict" /\ Settle(o) =>
           /\ runtime'[o.on].document = o.given
           /\ o.given \in History(o.on)]_vars
    BY <1>1
<1> QED BY <1>2, Invariance, PTL DEF Spec, SavedIsRecovered
=============================================================================
