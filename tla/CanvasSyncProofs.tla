---------------------------- MODULE CanvasSyncProofs ----------------------------
(***************************************************************************)
(* Theorems about CanvasSync, for any number of commands, foreign writers  *)
(* and late requests: no dispatched command is lost, the commands of a tab *)
(* are committed in the order of their dispatch, and a store that has come *)
(* to rest as saved shows what of its own the branch has.                  *)
(***************************************************************************)
EXTENDS CanvasSync, TLAPS, WellFoundedInduction

FlushSteps ==
    {"idle", "start", "list", "posted", "replied", "refetch", "rebase", "conflict", "failed",
     "finish", "publish", "check", "more", "end"}
Replies == [kind : {"ok", "stale", "rejected"}, envelope : Envelopes]

Daemons ==
    /\ revision \in Nat /\ document \in Documents
    /\ archive \in Seq(Documents)
    /\ Len(archive) = revision + 1 /\ archive[revision + 1] = document
    /\ receipts \subseteq [mutation : Mutations \cup ForeignMutations,
                           command : Commands, revision : Nat]

Tabs ==
    /\ tab \in [hydration : {"idle", "loading", "ready", "error"}, status : Statuses,
                conflict : BOOLEAN, fault : {"none", "lost", "rejected"},
                envelope : Envelopes \cup {None}, shown : Documents, acknowledged : Nat]
    /\ tab.hydration = "ready" => tab.envelope # None

Dispatches(d) ==
    \/ d \in [pc : {"idle"}]
    \/ d \in [pc : {"locked"}, mutation : Mutations, command : Commands]
    \/ d \in [pc : {"computed"}, next : Documents, entry : Entries]
    \/ d \in [pc : {"enqueued"}, next : Documents]

Loads(l) ==
    \/ l \in [pc : {"idle"}]
    \/ l \in [pc : {"go", "wait"}, requested : BOOLEAN]
    \/ l \in [pc : {"fetching"}, requested : BOOLEAN, background : BOOLEAN,
              envelope : Envelopes \cup {None}, entries : Seq(Entries) \cup {None}]

Saves(s) ==
    \/ s \in [pc : {"idle"}]
    \/ s \in [pc : {"posted", "replied", "acking"}, entries : Seq(Entries)]

Flushes(f) ==
    f \in [pc : FlushSteps, again : BOOLEAN, replayed : BOOLEAN, latest : Envelopes \cup {None},
           sent : Entries \cup {None}, reply : Replies \cup {None},
           cause : {"none", "lost", "rejected"}]

Shape ==
    /\ Daemons /\ Tabs /\ Dispatches(dispatch) /\ Loads(load) /\ Saves(save) /\ Flushes(flush)
    /\ outbox \in Seq(Entries) /\ orphans \subseteq Entries
    /\ dispatched \in Seq(Mutations) /\ saved \subseteq Mutations

\* A mutation is dispatched once, and what the branch has of the tab was.
Before(a, b) ==
    \E i, j \in DOMAIN dispatched : i < j /\ dispatched[i] = a /\ dispatched[j] = b

Receipts ==
    /\ \A r \in receipts : r.revision <= revision
    /\ \A r \in receipts : r.mutation \in Mutations => r.mutation \in ToSet(dispatched)
    /\ \A r, s \in receipts : r.mutation = s.mutation => r = s

\* What is dispatched is new, and a journal is in the order of dispatch.
InOrder(entries) ==
    /\ \A i \in DOMAIN entries : entries[i].mutation \in ToSet(dispatched)
    /\ \A i, j \in DOMAIN entries : i < j => Before(entries[i].mutation, entries[j].mutation)

Journals ==
    /\ \A i, j \in DOMAIN dispatched : dispatched[i] = dispatched[j] => i = j
    /\ dispatch.pc = "locked" => dispatch.mutation \notin ToSet(dispatched)
    /\ dispatch.pc = "computed" => dispatch.entry.mutation \notin ToSet(dispatched)
    /\ InOrder(outbox)
    /\ save.pc # "idle" => InOrder(save.entries)

\* A request may be served when everything before it is committed or recovered.
Due(q) ==
    /\ q.mutation \in ToSet(dispatched)
    /\ \A a \in Mutations : Before(a, q.mutation) => a \in Spent \cup saved

Requests ==
    /\ flush.pc \in {"posted", "replied"} => flush.sent # None /\ Due(flush.sent)
    /\ \A q \in orphans : Due(q)

\* CommitOrder, receipt by receipt.
Ordered ==
    \A a, b \in Mutations : Before(a, b) /\ a \notin saved =>
        \A r \in receipts : r.mutation = b =>
            \E s \in receipts : s.mutation = a /\ s.revision < r.revision

\* The outbox lock has one holder.
Exclusive ==
    LET dispatching == dispatch.pc \in {"locked", "computed", "enqueued"}
        publishing == flush.pc = "publish"
        acking == save.pc = "acking"
    IN ~(dispatching /\ publishing) /\ ~(dispatching /\ acking) /\ ~(publishing /\ acking)

\* A store that loads for the first time does nothing else.
Hydrated ==
    /\ dispatch.pc # "idle" \/ flush.pc # "idle" => tab.hydration = "ready"
    /\ load.pc = "fetching" => (load.background <=> tab.hydration = "ready")

\* What is acknowledged for a conflict branch was recovered.
Recovered ==
    /\ save.pc # "idle" => save.entries # <<>>
    /\ save.pc \in {"replied", "acking"} => \A e \in ToSet(save.entries) : e.mutation \in saved
    /\ save.pc = "acking" => Queued \subseteq {e.mutation : e \in ToSet(save.entries)}

\* An envelope is a revision of the branch ...
Archived(e) == e.revision <= revision /\ e.document = archive[e.revision + 1]

\* ... and has every command of the tab that is committed and no longer queued.
Covers(e) ==
    \A r \in receipts :
        r.mutation \in ToSet(dispatched) \ saved => r.mutation \in Queued \/ r.revision <= e.revision

\* A flush that took a command from the outbox knows an envelope that has it.
Flushing ==
    /\ flush.latest # None => Archived(flush.latest) /\ Covers(flush.latest)
    /\ flush.pc \in {"rebase", "finish", "publish"} => flush.latest # None
    /\ flush.pc = "publish" => tab.acknowledged >= flush.latest.revision
    /\ save.pc # "acking" =>
         /\ flush.pc \in {"posted", "replied", "refetch", "rebase", "conflict"} => outbox # <<>>
         /\ flush.pc = "list" => outbox # <<>> \/ flush.latest # None
    /\ flush.pc = "replied" =>
         /\ flush.reply \in Replies
         /\ Archived(flush.reply.envelope) /\ Covers(flush.reply.envelope)
         /\ flush.reply.kind = "ok" =>
              \E r \in receipts : /\ r.mutation = flush.sent.mutation
                                  /\ r.revision <= flush.reply.envelope.revision

\* Nothing is queued, and no flush is about to show a newer envelope.
Settled ==
    outbox = <<>> /\ save.pc # "acking" /\ flush.pc \notin {"list", "finish", "publish"}

Showing ==
    tab.envelope # None =>
        /\ Archived(tab.envelope)
        /\ Settled => Covers(tab.envelope) /\ tab.acknowledged >= tab.envelope.revision

Loading ==
    load.pc = "fetching" /\ load.envelope # None =>
        /\ Archived(load.envelope)
        /\ Settled => Covers(load.envelope) \/ IsBehind

IInv ==
    /\ Shape /\ Receipts /\ Journals /\ Requests /\ Ordered /\ Exclusive /\ Hydrated /\ Recovered
    /\ Flushing /\ Showing /\ Loading /\ NothingLost
-----------------------------------------------------------------------------
(* What a replay and an acknowledgement return *)

LEMMA HasLeast ==
    ASSUME NEW S \in SUBSET Nat, S # {}
    PROVE  \E k \in S : \A j \in S : k <= j
<1> DEFINE R == OpToRel(<, Nat)
<1>1. PICK k \in S : \A j \in S : ~(<<j, k>> \in R)
    BY NatLessThanWellFounded, WFMin, Zenon
<1>2. \A j \in S : ~(j < k)  BY <1>1 DEF OpToRel
<1> QED BY <1>2

LEMMA ApplyType ==
    ASSUME NEW d \in Documents, NEW c \in Commands
    PROVE  Apply(d, c) \in Documents \cup {Rejected}
<1>1. Reducer[<<d, c>>] \in Documents \cup {Rejected}  BY ReducerAssumption
<1> QED BY <1>1 DEF Apply

Replays == [document : Documents, failed : BOOLEAN]

LEMMA ReplayStepType ==
    ASSUME NEW r \in Replays, NEW e \in Entries
    PROVE  ReplayStep(r, e) \in Replays
<1>1. r.document \in Documents /\ e.command \in Commands  BY DEF Replays, Entries
<1>2. Apply(r.document, e.command) \in Documents \cup {Rejected}
    BY <1>1, ApplyType
<1>3. CASE r.failed  BY <1>3 DEF ReplayStep
<1>4. CASE ~r.failed /\ Apply(r.document, e.command) = Rejected
    <2>1. ReplayStep(r, e) = [r EXCEPT !.failed = TRUE]  BY <1>4 DEF ReplayStep
    <2> QED BY <2>1 DEF Replays
<1>5. CASE ~r.failed /\ Apply(r.document, e.command) # Rejected
    <2>1. ReplayStep(r, e) = [r EXCEPT !.document = Apply(r.document, e.command)]
        BY <1>5 DEF ReplayStep
    <2> QED BY <1>2, <1>5, <2>1 DEF Replays
<1> QED BY <1>3, <1>4, <1>5

\* A replay of a journal is a document, and whether it got through.
LEMMA ReplayType ==
    ASSUME NEW d \in Documents, NEW s \in Seq(Entries)
    PROVE  Replay(d, s) \in Replays
<1> DEFINE n == Len(s)
           start == [document |-> d, failed |-> FALSE]
           Next1(f) == [i \in 0..n |-> IF i = 0 THEN start ELSE ReplayStep(f[i - 1], s[i])]
           Is(k, g) == /\ g \in [0..k -> Replays] /\ g[0] = start
                       /\ \A i \in 1..k : g[i] = ReplayStep(g[i - 1], s[i])
           after == CHOOSE f : f = Next1(f)
<1>1. n \in Nat /\ start \in Replays /\ \A i \in 1..n : s[i] \in Entries  BY DEF Replays
<1>2. \E g : Is(n, g)
    <2> DEFINE Bad == {k \in 0..n : ~ \E g : Is(k, g)}
    <2>1. SUFFICES ASSUME Bad # {} PROVE FALSE  BY <1>1
    <2>2. PICK k \in Bad : \A j \in Bad : k <= j
        <3>1. Bad \in SUBSET Nat  OBVIOUS
        <3> HIDE DEF Bad
        <3> QED BY <2>1, <3>1, HasLeast
    <2>3. k # 0
        <3>1. Is(0, [i \in 0..0 |-> start])  BY <1>1
        <3> QED BY <3>1, Zenon
    <2>4. k - 1 \in 0..n /\ k - 1 \notin Bad /\ k \in 1..n
        <3>1. k \in 0..n  OBVIOUS
        <3>2. k \in 1..n /\ k - 1 \in 0..n /\ ~(k <= k - 1)
            <4> HIDE DEF Bad, n
            <4> QED BY <3>1, <2>3, <1>1
        <3>3. k - 1 \notin Bad
            <4> HIDE DEF Bad
            <4> QED BY <2>2, <3>2
        <3> QED BY <3>2, <3>3
    <2>5. PICK g : Is(k - 1, g)  BY <2>4
    <2> DEFINE h == [i \in 0..k |-> IF i < k THEN g[i] ELSE ReplayStep(g[k - 1], s[k])]
    <2>6. ReplayStep(g[k - 1], s[k]) \in Replays
        <3>1. g[k - 1] \in Replays /\ s[k] \in Entries  BY <1>1, <2>4, <2>5
        <3> QED BY <3>1, ReplayStepType
    <2>7. h \in [0..k -> Replays] /\ h[0] = start
        <3>1. k \in Nat /\ k # 0  BY <2>4, <1>1
        <3>2. \A i \in 0..k - 1 : g[i] \in Replays  BY <2>5
        <3>3. g[0] = start  BY <2>5
        <3>4. ASSUME NEW i \in 0..k
              PROVE  (IF i < k THEN g[i] ELSE ReplayStep(g[k - 1], s[k])) \in Replays
            <4> HIDE DEF Replays, Is
            <4> QED BY <3>1, <3>2, <2>6
        <3>5. h[0] = g[0]  BY <3>1
        <3> QED BY <3>3, <3>4, <3>5
    <2>8. ASSUME NEW i \in 1..k PROVE h[i] = ReplayStep(h[i - 1], s[i])
        <3>1. h[i - 1] = g[i - 1]  BY <2>4
        <3>2. CASE i = k  BY <3>1, <3>2, <2>4
        <3>3. CASE i < k
            <4>1. h[i] = g[i]  BY <3>3, <2>4
            <4>2. g[i] = ReplayStep(g[i - 1], s[i])  BY <3>3, <2>4, <2>5
            <4> QED BY <3>1, <4>1, <4>2
        <3> QED BY <3>2, <3>3, <2>4
    <2>9. Is(k, h)  BY <2>7, <2>8
    <2> HIDE DEF Is
    <2> QED BY <2>9, <2>2
<1>3. PICK g : Is(n, g)  BY <1>2
<1>4. g = Next1(g)
    <2>1. ASSUME NEW i \in 0..n PROVE g[i] = Next1(g)[i]  BY <1>3, <1>1
    <2>2. DOMAIN g = 0..n  BY <1>3
    <2>3. g = [i \in 0..n |-> g[i]]  BY <1>3
    <2> QED BY <2>1, <2>3
<1>5. after = Next1(after)
    <2> HIDE DEF Next1
    <2> QED BY <1>4
<1>6. after[0] = start /\ \A i \in 1..n : after[i] = ReplayStep(after[i - 1], s[i])
    <2> HIDE DEF after
    <2>1. ASSUME NEW i \in 0..n
          PROVE  after[i] = IF i = 0 THEN start ELSE ReplayStep(after[i - 1], s[i])
        <3> DEFINE f == [j \in 0..n |-> IF j = 0 THEN start ELSE ReplayStep(after[j - 1], s[j])]
        <3>1. f[i] = IF i = 0 THEN start ELSE ReplayStep(after[i - 1], s[i])  OBVIOUS
        <3>2. after = f  BY <1>5
        <3> HIDE DEF f
        <3> QED BY <3>1, <3>2
    <2>2. 0 \in 0..n  BY <1>1
    <2> HIDE DEF start, n
    <2> QED BY <2>1, <2>2, <1>1
<1>7. after[n] \in Replays
    <2> HIDE DEF after
    <2> DEFINE Bad == {k \in 0..n : after[k] \notin Replays}
    <2>1. SUFFICES ASSUME Bad # {} PROVE FALSE  BY <1>1
    <2>2. PICK k \in Bad : \A j \in Bad : k <= j
        <3>1. Bad \in SUBSET Nat  OBVIOUS
        <3> HIDE DEF Bad
        <3> QED BY <2>1, <3>1, HasLeast
    <2>3. k \in 0..n /\ k # 0  BY <1>6, <1>1
    <2>4. k \in 1..n /\ k - 1 \in 0..n /\ ~(k <= k - 1)
        <3> HIDE DEF Bad, n
        <3> QED BY <2>3, <1>1
    <2>6. k - 1 \notin Bad
        <3> HIDE DEF Bad
        <3> QED BY <2>2, <2>4
    <2>5. after[k] \in Replays  BY <1>1, <1>6, <2>4, <2>6, ReplayStepType
    <2> QED BY <2>5
<1>8. Replay(d, s) = after[n]  BY DEF Replay
<1> QED BY <1>7, <1>8

LEMMA SubSeqIs ==
    ASSUME NEW s \in Seq(Entries), NEW a \in 1..Len(s) + 1, NEW b \in a - 1..Len(s)
    PROVE  /\ SubSeq(s, a, b) \in Seq(Entries) /\ Len(SubSeq(s, a, b)) = b - (a - 1)
           /\ \A j \in 1..b - (a - 1) : SubSeq(s, a, b)[j] = s[j + (a - 1)]
<1>1. Len(s) \in Nat /\ a \in Nat /\ b \in Nat /\ b - (a - 1) \in Nat  OBVIOUS
<1>2. SubSeq(s, a, b) = [j \in 1..(1 + b) - a |-> s[(j + a) - 1]]  OBVIOUS
<1>3. (1 + b) - a = b - (a - 1)  BY <1>1
<1>4. \A j \in 1..b - (a - 1) : (j + a) - 1 = j + (a - 1) /\ j + (a - 1) \in 1..Len(s)
    BY <1>1
<1>5. \A j \in 1..b - (a - 1) : SubSeq(s, a, b)[j] = s[j + (a - 1)]  BY <1>2, <1>3, <1>4
<1>6. \A j \in 1..b - (a - 1) : s[j + (a - 1)] \in Entries  BY <1>4
<1>7. DOMAIN SubSeq(s, a, b) = 1..b - (a - 1)  BY <1>2, <1>3
<1>8. Len(SubSeq(s, a, b)) = b - (a - 1)  BY <1>1, <1>2, <1>3
<1>9. SubSeq(s, a, b) \in Seq(Entries)  OBVIOUS
<1> QED BY <1>5, <1>8, <1>9

\* What outbox.ack leaves of a journal.
Acked(s, m) == RemoveFirstMatch(s, LAMBDA e : e.mutation = m)

LEMMA AckedIs ==
    ASSUME NEW s \in Seq(Entries), NEW m, NEW i \in DOMAIN s, s[i].mutation = m
    PROVE  \E k \in DOMAIN s :
             /\ s[k].mutation = m
             /\ Acked(s, m) \in Seq(Entries)
             /\ Len(Acked(s, m)) = Len(s) - 1
             /\ \A j \in 1..Len(s) - 1 : Acked(s, m)[j] = s[IF j < k THEN j ELSE j + 1]
<1> DEFINE I == {j \in 1..Len(s) : s[j].mutation = m}
           k == Min(I)
<1>1. Len(s) \in Nat /\ DOMAIN s = 1..Len(s)  OBVIOUS
<1>2. I \in SUBSET Nat /\ I # {}  BY <1>1
<1>3. k \in I
    <2>1. \E x \in I : \A y \in I : x <= y  BY <1>2, HasLeast
    <2> QED BY <2>1 DEF Min
<1>4. Acked(s, m) = SubSeq(s, 1, k - 1) \o SubSeq(s, k + 1, Len(s))
    <2>1. SelectInSeq(s, LAMBDA e : e.mutation = m) = k  BY <1>2 DEF SelectInSeq
    <2>2. \E j \in 1..Len(s) : s[j].mutation = m  BY <1>1
    <2> QED BY <2>1, <2>2 DEF Acked, RemoveFirstMatch, RemoveAt
<1>5. k \in 1..Len(s) /\ s[k].mutation = m  BY <1>3
<1> HIDE DEF I, k
<1> DEFINE p == SubSeq(s, 1, k - 1)
           q == SubSeq(s, k + 1, Len(s))
<1>6. p \in Seq(Entries) /\ Len(p) = k - 1 /\ \A j \in 1..k - 1 : p[j] = s[j]
    <2>1. 1 \in 1..Len(s) + 1 /\ k - 1 \in 1 - 1..Len(s)  BY <1>1, <1>5
    <2>2. (k - 1) - (1 - 1) = k - 1 /\ \A j \in 1..k - 1 : j + (1 - 1) = j  BY <1>1, <1>5
    <2>3. /\ p \in Seq(Entries) /\ Len(p) = (k - 1) - (1 - 1)
          /\ \A j \in 1..(k - 1) - (1 - 1) : p[j] = s[j + (1 - 1)]
        BY <2>1, SubSeqIs, Zenon
    <2> HIDE DEF p
    <2> QED BY <2>2, <2>3
<1>7. q \in Seq(Entries) /\ Len(q) = Len(s) - k /\ \A j \in 1..Len(s) - k : q[j] = s[j + k]
    <2>1. k + 1 \in 1..Len(s) + 1 /\ Len(s) \in (k + 1) - 1..Len(s)  BY <1>1, <1>5
    <2>2. (k + 1) - 1 = k  BY <1>1, <1>5
    <2>3. /\ q \in Seq(Entries) /\ Len(q) = Len(s) - ((k + 1) - 1)
          /\ \A j \in 1..Len(s) - ((k + 1) - 1) : q[j] = s[j + ((k + 1) - 1)]
        BY <2>1, SubSeqIs, Zenon
    <2> HIDE DEF q
    <2> QED BY <2>2, <2>3
<1> HIDE DEF p, q
<1>8. Acked(s, m) \in Seq(Entries) /\ Len(Acked(s, m)) = Len(s) - 1
    <2>1. Acked(s, m) = p \o q  BY <1>4 DEF p, q
    <2>2. p \in Seq(Entries) /\ q \in Seq(Entries)  BY <1>6, <1>7
    <2>3. p \o q \in Seq(Entries)  BY <2>2
    <2>4. Len(p \o q) = Len(p) + Len(q)  BY <2>2
    <2>5. Len(p) + Len(q) = Len(s) - 1  BY <1>1, <1>5, <1>6, <1>7
    <2> QED BY <2>1, <2>3, <2>4, <2>5
<1>9. ASSUME NEW j \in 1..Len(s) - 1
      PROVE  Acked(s, m)[j] = s[IF j < k THEN j ELSE j + 1]
    <2>1. Acked(s, m) = p \o q  BY <1>4 DEF p, q
    <2>2. CASE j < k
        <3>1. j \in 1..k - 1  BY <2>2, <1>1, <1>5
        <3>2. (p \o q)[j] = p[j]  BY <3>1, <1>1, <1>5, <1>6, <1>7
        <3> QED BY <2>1, <2>2, <3>1, <3>2, <1>6
    <2>3. CASE j >= k
        <3>1. j - (k - 1) \in 1..Len(s) - k /\ (j - (k - 1)) + k = j + 1  BY <2>3, <1>1, <1>5
        <3>2. (p \o q)[j] = q[j - (k - 1)]  BY <2>3, <1>1, <1>5, <1>6, <1>7
        <3>3. q[j - (k - 1)] = s[j + 1]  BY <3>1, <1>7
        <3> QED BY <2>1, <2>3, <3>2, <3>3, <1>1, <1>5
    <2> QED BY <2>2, <2>3, <1>1, <1>5
<1> QED BY <1>1, <1>5, <1>8, <1>9
-----------------------------------------------------------------------------
(* What the steps have in common *)

\* The records of the activities, by the place each has come to.
LEMMA LoadIs ==
    ASSUME Loads(load)
    PROVE  /\ load.pc \in {"idle", "go", "wait", "fetching"}
           /\ load.pc \in {"go", "wait"} => load \in [pc : {"go", "wait"}, requested : BOOLEAN]
           /\ load.pc = "fetching" =>
                load \in [pc : {"fetching"}, requested : BOOLEAN, background : BOOLEAN,
                          envelope : Envelopes \cup {None}, entries : Seq(Entries) \cup {None}]
BY DEF Loads

LEMMA DispatchIs ==
    ASSUME Dispatches(dispatch)
    PROVE  /\ dispatch.pc \in {"idle", "locked", "computed", "enqueued"}
           /\ dispatch.pc = "locked" => dispatch.mutation \in Mutations /\ dispatch.command \in Commands
           /\ dispatch.pc = "computed" => dispatch.next \in Documents /\ dispatch.entry \in Entries
           /\ dispatch.pc = "enqueued" => dispatch.next \in Documents
BY DEF Dispatches

LEMMA SaveIs ==
    ASSUME Saves(save)
    PROVE  /\ save.pc \in {"idle", "posted", "replied", "acking"}
           /\ save.pc # "idle" =>
                /\ save.entries \in Seq(Entries)
                /\ save \in [pc : {"posted", "replied", "acking"}, entries : Seq(Entries)]
BY DEF Saves

LEMMA EnvelopeIs ==
    /\ \A e \in Envelopes : e.revision \in Nat /\ e.document \in Documents /\ e # None
    /\ \A e \in Entries : e.mutation \in Mutations /\ e # None
BY SyncValuesAssumption DEF Envelopes, Entries

LEMMA RequestedIs ==
    ASSUME Flushes(flush)
    PROVE  /\ Flushes(Requested(flush)) /\ Flushes(NewFlush) /\ Flushes(NoFlush)
           /\ NewFlush.pc = "start" /\ NoFlush.pc = "idle"
           /\ NewFlush.latest = None /\ NoFlush.latest = None
           /\ \/ flush.pc = "idle" /\ Requested(flush) = NewFlush
              \/ /\ flush.pc # "idle"
                 /\ Requested(flush).pc = flush.pc /\ Requested(flush).latest = flush.latest
                 /\ Requested(flush).sent = flush.sent /\ Requested(flush).reply = flush.reply
<1>1. Flushes(NewFlush) /\ Flushes(NoFlush) /\ NewFlush.pc = "start" /\ NoFlush.pc = "idle"
      /\ NewFlush.latest = None /\ NoFlush.latest = None
    BY DEF NewFlush, NoFlush, Flushes, FlushSteps
<1>2. CASE flush.pc = "idle"  BY <1>1, <1>2 DEF Requested
<1>3. CASE flush.pc # "idle"
    <2>1. Requested(flush) = [flush EXCEPT !.again = TRUE]  BY <1>3 DEF Requested
    <2> QED BY <1>1, <1>3, <2>1 DEF Flushes
<1> QED BY <1>2, <1>3

\* Nothing that lasts has changed.
Lasting == UNCHANGED <<daemonVars, outbox, orphans, history>>

LEMMA LastingStep ==
    ASSUME IInv, Lasting
    PROVE  /\ Daemons' /\ Receipts' /\ Ordered' /\ NothingLost' /\ InOrder(outbox)'
           /\ \A q \in orphans' : Due(q)'
           /\ outbox' \in Seq(Entries) /\ orphans' \subseteq Entries
           /\ dispatched' \in Seq(Mutations) /\ saved' \subseteq Mutations
<1>1. UNCHANGED <<revision, document, receipts, archive, outbox, orphans, dispatched, saved>>
    BY DEF Lasting, daemonVars, history
<1>2. Daemons' /\ outbox' \in Seq(Entries) /\ orphans' \subseteq Entries
      /\ dispatched' \in Seq(Mutations) /\ saved' \subseteq Mutations
    BY <1>1 DEF IInv, Shape, Daemons
<1>3. Receipts'  BY <1>1 DEF IInv, Receipts
<1>4. Ordered'  BY <1>1 DEF IInv, Ordered, Before
<1>5. NothingLost'  BY <1>1 DEF IInv, NothingLost, Queued, Spent, Daemon!Spent
<1>6. InOrder(outbox)'  BY <1>1 DEF IInv, Journals, InOrder, Before
<1>7. \A q \in orphans' : Due(q)'
    BY <1>1 DEF IInv, Requests, Due, Before, Spent, Daemon!Spent
<1> QED BY <1>2, <1>3, <1>4, <1>5, <1>6, <1>7

\* Nothing but flush, tab and load has changed.
LEMMA LocalStep ==
    ASSUME IInv, Lasting, UNCHANGED <<dispatch, save>>, Flushes(flush)', Tabs', Loads(load)'
    PROVE  /\ Shape' /\ Receipts' /\ Ordered' /\ NothingLost' /\ Journals' /\ Recovered'
           /\ \A q \in orphans' : Due(q)'
<1>1. UNCHANGED <<revision, document, receipts, archive, outbox, orphans, dispatched, saved>>
    BY DEF Lasting, daemonVars, history
<1>2. Shape'  BY LastingStep DEF IInv, Shape, Dispatches, Saves
<1>3. Journals'  BY <1>1, LastingStep DEF IInv, Journals, InOrder, Before
<1>4. Recovered'  BY <1>1 DEF IInv, Recovered, Queued
<1> QED BY <1>2, <1>3, <1>4, LastingStep
-----------------------------------------------------------------------------
(* Steps of the flush *)

\* A flush that goes on and leaves the tab alone.
LEMMA FlushOnly ==
    ASSUME IInv, Lasting, UNCHANGED <<dispatch, save, tab, load>>, Flushes(flush)',
           flush.pc # "idle" \/ tab.hydration = "ready",
           flush'.pc = "publish" => flush.pc = "publish", Settled' => Settled,
           flush'.pc \in {"posted", "replied"} => flush'.sent # None /\ Due(flush.sent)',
           Flushing'
    PROVE  IInv'
<1>1. tab' = tab /\ load' = load /\ dispatch' = dispatch /\ save' = save
      /\ revision' = revision /\ archive' = archive /\ receipts' = receipts /\ outbox' = outbox
      /\ dispatched' = dispatched /\ saved' = saved
    BY DEF Lasting, daemonVars, history
<1>2. Tabs' /\ Loads(load)'  BY <1>1 DEF IInv, Shape, Tabs, Loads
<1>3. /\ Shape' /\ Receipts' /\ Ordered' /\ NothingLost' /\ Journals' /\ Recovered'
      /\ \A q \in orphans' : Due(q)'
    BY <1>2, LocalStep
<1>4. Requests'  BY <1>3 DEF Requests
<1>5. Exclusive'  BY <1>1 DEF IInv, Exclusive
<1>6. Hydrated'  BY <1>1 DEF IInv, Hydrated
<1>7. Showing'
    BY <1>1 DEF IInv, Showing, Archived, Covers, Queued
<1>8. Loading'
    BY <1>1 DEF IInv, Loading, Archived, Covers, Queued, IsBehind
<1> QED BY <1>3, <1>4, <1>5, <1>6, <1>7, <1>8 DEF IInv

\* What a flush knows does not depend on where it is.
LEMMA Knows ==
    ASSUME IInv, Lasting
    PROVE  /\ \A e \in Envelopes : Archived(e) /\ Covers(e) => Archived(e)' /\ Covers(e)'
           /\ \A q \in Entries : Due(q) => Due(q)'
<1>1. revision' = revision /\ archive' = archive /\ receipts' = receipts /\ outbox' = outbox
      /\ dispatched' = dispatched /\ saved' = saved
    BY DEF Lasting, daemonVars, history
<1>2. \A e \in Envelopes : Archived(e) /\ Covers(e) => Archived(e)' /\ Covers(e)'
    BY <1>1 DEF Archived, Covers, Queued
<1>3. \A q \in Entries : Due(q) => Due(q)'
    BY <1>1 DEF Due, Before, Spent, Daemon!Spent
<1> QED BY <1>2, <1>3

LEMMA FlushPostStep == ASSUME IInv, FlushPost PROVE IInv'
<1> USE DEF FlushPost
<1>1. Lasting /\ UNCHANGED <<dispatch, save, tab, load>>  BY DEF Lasting
<1>2. flush.pc = "list" /\ LockFree /\ Flushes(flush) /\ outbox \in Seq(Entries)
    BY DEF IInv, Shape
<1>3. save.pc # "acking"  BY <1>2 DEF LockFree
<1>4. CASE outbox = <<>>
    <2>1. flush' = [flush EXCEPT !.pc = "finish"]  BY <1>4
    <2>2. Flushes(flush)' /\ flush'.pc = "finish" /\ flush'.latest = flush.latest
        BY <1>2, <2>1 DEF Flushes, FlushSteps
    <2>3. flush.latest # None  BY <1>2, <1>3, <1>4 DEF IInv, Flushing
    <2>4. Flushing'
        BY <1>1, <1>2, <2>2, <2>3 DEF IInv, Flushing, Archived, Covers, Queued, Lasting, daemonVars, history
    <2>5. ~Settled'  BY <2>2 DEF Settled
    <2> QED BY <1>1, <1>2, <2>2, <2>4, <2>5, FlushOnly
<1>5. CASE outbox # <<>>
    <2>1. flush' = [flush EXCEPT !.pc = "posted", !.sent = Head(outbox)]  BY <1>5
    <2>2. Head(outbox) = outbox[1] /\ 1 \in DOMAIN outbox /\ outbox[1] \in Entries
        BY <1>2, <1>5
    <2>3. /\ Flushes(flush)' /\ flush'.pc = "posted" /\ flush'.latest = flush.latest
          /\ flush'.sent = outbox[1] /\ outbox[1] # None
        BY <1>2, <2>1, <2>2, EnvelopeIs DEF Flushes, FlushSteps
    <2>4. Due(outbox[1])
        <3>1. outbox[1].mutation \in ToSet(dispatched)
            BY <2>2 DEF IInv, Journals, InOrder
        <3>2. ASSUME NEW a \in Mutations, Before(a, outbox[1].mutation), a \notin Spent \cup saved
              PROVE  FALSE
            <4>1. a \in ToSet(dispatched)  BY <3>2 DEF Before, ToSet
            <4>2. a \in Queued  BY <3>2, <4>1 DEF IInv, NothingLost
            <4>3. PICK k \in DOMAIN outbox : outbox[k].mutation = a
                BY <4>2 DEF Queued, ToSet
            <4>4. k = 1 \/ 1 < k  BY <1>2, <4>3
            <4>5. PICK i, j \in DOMAIN dispatched :
                    i < j /\ dispatched[i] = a /\ dispatched[j] = outbox[1].mutation
                BY <3>2 DEF Before
            <4>6. k # 1 => \E p, q \in DOMAIN dispatched :
                    p < q /\ dispatched[p] = outbox[1].mutation /\ dispatched[q] = a
                BY <4>3, <4>4, <2>2 DEF IInv, Journals, InOrder, Before
            <4>7. \A p, q \in DOMAIN dispatched : dispatched[p] = dispatched[q] => p = q
                BY DEF IInv, Journals
            <4>8. DOMAIN dispatched \subseteq Nat  BY DEF IInv, Shape
            <4> QED BY <4>3, <4>5, <4>6, <4>7, <4>8
        <3> QED BY <3>1, <3>2 DEF Due
    <2>5. Due(flush.sent)'
        BY <1>1, <2>3, <2>4 DEF Due, Before, Spent, Daemon!Spent, Lasting, daemonVars, history
    <2>6. Flushing'
        BY <1>1, <1>2, <1>5, <2>3 DEF IInv, Flushing, Archived, Covers, Queued, Lasting, daemonVars, history
    <2>7. ~Settled'  BY <1>1, <1>5 DEF Settled, Lasting
    <2> QED BY <1>1, <1>2, <2>3, <2>5, <2>6, <2>7, FlushOnly
<1> QED BY <1>4, <1>5

LEMMA FlushStaleStep == ASSUME IInv, FlushStale PROVE IInv'
<1> USE DEF FlushStale
<1>1. Lasting /\ UNCHANGED <<dispatch, save, tab, load>>  BY DEF Lasting
<1>2. flush.pc = "replied" /\ Flushes(flush)  BY DEF IInv, Shape
<1>3. /\ Flushes(flush)' /\ flush'.pc \in {"conflict", "refetch"} /\ flush'.latest = flush.latest
    BY <1>2 DEF Flushes, FlushSteps, Unawaited
<1>4. Flushing'
    BY <1>1, <1>2, <1>3 DEF IInv, Flushing, Archived, Covers, Queued, Lasting, daemonVars, history
<1>5. Settled' => Settled  BY <1>1, <1>2 DEF Settled, Lasting
<1> QED BY <1>1, <1>2, <1>3, <1>4, <1>5, FlushOnly

LEMMA FlushRejectedStep == ASSUME IInv, FlushRejected PROVE IInv'
<1> USE DEF FlushRejected
<1>1. Lasting /\ UNCHANGED <<dispatch, save, tab, load>>  BY DEF Lasting
<1>2. flush.pc = "replied" /\ Flushes(flush)  BY DEF IInv, Shape
<1>3. /\ Flushes(flush)' /\ flush'.pc = "failed" /\ flush'.latest = flush.latest
    BY <1>2 DEF Flushes, FlushSteps, Unawaited
<1>4. Flushing'
    BY <1>1, <1>2, <1>3 DEF IInv, Flushing, Archived, Covers, Queued, Lasting, daemonVars, history
<1>5. Settled' => Settled  BY <1>1, <1>2 DEF Settled, Lasting
<1> QED BY <1>1, <1>2, <1>3, <1>4, <1>5, FlushOnly

LEMMA CurrentIs ==
    ASSUME IInv
    PROVE  Current \in Envelopes /\ Archived(Current) /\ Covers(Current)
<1>1. Current \in Envelopes /\ Archived(Current)
    BY DEF IInv, Shape, Daemons, Current, Envelopes, Archived
<1>2. Covers(Current)  BY DEF IInv, Receipts, Current, Covers
<1> QED BY <1>1, <1>2

LEMMA FlushRefetchStep == ASSUME IInv, FlushRefetch PROVE IInv'
<1> USE DEF FlushRefetch
<1>1. Lasting /\ UNCHANGED <<dispatch, save, tab, load>>  BY DEF Lasting
<1>2. flush.pc = "refetch" /\ Flushes(flush)  BY DEF IInv, Shape
<1>3. /\ Flushes(flush)' /\ flush'.pc = "rebase" /\ flush'.latest = Current /\ Current # None
    BY <1>2, CurrentIs, EnvelopeIs DEF Flushes, FlushSteps
<1>4. Archived(Current)' /\ Covers(Current)' /\ Current' = Current
    BY <1>1, CurrentIs
       DEF Archived, Covers, Queued, Lasting, daemonVars, history, Current
<1>5. Archived(flush.latest)' /\ Covers(flush.latest)'  BY <1>3, <1>4 DEF Archived, Covers
<1>6. Flushing'
    BY <1>1, <1>2, <1>3, <1>5 DEF IInv, Flushing, Lasting
<1>7. Settled' => Settled  BY <1>1, <1>2 DEF Settled, Lasting
<1> QED BY <1>1, <1>2, <1>3, <1>6, <1>7, FlushOnly

LEMMA FlushCheckStep == ASSUME IInv, FlushCheck PROVE IInv'
<1> USE DEF FlushCheck
<1>1. Lasting /\ UNCHANGED <<dispatch, save, tab, load>>  BY DEF Lasting
<1>2. flush.pc = "check" /\ Flushes(flush)  BY DEF IInv, Shape
<1>3. /\ Flushes(flush)' /\ flush'.pc \in {"end", "more"} /\ flush'.latest = flush.latest
    BY <1>2 DEF Flushes, FlushSteps
<1>4. Flushing'
    BY <1>1, <1>2, <1>3 DEF IInv, Flushing, Archived, Covers, Queued, Lasting, daemonVars, history
<1>5. Settled' => Settled  BY <1>1, <1>2 DEF Settled, Lasting
<1> QED BY <1>1, <1>2, <1>3, <1>4, <1>5, FlushOnly

LEMMA FlushMoreStep == ASSUME IInv, FlushMore PROVE IInv'
<1> USE DEF FlushMore
<1>1. Lasting /\ UNCHANGED <<dispatch, save, tab, load>>  BY DEF Lasting
<1>2. flush.pc = "more" /\ Flushes(flush)  BY DEF IInv, Shape
<1>3. Flushes(NewFlush) /\ NewFlush.pc = "start" /\ NewFlush.latest = None  BY <1>2, RequestedIs
<1>4. /\ Flushes(flush)' /\ flush'.pc \in {"end", "start"} /\ flush'.latest \in {None, flush.latest}
    BY <1>2, <1>3 DEF Flushes, FlushSteps
<1>5. Flushing'
    BY <1>1, <1>2, <1>4 DEF IInv, Flushing, Archived, Covers, Queued, Lasting, daemonVars, history
<1>6. Settled' => Settled  BY <1>1, <1>2 DEF Settled, Lasting
<1> QED BY <1>1, <1>2, <1>4, <1>5, <1>6, FlushOnly

LEMMA FlushCommandsStep == ASSUME IInv, FlushCommands PROVE IInv'
<1> USE DEF FlushCommands
<1>1. Lasting /\ UNCHANGED <<dispatch, save, tab, load>>  BY DEF Lasting
<1>2. Flushes(flush)  BY DEF IInv, Shape
<1>3. Flushes(Requested(flush))  BY <1>2, RequestedIs
<1>4. \/ flush.pc = "idle" /\ flush'.pc = "start" /\ flush'.latest = None
      \/ /\ flush.pc # "idle" /\ flush'.pc = flush.pc /\ flush'.latest = flush.latest
         /\ flush'.sent = flush.sent /\ flush'.reply = flush.reply
    BY <1>2, RequestedIs
<1>5. Flushing'
    BY <1>1, <1>2, <1>4 DEF IInv, Flushing, Archived, Covers, Queued, Lasting, daemonVars, history
<1>6. Settled' => Settled  BY <1>1, <1>2, <1>4 DEF Settled, Lasting
<1>7. flush'.pc \in {"posted", "replied"} => flush'.sent # None /\ Due(flush.sent)'
    BY <1>1, <1>4 DEF IInv, Requests, Due, Before, Spent, Daemon!Spent, Lasting, daemonVars, history
<1> QED BY <1>1, <1>2, <1>3, <1>4, <1>5, <1>6, <1>7, FlushOnly
-----------------------------------------------------------------------------
\* A step of the flush that changes what the tab shows.
LEMMA FlushAndTab ==
    ASSUME IInv, Lasting, UNCHANGED <<dispatch, save, load>>, Flushes(flush)', Tabs',
           tab.hydration = "ready", tab'.hydration = "ready",
           flush'.pc = "publish" => flush.pc = "publish" \/ LockFree,
           flush'.pc \in {"posted", "replied"} => flush'.sent # None /\ Due(flush.sent)',
           Flushing', Showing', Loading'
    PROVE  IInv'
<1>1. load' = load /\ dispatch' = dispatch /\ save' = save  OBVIOUS
<1>2. Loads(load)'  BY <1>1 DEF IInv, Shape, Loads
<1>3. /\ Shape' /\ Receipts' /\ Ordered' /\ NothingLost' /\ Journals' /\ Recovered'
      /\ \A q \in orphans' : Due(q)'
    BY <1>2, LocalStep
<1>4. Requests'  BY <1>3 DEF Requests
<1>5. Exclusive'  BY <1>1 DEF IInv, Exclusive, LockFree
<1>6. Hydrated'  BY <1>1 DEF IInv, Hydrated
<1> QED BY <1>3, <1>4, <1>5, <1>6 DEF IInv

\* The acknowledgements and the envelope of the tab stay.
LEMMA SameShown ==
    ASSUME IInv, Lasting, UNCHANGED <<save, load>>, Settled' => Settled,
           tab'.envelope = tab.envelope, tab'.acknowledged = tab.acknowledged
    PROVE  Showing' /\ Loading'
<1>1. load' = load /\ save' = save
      /\ revision' = revision /\ archive' = archive /\ receipts' = receipts /\ outbox' = outbox
      /\ dispatched' = dispatched /\ saved' = saved
    BY DEF Lasting, daemonVars, history
<1>2. Showing'
    BY <1>1 DEF IInv, Showing, Archived, Covers, Queued
<1>3. Loading'
    BY <1>1 DEF IInv, Loading, Archived, Covers, Queued, IsBehind
<1> QED BY <1>2, <1>3

LEMMA FlushStartStep == ASSUME IInv, FlushStart PROVE IInv'
<1> USE DEF FlushStart
<1>1. Lasting /\ UNCHANGED <<dispatch, save, load>>  BY DEF Lasting
<1>2. flush.pc = "start" /\ LockFree /\ Flushes(flush) /\ Tabs /\ tab.hydration = "ready"
    BY DEF IInv, Shape, Hydrated
<1>3. Tabs' /\ tab'.envelope = tab.envelope /\ tab'.acknowledged = tab.acknowledged
      /\ tab'.hydration = "ready"
    BY <1>2 DEF Tabs, Statuses
<1>4. /\ Flushes(flush)'
      /\ \/ outbox = <<>> /\ flush'.pc = "check" /\ flush'.latest = flush.latest
         \/ outbox # <<>> /\ flush'.pc = "list" /\ flush'.latest = None
    BY <1>2 DEF Flushes, FlushSteps
<1>5. Flushing'
    BY <1>1, <1>2, <1>4 DEF IInv, Flushing, Archived, Covers, Queued, Lasting, daemonVars, history
<1>6. Settled' => Settled  BY <1>1, <1>2 DEF Settled, Lasting
<1>7. Showing' /\ Loading'  BY <1>1, <1>3, <1>6, SameShown
<1> QED BY <1>1, <1>2, <1>3, <1>4, <1>5, <1>7, FlushAndTab

LEMMA RetryCommandsStep == ASSUME IInv, RetryCommands PROVE IInv'
<1> USE DEF RetryCommands
<1>1. Lasting /\ UNCHANGED <<dispatch, save, load>>  BY DEF Lasting
<1>2. Flushes(flush) /\ Tabs /\ tab.hydration = "ready"  BY DEF IInv, Shape
<1>3. Tabs' /\ tab'.envelope = tab.envelope /\ tab'.acknowledged = tab.acknowledged
      /\ tab'.hydration = "ready"
    BY <1>2 DEF Tabs, Statuses
<1>4. Flushes(flush)'  BY <1>2, RequestedIs
<1>5. \/ flush.pc = "idle" /\ flush'.pc = "start" /\ flush'.latest = None
      \/ /\ flush.pc # "idle" /\ flush'.pc = flush.pc /\ flush'.latest = flush.latest
         /\ flush'.sent = flush.sent /\ flush'.reply = flush.reply
    BY <1>2, RequestedIs
<1>6. Flushing'
    BY <1>1, <1>2, <1>3, <1>5 DEF IInv, Flushing, Archived, Covers, Queued, Lasting, daemonVars, history
<1>7. Settled' => Settled  BY <1>1, <1>2, <1>5 DEF Settled, Lasting
<1>8. Showing' /\ Loading'  BY <1>1, <1>3, <1>7, SameShown
<1>9. flush'.pc \in {"posted", "replied"} => flush'.sent # None /\ Due(flush.sent)'
    BY <1>1, <1>5 DEF IInv, Requests, Due, Before, Spent, Daemon!Spent, Lasting, daemonVars, history
<1> QED BY <1>1, <1>2, <1>3, <1>4, <1>5, <1>6, <1>8, <1>9, FlushAndTab

LEMMA FlushFailedStep == ASSUME IInv, FlushFailed PROVE IInv'
<1> USE DEF FlushFailed
<1>1. Lasting /\ UNCHANGED <<dispatch, save, load>>  BY DEF Lasting
<1>2. flush.pc = "failed" /\ LockFree /\ Flushes(flush) /\ Tabs /\ tab.hydration = "ready"
    BY DEF IInv, Shape, Hydrated
<1>3. Tabs' /\ tab'.envelope = tab.envelope /\ tab'.acknowledged = tab.acknowledged
      /\ tab'.hydration = "ready"
    BY <1>2 DEF Tabs, Statuses, Flushes
<1>4. Flushes(flush)' /\ flush'.pc = "check" /\ flush'.latest = flush.latest
    BY <1>2 DEF Flushes, FlushSteps
<1>5. Flushing'
    BY <1>1, <1>2, <1>4 DEF IInv, Flushing, Archived, Covers, Queued, Lasting, daemonVars, history
<1>6. Settled' => Settled  BY <1>1, <1>2 DEF Settled, Lasting
<1>7. Showing' /\ Loading'  BY <1>1, <1>3, <1>6, SameShown
<1> QED BY <1>1, <1>2, <1>3, <1>4, <1>5, <1>7, FlushAndTab

LEMMA FlushConflictStep == ASSUME IInv, FlushConflict PROVE IInv'
<1> USE DEF FlushConflict
<1>1. Lasting /\ UNCHANGED <<dispatch, save, load>>  BY DEF Lasting
<1>2. flush.pc = "conflict" /\ LockFree /\ Flushes(flush) /\ Tabs /\ tab.hydration = "ready"
    BY DEF IInv, Shape, Hydrated
<1>3. Tabs' /\ tab'.hydration = "ready" /\ tab'.acknowledged = tab.acknowledged
      /\ tab'.envelope = IF flush.latest = None THEN tab.envelope ELSE flush.latest
    BY <1>2 DEF Tabs, Statuses, Flushes
<1>4. Flushes(flush)' /\ flush'.pc = "check" /\ flush'.latest = flush.latest
    BY <1>2 DEF Flushes, FlushSteps
<1>5. Flushing'
    BY <1>1, <1>2, <1>4 DEF IInv, Flushing, Archived, Covers, Queued, Lasting, daemonVars, history
<1>6. outbox # <<>>  BY <1>2 DEF IInv, Flushing, LockFree
<1>7. ~Settled /\ ~Settled'  BY <1>1, <1>6 DEF Settled, Lasting
<1>8. Showing'
    BY <1>1, <1>3, <1>7 DEF IInv, Showing, Flushing, Archived, Lasting, daemonVars
<1>9. Loading'
    BY <1>1, <1>7 DEF IInv, Loading, Archived, Lasting, daemonVars
<1> QED BY <1>1, <1>2, <1>3, <1>4, <1>5, <1>8, <1>9, FlushAndTab

LEMMA FlushFinishStep == ASSUME IInv, FlushFinish PROVE IInv'
<1> USE DEF FlushFinish
<1>1. Lasting /\ UNCHANGED <<dispatch, save, load>>  BY DEF Lasting
<1>2. flush.pc = "finish" /\ LockFree /\ Flushes(flush) /\ Tabs /\ tab.hydration = "ready"
      /\ flush.latest # None
    BY DEF IInv, Shape, Hydrated, Flushing
<1>3. flush' = [flush EXCEPT !.pc = "publish", !.latest = flush.latest]
      /\ tab' = [tab EXCEPT !.acknowledged = flush.latest.revision]
    BY <1>2
<1>4. flush.latest \in Envelopes /\ flush.latest.revision \in Nat
    BY <1>2, EnvelopeIs DEF Flushes
<1>5. Tabs' /\ tab'.hydration = "ready" /\ tab'.envelope = tab.envelope
      /\ tab'.acknowledged = flush.latest.revision
    BY <1>2, <1>3, <1>4 DEF Tabs
<1>6. Flushes(flush)' /\ flush'.pc = "publish" /\ flush'.latest = flush.latest
    BY <1>2, <1>3 DEF Flushes, FlushSteps
<1>7. Flushing'
    BY <1>1, <1>2, <1>4, <1>5, <1>6
       DEF IInv, Flushing, Archived, Covers, Queued, Lasting, daemonVars, history
<1>8. ~Settled'  BY <1>6 DEF Settled
<1>9. Showing' /\ Loading'
    BY <1>1, <1>5, <1>8 DEF IInv, Showing, Loading, Archived, Lasting, daemonVars
<1> QED BY <1>1, <1>2, <1>5, <1>6, <1>7, <1>9, FlushAndTab

\* What a store shows after a replay.
LEMMA ShowIs ==
    ASSUME Tabs, NEW e \in Envelopes, NEW entries \in Seq(Entries), NEW n \in Nat, NEW t,
           t = [Show(e, Replay(e.document, entries), entries) EXCEPT !.acknowledged = n]
    PROVE  /\ t \in [hydration : {"idle", "loading", "ready", "error"}, status : Statuses,
                     conflict : BOOLEAN, fault : {"none", "lost", "rejected"},
                     envelope : Envelopes \cup {None}, shown : Documents, acknowledged : Nat]
           /\ t.hydration = "ready" /\ t.envelope = e /\ e # None /\ t.acknowledged = n
<1> DEFINE r == Replay(e.document, entries)
<1>1. e.document \in Documents /\ e # None  BY EnvelopeIs
<1>2. r \in Replays  BY <1>1, ReplayType
<1>3. r.document \in Documents /\ r.failed \in BOOLEAN  BY <1>2 DEF Replays
<1> HIDE DEF r
<1>4. t = [tab EXCEPT !.hydration = "ready", !.envelope = e, !.shown = r.document,
                      !.status = IF r.failed THEN "conflict"
                                 ELSE IF entries = <<>> THEN "saved" ELSE "pending",
                      !.conflict = r.failed, !.fault = "none", !.acknowledged = n]
    BY DEF Show, r, Tabs
<1> QED BY <1>1, <1>3, <1>4 DEF Tabs, Statuses

LEMMA FlushPublishStep == ASSUME IInv, FlushPublish PROVE IInv'
<1> USE DEF FlushPublish
<1>1. Lasting /\ UNCHANGED <<dispatch, save, load>>  BY DEF Lasting
<1>2. /\ flush.pc = "publish" /\ Flushes(flush) /\ Tabs /\ tab.hydration = "ready"
      /\ flush.latest # None /\ tab.acknowledged >= flush.latest.revision
      /\ Archived(flush.latest) /\ Covers(flush.latest) /\ outbox \in Seq(Entries)
    BY DEF IInv, Shape, Hydrated, Flushing
<1>3. flush.latest \in Envelopes /\ tab.acknowledged \in Nat  BY <1>2 DEF Flushes, Tabs
<1> DEFINE s == Show(flush.latest, Replay(flush.latest.document, outbox), outbox)
<1>4. tab' = [s EXCEPT !.acknowledged = tab.acknowledged]
    BY <1>2 DEF Show, Tabs
<1>5. Tabs' /\ tab'.hydration = "ready" /\ tab'.envelope = flush.latest
      /\ tab'.acknowledged = tab.acknowledged
    BY <1>2, <1>3, <1>4, ShowIs DEF Tabs
<1>6. Flushes(flush)' /\ flush'.pc = "check" /\ flush'.latest = flush.latest
    BY <1>2 DEF Flushes, FlushSteps
<1>7. Flushing'
    BY <1>1, <1>2, <1>6 DEF IInv, Flushing, Archived, Covers, Queued, Lasting, daemonVars, history
<1>8. Showing'
    BY <1>1, <1>2, <1>5 DEF Showing, Archived, Covers, Queued, Lasting, daemonVars, history
<1>9. Loading'
    <2>1. SUFFICES ASSUME load.pc = "fetching", load.envelope # None
                   PROVE  /\ Archived(load.envelope)'
                          /\ Settled' => Covers(load.envelope)' \/ IsBehind'
        BY <1>1 DEF Loading
    <2>2. Archived(load.envelope)'
        BY <1>1, <2>1 DEF IInv, Loading, Archived, Lasting, daemonVars
    <2>3. ASSUME Settled', ~Covers(load.envelope)' PROVE IsBehind'
        <3>1. PICK r \in receipts : /\ r.mutation \in ToSet(dispatched) \ saved
                                    /\ r.mutation \notin Queued
                                    /\ ~(r.revision <= load.envelope.revision)
            BY <1>1, <2>3 DEF Covers, Queued, Lasting, daemonVars, history
        <3>2. r.revision <= flush.latest.revision  BY <1>2, <3>1 DEF Covers
        <3>3. r.revision \in Nat  BY DEF IInv, Shape, Daemons
        <3>4. load.envelope \in Envelopes /\ load.background
            BY <1>2, <2>1, LoadIs DEF IInv, Shape, Hydrated
        <3>5. load.envelope.revision \in Nat /\ flush.latest.revision \in Nat
            BY <3>4, <1>3, EnvelopeIs
        <3>6. load.envelope.revision < tab.acknowledged
            BY <1>2, <1>3, <3>1, <3>2, <3>3, <3>5
        <3> QED BY <1>1, <1>5, <3>4, <3>6 DEF IsBehind
    <2> QED BY <2>2, <2>3
<1> QED BY <1>1, <1>2, <1>5, <1>6, <1>7, <1>8, <1>9, FlushAndTab
-----------------------------------------------------------------------------
\* A step of the flush that rewrites the outbox and goes on with its head.
LEMMA OutboxStep ==
    ASSUME IInv, UNCHANGED <<daemonVars, dispatch, load, save, orphans, history>>, LockFree,
           Flushes(flush)', Tabs', tab.hydration = "ready", tab'.hydration = "ready",
           tab'.envelope = tab.envelope, outbox' \in Seq(Entries), InOrder(outbox)', NothingLost',
           flush'.pc = "list", flush'.latest # None,
           Archived(flush.latest)', Covers(flush.latest)'
    PROVE  IInv'
<1>1. /\ revision' = revision /\ document' = document /\ archive' = archive
      /\ receipts' = receipts /\ dispatched' = dispatched /\ saved' = saved
      /\ dispatch' = dispatch /\ load' = load /\ save' = save /\ orphans' = orphans
    BY DEF daemonVars, history
<1>2. save.pc # "acking"  BY DEF LockFree
<1>3. Shape'  BY <1>1 DEF IInv, Shape, Daemons, Dispatches, Loads, Saves
<1>4. Receipts'  BY <1>1 DEF IInv, Receipts
<1>5. Journals'  BY <1>1 DEF IInv, Journals, InOrder, Before
<1>6. Requests'  BY <1>1 DEF IInv, Requests, Due, Before, Spent, Daemon!Spent
<1>7. Ordered'  BY <1>1 DEF IInv, Ordered, Before
<1>8. Exclusive'  BY <1>1 DEF IInv, Exclusive
<1>9. Hydrated'  BY <1>1 DEF IInv, Hydrated
<1>10. Recovered'  BY <1>1, <1>2 DEF IInv, Recovered
<1>11. Flushing'  BY <1>1 DEF Flushing
<1>12. Showing' /\ Loading'
    BY <1>1 DEF IInv, Showing, Loading, Settled, Archived
<1> QED BY <1>3, <1>4, <1>5, <1>6, <1>7, <1>8, <1>9, <1>10, <1>11, <1>12 DEF IInv

\* An acknowledgement takes one entry and leaves the order of the others.
LEMMA AckedJournal ==
    ASSUME NEW s \in Seq(Entries), NEW m, InOrder(s)
    PROVE  /\ Acked(s, m) \in Seq(Entries) /\ InOrder(Acked(s, m))
           /\ ToSet(Acked(s, m)) \subseteq ToSet(s)
           /\ \A e \in ToSet(s) : e.mutation # m => e \in ToSet(Acked(s, m))
<1>1. CASE ~ \E i \in DOMAIN s : s[i].mutation = m
    <2>1. Acked(s, m) = s  BY <1>1 DEF Acked, RemoveFirstMatch
    <2> QED BY <2>1
<1>2. CASE \E i \in DOMAIN s : s[i].mutation = m
    <2> DEFINE t == Acked(s, m)
    <2>1. PICK k \in DOMAIN s :
             /\ s[k].mutation = m
             /\ t \in Seq(Entries) /\ Len(t) = Len(s) - 1
             /\ \A j \in 1..Len(s) - 1 : t[j] = s[IF j < k THEN j ELSE j + 1]
        BY <1>2, AckedIs
    <2> HIDE DEF t
    <2>2. /\ Len(s) \in Nat /\ DOMAIN s = 1..Len(s) /\ DOMAIN t = 1..Len(s) - 1 /\ k \in 1..Len(s)
        BY <2>1
    <2>3. InOrder(t)
        <3>1. ASSUME NEW j \in DOMAIN t
              PROVE  /\ (IF j < k THEN j ELSE j + 1) \in DOMAIN s
                     /\ t[j] = s[IF j < k THEN j ELSE j + 1]
            BY <2>1, <2>2
        <3>2. ASSUME NEW i \in DOMAIN t, NEW j \in DOMAIN t, i < j
              PROVE  (IF i < k THEN i ELSE i + 1) < (IF j < k THEN j ELSE j + 1)
            BY <2>2, <3>2
        <3>3. \A i \in DOMAIN t : t[i].mutation \in ToSet(dispatched)
            BY <3>1 DEF InOrder
        <3>4. ASSUME NEW i \in DOMAIN t, NEW j \in DOMAIN t, i < j
              PROVE  Before(t[i].mutation, t[j].mutation)
            BY <3>1, <3>2, <3>4, Zenon DEF InOrder
        <3> QED BY <3>3, <3>4 DEF InOrder
    <2>4. ToSet(t) \subseteq ToSet(s)
        BY <2>1, <2>2 DEF ToSet
    <2>5. ASSUME NEW e \in ToSet(s), e.mutation # m PROVE e \in ToSet(t)
        <3>1. PICK i \in 1..Len(s) : s[i] = e  BY <2>2 DEF ToSet
        <3>2. i # k  BY <2>1, <2>5, <3>1
        <3>3. CASE i < k  BY <2>1, <2>2, <3>1, <3>3 DEF ToSet
        <3>4. CASE i > k
            <4>1. i - 1 \in 1..Len(s) - 1 /\ ~(i - 1 < k) /\ (i - 1) + 1 = i  BY <2>2, <3>4
            <4>2. t[i - 1] = s[i]  BY <2>1, <4>1
            <4> QED BY <2>2, <3>1, <4>1, <4>2 DEF ToSet
        <3> QED BY <2>2, <3>2, <3>3, <3>4
    <2> QED BY <2>1, <2>3, <2>4, <2>5 DEF t
<1> QED BY <1>1, <1>2

LEMMA FlushAckStep == ASSUME IInv, FlushAck PROVE IInv'
<1> USE DEF FlushAck
<1> DEFINE m == flush.sent.mutation
<1>1. UNCHANGED <<daemonVars, dispatch, load, save, orphans, history>>  OBVIOUS
<1>2. /\ revision' = revision /\ archive' = archive
      /\ receipts' = receipts /\ dispatched' = dispatched /\ saved' = saved
    BY DEF daemonVars, history
<1>3. /\ flush.pc = "replied" /\ flush.reply.kind = "ok" /\ LockFree
      /\ Flushes(flush) /\ Tabs /\ tab.hydration = "ready"
      /\ outbox \in Seq(Entries) /\ InOrder(outbox) /\ flush.reply \in Replies
      /\ Archived(flush.reply.envelope) /\ Covers(flush.reply.envelope)
    BY DEF IInv, Shape, Hydrated, Journals, Flushing
<1>4. PICK r \in receipts : r.mutation = m /\ r.revision <= flush.reply.envelope.revision
    BY <1>3 DEF IInv, Flushing
<1>5. outbox' = Acked(outbox, m)  BY DEF Acked
<1> DEFINE t == Acked(outbox, m)
<1> HIDE DEF m
<1>15. /\ t \in Seq(Entries) /\ InOrder(t)
      /\ \A e \in ToSet(outbox) : e.mutation # m => e \in ToSet(t)
    BY <1>3, AckedJournal
<1> HIDE DEF t
<1>6. outbox' \in Seq(Entries) /\ \A e \in ToSet(outbox) : e.mutation # m => e \in ToSet(outbox')
    BY <1>5, <1>15 DEF t
<1>7. InOrder(outbox)'
    <2>1. outbox' = t  BY <1>5 DEF t
    <2>2. \A i \in DOMAIN outbox' : outbox'[i].mutation \in ToSet(dispatched')
        BY <1>2, <1>15, <2>1 DEF InOrder
    <2>3. ASSUME NEW i \in DOMAIN outbox', NEW j \in DOMAIN outbox', i < j
          PROVE  Before(outbox[i].mutation, outbox[j].mutation)'
        <3>1. PICK p, q \in DOMAIN dispatched :
                p < q /\ dispatched[p] = t[i].mutation /\ dispatched[q] = t[j].mutation
            <4>1. i \in DOMAIN t /\ j \in DOMAIN t  BY <2>1, <2>3, Zenon
            <4>2. Before(t[i].mutation, t[j].mutation)  BY <1>15, <2>3, <4>1, Zenon DEF InOrder
            <4> QED BY <4>2 DEF Before
        <3> QED BY <3>1, <2>1, <1>2, Zenon DEF Before
    <2> QED BY <2>2, <2>3, Zenon DEF InOrder
<1>8. Queued \subseteq Queued' \cup {m}  BY <1>6 DEF Queued
<1>9. NothingLost'
    <2>1. m \in Spent  BY <1>4 DEF Spent, Daemon!Spent
    <2> QED BY <1>2, <1>8, <2>1 DEF IInv, NothingLost, Spent, Daemon!Spent
<1>10. Tabs' /\ tab'.hydration = "ready" /\ tab'.envelope = tab.envelope
    BY <1>3 DEF Tabs
<1>11. flush.reply.envelope \in Envelopes /\ flush.reply.envelope # None
    BY <1>3, EnvelopeIs DEF Flushes, Replies
<1>12. Flushes(flush)' /\ flush'.pc = "list" /\ flush'.latest = flush.reply.envelope
    BY <1>3, <1>11 DEF Flushes, FlushSteps, Unawaited
<1>13. Archived(flush.latest)'  BY <1>2, <1>3, <1>12 DEF Archived
<1>14. Covers(flush.latest)'
    <2>1. ASSUME NEW q \in receipts, q.mutation \in ToSet(dispatched) \ saved, q.mutation \notin Queued'
          PROVE  q.revision <= flush.reply.envelope.revision
        <3>1. CASE q.mutation = m  BY <1>4, <3>1 DEF IInv, Receipts
        <3>2. CASE q.mutation # m  BY <1>3, <1>8, <2>1, <3>2 DEF Covers
        <3> QED BY <3>1, <3>2
    <2> QED BY <1>2, <1>12, <2>1 DEF Covers
<1> QED BY <1>1, <1>3, <1>6, <1>7, <1>9, <1>10, <1>11, <1>12, <1>13, <1>14, OutboxStep

LEMMA FlushRebaseStep == ASSUME IInv, FlushRebase PROVE IInv'
<1> USE DEF FlushRebase
<1>1. UNCHANGED <<daemonVars, dispatch, load, save, orphans, history>>  OBVIOUS
<1>2. /\ revision' = revision /\ archive' = archive
      /\ receipts' = receipts /\ dispatched' = dispatched /\ saved' = saved
    BY DEF daemonVars, history
<1>3. /\ flush.pc = "rebase" /\ LockFree
      /\ Flushes(flush) /\ Tabs /\ tab.hydration = "ready"
      /\ outbox \in Seq(Entries) /\ InOrder(outbox) /\ flush.latest # None
      /\ Archived(flush.latest) /\ Covers(flush.latest)
    BY DEF IInv, Shape, Hydrated, Journals, Flushing
<1>4. flush.latest \in Envelopes /\ flush.latest.revision \in Nat  BY <1>3, EnvelopeIs DEF Flushes
<1> DEFINE n == flush.latest.revision
<1>5. /\ outbox' \in Seq(Entries) /\ DOMAIN outbox' = DOMAIN outbox
      /\ \A i \in DOMAIN outbox : outbox'[i].mutation = outbox[i].mutation
    <2>1. outbox' = [i \in 1..Len(outbox) |-> [outbox[i] EXCEPT !.base = n + i - 1]]
        BY <1>3 DEF Rebased
    <2>2. ASSUME NEW i \in 1..Len(outbox)
          PROVE  /\ [outbox[i] EXCEPT !.base = n + i - 1] \in Entries
                 /\ [outbox[i] EXCEPT !.base = n + i - 1].mutation = outbox[i].mutation
        <3>1. outbox[i] \in Entries /\ n + i - 1 \in Nat  BY <1>3, <1>4
        <3> QED BY <3>1 DEF Entries
    <2>3. Len(outbox) \in Nat /\ DOMAIN outbox = 1..Len(outbox)  BY <1>3
    <2>4. \A i \in 1..Len(outbox) : outbox'[i] = [outbox[i] EXCEPT !.base = n + i - 1]
        BY <2>1, Zenon
    <2>5. DOMAIN outbox' = 1..Len(outbox)  BY <2>1, Zenon
    <2>6. \A i \in 1..Len(outbox) : outbox'[i] \in Entries /\ outbox'[i].mutation = outbox[i].mutation
        BY <2>2, <2>4, Zenon
    <2>7. outbox' \in Seq(Entries)
        <3> DEFINE f(i) == [outbox[i] EXCEPT !.base = n + i - 1]
        <3>1. \A i \in 1..Len(outbox) : f(i) \in Entries  BY <2>2
        <3>2. outbox' = [i \in 1..Len(outbox) |-> f(i)]  BY <2>1
        <3> HIDE DEF f
        <3> QED BY <2>3, <3>1, <3>2
    <2> QED BY <2>3, <2>5, <2>6, <2>7
<1>6. InOrder(outbox)'  BY <1>2, <1>3, <1>5 DEF InOrder, Before
<1>7. Queued' = Queued  BY <1>5 DEF Queued, ToSet
<1>8. NothingLost'  BY <1>2, <1>7 DEF IInv, NothingLost, Spent, Daemon!Spent
<1>9. Tabs' /\ tab'.hydration = "ready" /\ tab'.envelope = tab.envelope
    BY <1>3, <1>4 DEF Tabs
<1>10. Flushes(flush)' /\ flush'.pc = "list" /\ flush'.latest = flush.latest
    BY <1>3 DEF Flushes, FlushSteps
<1>11. Archived(flush.latest)' /\ Covers(flush.latest)'
    BY <1>2, <1>3, <1>7, <1>10 DEF Archived, Covers
<1> QED BY <1>1, <1>3, <1>5, <1>6, <1>8, <1>9, <1>10, <1>11, OutboxStep
-----------------------------------------------------------------------------
\* What lasts when the page goes, and what a request that is given up leaves.
LEMMA OrphanStep ==
    ASSUME IInv, UNCHANGED <<daemonVars, outbox, history>>,
           orphans' = orphans \/ Orphan(flush.sent)
    PROVE  /\ Daemons' /\ Receipts' /\ Ordered' /\ NothingLost' /\ InOrder(outbox)'
           /\ \A q \in orphans' : Due(q)'
           /\ outbox' \in Seq(Entries) /\ orphans' \subseteq Entries
           /\ dispatched' \in Seq(Mutations) /\ saved' \subseteq Mutations
<1>1. UNCHANGED <<revision, document, receipts, archive, outbox, dispatched, saved>>
    BY DEF daemonVars, history
<1>2. Daemons' /\ outbox' \in Seq(Entries)
      /\ dispatched' \in Seq(Mutations) /\ saved' \subseteq Mutations
    BY <1>1 DEF IInv, Shape, Daemons
<1>3. Receipts'  BY <1>1 DEF IInv, Receipts
<1>4. Ordered'  BY <1>1 DEF IInv, Ordered, Before
<1>5. NothingLost'  BY <1>1 DEF IInv, NothingLost, Queued, Spent, Daemon!Spent
<1>6. InOrder(outbox)'  BY <1>1 DEF IInv, Journals, InOrder, Before
<1>7. \A q \in orphans' : q \in Entries /\ Due(q)
    <2>1. \A q \in orphans : q \in Entries /\ Due(q)  BY DEF IInv, Shape, Requests
    <2>2. CASE orphans' = orphans  BY <2>1, <2>2
    <2>3. CASE Orphan(flush.sent)
        <3>1. flush.pc = "posted" /\ orphans' = orphans \cup {flush.sent}  BY <2>3 DEF Orphan
        <3>2. flush.sent \in Entries /\ Due(flush.sent)
            BY <3>1 DEF IInv, Shape, Flushes, Requests
        <3> QED BY <2>1, <3>1, <3>2
    <2> QED BY <2>2, <2>3
<1>8. \A q \in orphans' : Due(q)'
    BY <1>1, <1>7 DEF Due, Before, Spent, Daemon!Spent
<1> QED BY <1>2, <1>3, <1>4, <1>5, <1>6, <1>7, <1>8

LEMMA FlushLostStep == ASSUME IInv, FlushLost PROVE IInv'
<1> USE DEF FlushLost
<1>1. tab' = tab /\ load' = load /\ dispatch' = dispatch /\ save' = save
      /\ revision' = revision /\ archive' = archive /\ receipts' = receipts /\ outbox' = outbox
      /\ dispatched' = dispatched /\ saved' = saved
    BY DEF daemonVars, history
<1>2. /\ Daemons' /\ Receipts' /\ Ordered' /\ NothingLost' /\ InOrder(outbox)'
      /\ \A q \in orphans' : Due(q)'
      /\ outbox' \in Seq(Entries) /\ orphans' \subseteq Entries
      /\ dispatched' \in Seq(Mutations) /\ saved' \subseteq Mutations
    BY OrphanStep
<1>3. flush.pc \in {"posted", "replied", "refetch", "rebase"} /\ Flushes(flush)
    BY DEF IInv, Shape
<1>4. Flushes(flush)' /\ flush'.pc = "failed" /\ flush'.latest = flush.latest
    BY <1>3 DEF Flushes, FlushSteps, Unawaited
<1>5. Shape'
    BY <1>1, <1>2, <1>4 DEF IInv, Shape, Tabs, Dispatches, Loads, Saves
<1>6. Journals'  BY <1>1, <1>2 DEF IInv, Journals, InOrder, Before
<1>7. Requests'  BY <1>2, <1>4 DEF Requests
<1>8. Exclusive'  BY <1>1, <1>4 DEF IInv, Exclusive
<1>9. Hydrated'  BY <1>1, <1>3 DEF IInv, Hydrated
<1>10. Recovered'  BY <1>1 DEF IInv, Recovered, Queued
<1>11. Flushing'  BY <1>1, <1>4 DEF IInv, Flushing, Archived, Covers, Queued
<1>12. Settled' => Settled  BY <1>1, <1>3 DEF Settled
<1>13. Showing'  BY <1>1, <1>12 DEF IInv, Showing, Archived, Covers, Queued
<1>14. Loading'  BY <1>1, <1>12 DEF IInv, Loading, Archived, Covers, Queued, IsBehind
<1> QED BY <1>2, <1>5, <1>6, <1>7, <1>8, <1>9, <1>10, <1>11, <1>13, <1>14 DEF IInv

LEMMA FlushEndStep == ASSUME IInv, FlushEnd PROVE IInv'
<1> USE DEF FlushEnd
<1>1. Lasting /\ UNCHANGED <<dispatch, save, tab>>  BY DEF Lasting
<1>2. flush.pc = "end" /\ Flushes(flush) /\ Tabs /\ tab.hydration = "ready" /\ Loads(load)
    BY DEF IInv, Shape, Hydrated
<1>3. Flushes(flush)' /\ flush'.pc \in {"idle", "start"} /\ flush'.latest = None
    BY <1>2, RequestedIs
<1>4. Loads(load)' /\ (load'.pc = "fetching" => load' = load)
    <2>1. CASE load.pc = "wait"
        <3>1. load' = [load EXCEPT !.pc = "go"]  BY <2>1
        <3>2. load \in [pc : {"go", "wait"}, requested : BOOLEAN]  BY <1>2, <2>1, LoadIs
        <3> QED BY <3>1, <3>2 DEF Loads
    <2>2. CASE load.pc # "wait"  BY <1>2, <2>2 DEF Loads
    <2> QED BY <2>1, <2>2
<1>5. Tabs'  BY <1>1, <1>2 DEF Tabs
<1>6. /\ Shape' /\ Receipts' /\ Ordered' /\ NothingLost' /\ Journals' /\ Recovered'
      /\ \A q \in orphans' : Due(q)'
    BY <1>1, <1>3, <1>4, <1>5, LocalStep
<1>7. Requests'  BY <1>3, <1>6 DEF Requests
<1>8. Exclusive'  BY <1>1, <1>3 DEF IInv, Exclusive
<1>9. Hydrated'  BY <1>1, <1>2, <1>4 DEF IInv, Hydrated
<1>10. Flushing'  BY <1>3 DEF Flushing
<1>11. Settled' => Settled  BY <1>1, <1>2 DEF Settled, Lasting
<1>12. Showing'
    BY <1>1, <1>11 DEF IInv, Showing, Archived, Covers, Queued, Lasting, daemonVars, history
<1>13. Loading'
    BY <1>1, <1>4, <1>11
       DEF IInv, Loading, Archived, Covers, Queued, IsBehind, Lasting, daemonVars, history
<1> QED BY <1>6, <1>7, <1>8, <1>9, <1>10, <1>12, <1>13 DEF IInv

\* The page goes; its outbox and what it had sent stay.
LEMMA ClosePageStep == ASSUME IInv, ClosePage PROVE IInv'
<1> USE DEF ClosePage
<1>1. revision' = revision /\ archive' = archive /\ receipts' = receipts /\ outbox' = outbox
      /\ dispatched' = dispatched /\ saved' = saved
    BY DEF daemonVars, history
<1>2. /\ Daemons' /\ Receipts' /\ Ordered' /\ NothingLost' /\ InOrder(outbox)'
      /\ \A q \in orphans' : Due(q)'
      /\ outbox' \in Seq(Entries) /\ orphans' \subseteq Entries
      /\ dispatched' \in Seq(Mutations) /\ saved' \subseteq Mutations
    BY OrphanStep
<1>3. EmptyDocument \in Documents  BY ReducerAssumption
<1>4. Tabs' /\ tab'.hydration = "idle" /\ tab'.envelope = None
    BY <1>3 DEF Tabs, NewTab, Statuses
<1>5. Flushes(flush)' /\ flush'.pc = "idle" /\ flush'.latest = None
    BY DEF Flushes, FlushSteps, NoFlush
<1>6. Dispatches(dispatch)' /\ dispatch'.pc = "idle"  BY DEF Dispatches, NoDispatch
<1>7. Loads(load)' /\ load'.pc = "idle"  BY DEF Loads, NoLoad
<1>8. Saves(save)' /\ save'.pc = "idle"  BY DEF Saves, NoSave
<1>9. Shape'  BY <1>2, <1>4, <1>5, <1>6, <1>7, <1>8 DEF Shape
<1>10. Journals'  BY <1>1, <1>2, <1>6, <1>8 DEF IInv, Journals
<1>11. Requests'  BY <1>2, <1>5 DEF Requests
<1>12. Exclusive' /\ Hydrated' /\ Recovered'
    BY <1>5, <1>6, <1>7, <1>8 DEF Exclusive, Hydrated, Recovered
<1>13. Flushing' /\ Showing' /\ Loading'
    BY <1>4, <1>5, <1>7 DEF Flushing, Showing, Loading
<1> QED BY <1>2, <1>9, <1>10, <1>11, <1>12, <1>13 DEF IInv
-----------------------------------------------------------------------------
(* Steps of the save of a conflict *)

\* A step that leaves the outbox and the branches alone.
LEMMA SaveOnly ==
    ASSUME IInv, Lasting, UNCHANGED <<tab, dispatch, flush, load>>, Saves(save)',
           save'.pc # "idle" => InOrder(save.entries)',
           save'.pc = "acking" => save.pc = "acking" \/ LockFree,
           save'.pc # "acking" => save.pc # "acking",
           Recovered'
    PROVE  IInv'
<1>1. tab' = tab /\ load' = load /\ dispatch' = dispatch /\ flush' = flush
      /\ revision' = revision /\ archive' = archive /\ receipts' = receipts /\ outbox' = outbox
      /\ orphans' = orphans /\ dispatched' = dispatched /\ saved' = saved
    BY DEF Lasting, daemonVars, history
<1>2. Shape'
    BY <1>1, LastingStep DEF IInv, Shape, Dispatches, Tabs, Loads, Flushes
<1>3. Journals'  BY <1>1, LastingStep DEF IInv, Journals
<1>4. Requests'
    BY <1>1, LastingStep DEF IInv, Requests, Due, Before, Spent, Daemon!Spent, Lasting, daemonVars
<1>5. Exclusive'  BY <1>1 DEF IInv, Exclusive, LockFree
<1>6. Hydrated'  BY <1>1 DEF IInv, Hydrated
<1>7. Flushing'  BY <1>1 DEF IInv, Flushing, Archived, Covers, Queued
<1>8. Settled' => Settled  BY <1>1 DEF Settled
<1>9. Showing'  BY <1>1, <1>8 DEF IInv, Showing, Archived, Covers, Queued
<1>10. Loading'  BY <1>1, <1>8 DEF IInv, Loading, Archived, Covers, Queued, IsBehind
<1> QED BY <1>2, <1>3, <1>4, <1>5, <1>6, <1>7, <1>9, <1>10, LastingStep DEF IInv

LEMMA SaveStartStep == ASSUME IInv, SaveStart PROVE IInv'
<1> USE DEF SaveStart
<1>1. Lasting /\ UNCHANGED <<tab, dispatch, flush, load>>  BY DEF Lasting
<1>2. save.pc = "idle" /\ outbox # <<>> /\ outbox \in Seq(Entries) /\ InOrder(outbox)
    BY DEF IInv, Shape, Journals
<1>3. save'.pc = "posted" /\ save'.entries = outbox  OBVIOUS
<1>4. Saves(save)'  BY <1>2 DEF Saves
<1>5. InOrder(save.entries)'
    BY <1>1, <1>2, <1>3 DEF InOrder, Before, Lasting, history
<1>6. Recovered'  BY <1>2, <1>3 DEF Recovered
<1> QED BY <1>1, <1>2, <1>3, <1>4, <1>5, <1>6, SaveOnly

LEMMA SaveFailsStep == ASSUME IInv, SaveFails PROVE IInv'
<1> USE DEF SaveFails
<1>1. Lasting /\ UNCHANGED <<tab, dispatch, flush, load>>  BY DEF Lasting
<1>2. save.pc \in {"posted", "replied"} /\ save'.pc = "idle" /\ Saves(save)'
    BY DEF NoSave, Saves
<1>3. Recovered'  BY <1>2 DEF Recovered
<1> QED BY <1>1, <1>2, <1>3, SaveOnly

LEMMA SaveCheckStep == ASSUME IInv, SaveCheck PROVE IInv'
<1> USE DEF SaveCheck
<1>1. Lasting /\ UNCHANGED <<tab, dispatch, flush, load>>  BY DEF Lasting
<1>2. /\ save.pc = "replied" /\ LockFree /\ outbox \in Seq(Entries)
      /\ save \in [pc : {"posted", "replied", "acking"}, entries : Seq(Entries)]
      /\ InOrder(save.entries) /\ save.entries # <<>>
      /\ \A e \in ToSet(save.entries) : e.mutation \in saved
    BY SaveIs DEF IInv, Shape, Journals, Recovered
<1>3. CASE Ids(outbox) = Ids(save.entries)
    <2>1. save' = [save EXCEPT !.pc = "acking"]  BY <1>3
    <2>2. Saves(save)' /\ save'.pc = "acking" /\ save'.entries = save.entries
        BY <1>2, <2>1 DEF Saves
    <2>3. InOrder(save.entries)'
        BY <1>1, <1>2, <2>2 DEF InOrder, Before, Lasting, history
    <2>4. Queued \subseteq {e.mutation : e \in ToSet(save.entries)}
        <3>1. ASSUME NEW i \in DOMAIN outbox
              PROVE  i \in DOMAIN save.entries /\ save.entries[i].mutation = outbox[i].mutation
            <4>1. DOMAIN Ids(outbox) = DOMAIN outbox /\ DOMAIN Ids(save.entries) = DOMAIN save.entries
                BY DEF Ids
            <4>2. i \in DOMAIN save.entries  BY <1>3, <3>1, <4>1
            <4>3. Ids(outbox)[i] = outbox[i].mutation  BY <3>1 DEF Ids
            <4>4. Ids(save.entries)[i] = save.entries[i].mutation  BY <4>2 DEF Ids
            <4> QED BY <1>3, <4>2, <4>3, <4>4
        <3> QED BY <3>1 DEF Queued, ToSet
    <2>5. Recovered'
        <3>1. Queued' = Queued /\ saved' = saved  BY <1>1 DEF Queued, Lasting, history
        <3> QED BY <1>2, <2>2, <2>4, <3>1 DEF Recovered
    <2> QED BY <1>1, <1>2, <2>2, <2>3, <2>5, SaveOnly
<1>4. CASE Ids(outbox) # Ids(save.entries)
    <2>1. save'.pc = "idle" /\ Saves(save)'  BY <1>4 DEF NoSave, Saves
    <2>2. Recovered'  BY <2>1 DEF Recovered
    <2> QED BY <1>1, <1>2, <2>1, <2>2, SaveOnly
<1> QED BY <1>3, <1>4

\* The branch is written: what it holds is safe.
LEMMA SaveServeStep == ASSUME IInv, SaveServe PROVE IInv'
<1> USE DEF SaveServe
<1>1. tab' = tab /\ load' = load /\ dispatch' = dispatch /\ flush' = flush
      /\ revision' = revision /\ archive' = archive /\ receipts' = receipts /\ outbox' = outbox
      /\ orphans' = orphans /\ dispatched' = dispatched /\ document' = document
    BY DEF daemonVars
<1>2. /\ save.pc = "posted"
      /\ save \in [pc : {"posted", "replied", "acking"}, entries : Seq(Entries)]
      /\ InOrder(save.entries) /\ save.entries # <<>>
    BY SaveIs DEF IInv, Shape, Journals, Recovered
<1>3. Saves(save)' /\ save'.pc = "replied" /\ save'.entries = save.entries
    BY <1>2 DEF Saves
<1>4. saved \subseteq saved' /\ \A e \in ToSet(save.entries) : e.mutation \in saved'
    OBVIOUS
<1>5. saved' \subseteq Mutations
    <2>1. \A e \in ToSet(save.entries) : e \in Entries  BY <1>2 DEF ToSet
    <2>2. \A e \in ToSet(save.entries) : e.mutation \in Mutations  BY <2>1, EnvelopeIs
    <2> QED BY <2>2 DEF IInv, Shape
<1>6. Shape'
    BY <1>1, <1>3, <1>5 DEF IInv, Shape, Daemons, Dispatches, Tabs, Loads, Flushes
<1>7. Receipts'  BY <1>1 DEF IInv, Receipts
<1>8. InOrder(outbox)' /\ InOrder(save.entries)'
    BY <1>1, <1>2, <1>3 DEF IInv, Journals, InOrder, Before
<1>9. Journals'  BY <1>1, <1>8 DEF IInv, Journals
<1>10. Requests'
    BY <1>1, <1>4 DEF IInv, Requests, Due, Before, Spent, Daemon!Spent
<1>11. Ordered'  BY <1>1, <1>4 DEF IInv, Ordered, Before
<1>12. Exclusive'  BY <1>1, <1>2, <1>3 DEF IInv, Exclusive
<1>13. Hydrated'  BY <1>1 DEF IInv, Hydrated
<1>14. Recovered'  BY <1>2, <1>3, <1>4 DEF Recovered
<1>15. Flushing'
    BY <1>1, <1>2, <1>4 DEF IInv, Flushing, Archived, Covers, Queued
<1>16. Settled' => Settled  BY <1>1, <1>2 DEF Settled
<1>17. Showing'  BY <1>1, <1>4, <1>16 DEF IInv, Showing, Archived, Covers, Queued
<1>18. Loading'  BY <1>1, <1>4, <1>16 DEF IInv, Loading, Archived, Covers, Queued, IsBehind
<1>19. NothingLost'
    BY <1>1, <1>4 DEF IInv, NothingLost, Queued, Spent, Daemon!Spent
<1> QED BY <1>6, <1>7, <1>9, <1>10, <1>11, <1>12, <1>13, <1>14, <1>15, <1>17, <1>18, <1>19 DEF IInv
-----------------------------------------------------------------------------
\* An acknowledgement of the save rewrites the outbox.
LEMMA SaveOutbox ==
    ASSUME IInv, UNCHANGED <<daemonVars, tab, dispatch, flush, load, orphans, history>>,
           save.pc = "acking", Saves(save)', Recovered',
           save'.pc = "acking" \/ (save'.pc = "idle" /\ outbox' # <<>>),
           save'.pc # "idle" => save' = save,
           outbox' \in Seq(Entries), InOrder(outbox)',
           Queued \subseteq Queued' \cup saved
    PROVE  IInv'
<1>1. tab' = tab /\ load' = load /\ dispatch' = dispatch /\ flush' = flush
      /\ revision' = revision /\ archive' = archive /\ receipts' = receipts
      /\ orphans' = orphans /\ dispatched' = dispatched /\ saved' = saved /\ document' = document
    BY DEF daemonVars, history
<1>2. Shape'
    BY <1>1 DEF IInv, Shape, Daemons, Dispatches, Tabs, Loads, Flushes
<1>3. Receipts'  BY <1>1 DEF IInv, Receipts
<1>4. Journals'  BY <1>1 DEF IInv, Journals, InOrder, Before
<1>5. Requests'  BY <1>1 DEF IInv, Requests, Due, Before, Spent, Daemon!Spent
<1>6. Ordered'  BY <1>1 DEF IInv, Ordered, Before
<1>7. Exclusive'  BY <1>1 DEF IInv, Exclusive
<1>8. Hydrated'  BY <1>1 DEF IInv, Hydrated
<1>9. Flushing'
    BY <1>1 DEF IInv, Flushing, Archived, Covers
<1>10. ~Settled'  BY DEF Settled
<1>11. Showing'  BY <1>1, <1>10 DEF IInv, Showing, Archived
<1>12. Loading'  BY <1>1, <1>10 DEF IInv, Loading, Archived
<1>13. NothingLost'  BY <1>1 DEF IInv, NothingLost, Spent, Daemon!Spent
<1> QED BY <1>2, <1>3, <1>4, <1>5, <1>6, <1>7, <1>8, <1>9, <1>11, <1>12, <1>13 DEF IInv

LEMMA SaveAckStep == ASSUME IInv, SaveAck PROVE IInv'
<1> USE DEF SaveAck
<1>1. /\ save.pc = "acking" /\ outbox # <<>> /\ outbox \in Seq(Entries) /\ InOrder(outbox)
      /\ Queued \subseteq {e.mutation : e \in ToSet(save.entries)}
      /\ \A e \in ToSet(save.entries) : e.mutation \in saved
    BY DEF IInv, Shape, Journals, Recovered
<1>2. save' = save /\ saved' = saved /\ dispatched' = dispatched  BY DEF history
<1>3. Saves(save)'  BY <1>2 DEF IInv, Shape, Saves
<1>4. /\ outbox' \in Seq(Entries) /\ Len(outbox') = Len(outbox) - 1
      /\ \A i \in 1..Len(outbox) - 1 : outbox'[i] = outbox[i + 1]
    BY <1>1
<1>5. Len(outbox) \in Nat /\ DOMAIN outbox = 1..Len(outbox) /\ DOMAIN outbox' = 1..Len(outbox) - 1
    BY <1>1, <1>4
<1>6. \A i \in DOMAIN outbox' : i + 1 \in DOMAIN outbox /\ outbox'[i] = outbox[i + 1]
    BY <1>4, <1>5
<1>7. Queued' \subseteq Queued  BY <1>6 DEF Queued, ToSet
<1>8. InOrder(outbox)'
    <2>1. \A i \in DOMAIN outbox' : outbox'[i].mutation \in ToSet(dispatched')
        BY <1>1, <1>2, <1>6 DEF InOrder
    <2>2. ASSUME NEW i \in DOMAIN outbox', NEW j \in DOMAIN outbox', i < j
          PROVE  Before(outbox[i].mutation, outbox[j].mutation)'
        <3>1. i + 1 \in DOMAIN outbox /\ j + 1 \in DOMAIN outbox /\ i + 1 < j + 1
            BY <1>5, <1>6, <2>2
        <3>2. Before(outbox[i + 1].mutation, outbox[j + 1].mutation)
            BY <1>1, <3>1 DEF InOrder
        <3> QED BY <1>2, <1>6, <3>2 DEF Before
    <2> QED BY <2>1, <2>2, Zenon DEF InOrder
<1>9. Recovered'  BY <1>1, <1>2, <1>7 DEF IInv, Recovered
<1>10. Queued \subseteq Queued' \cup saved  BY <1>1
<1>11. UNCHANGED <<daemonVars, tab, dispatch, flush, load, orphans, history>>  OBVIOUS
<1>12. save.pc = "acking" /\ save'.pc = "acking"  BY <1>1, <1>2
<1>13. outbox' \in Seq(Entries)  BY <1>4
<1>14. save'.pc # "idle" => save' = save  BY <1>2
<1> QED BY <1>3, <1>8, <1>9, <1>10, <1>11, <1>12, <1>13, <1>14, SaveOutbox

LEMMA SaveAckFailsStep == ASSUME IInv, SaveAckFails PROVE IInv'
<1> USE DEF SaveAckFails
<1>1. /\ save.pc = "acking" /\ save.entries \in Seq(Entries) /\ InOrder(save.entries)
      /\ save.entries # <<>>
      /\ Queued \subseteq {e.mutation : e \in ToSet(save.entries)}
    BY SaveIs DEF IInv, Shape, Journals, Recovered
<1>2. save'.pc = "idle" /\ dispatched' = dispatched  BY DEF NoSave, history
<1>3. Saves(save)' /\ Recovered'  BY <1>2 DEF Saves, NoSave, Recovered
<1>4. InOrder(outbox)'  BY <1>1, <1>2 DEF InOrder, Before
<1>5. Queued \subseteq Queued'  BY <1>1 DEF Queued
<1> QED BY <1>1, <1>2, <1>3, <1>4, <1>5, SaveOutbox
-----------------------------------------------------------------------------
(* Steps of a dispatch *)

\* A dispatch that goes on and leaves everything else alone.
LEMMA DispatchOnly ==
    ASSUME IInv, Lasting, UNCHANGED <<tab, flush, load, save>>, Dispatches(dispatch)',
           dispatch'.pc = "locked" => dispatch'.mutation \notin ToSet(dispatched),
           dispatch'.pc = "computed" => dispatch'.entry.mutation \notin ToSet(dispatched),
           dispatch'.pc # "idle" => dispatch.pc # "idle" \/ (LockFree /\ tab.hydration = "ready"),
           dispatch'.pc = "enqueued" => dispatch.pc = "enqueued"
    PROVE  IInv'
<1>1. tab' = tab /\ load' = load /\ flush' = flush /\ save' = save
      /\ revision' = revision /\ archive' = archive /\ receipts' = receipts /\ outbox' = outbox
      /\ orphans' = orphans /\ dispatched' = dispatched /\ saved' = saved
    BY DEF Lasting, daemonVars, history
<1>2. Shape'
    BY <1>1, LastingStep DEF IInv, Shape, Saves, Tabs, Loads, Flushes
<1>3. Journals'  BY <1>1, LastingStep DEF IInv, Journals, InOrder, Before
<1>4. Requests'
    BY <1>1, LastingStep DEF IInv, Requests, Due, Before, Spent, Daemon!Spent, Lasting, daemonVars
<1>5. Exclusive'
    BY <1>1 DEF IInv, Exclusive, LockFree, Shape, Dispatches
<1>6. Hydrated'  BY <1>1 DEF IInv, Hydrated
<1>7. Recovered'  BY <1>1 DEF IInv, Recovered, Queued
<1>8. Flushing'  BY <1>1 DEF IInv, Flushing, Archived, Covers, Queued
<1>9. Showing'  BY <1>1 DEF IInv, Showing, Settled, Archived, Covers, Queued
<1>10. Loading'  BY <1>1 DEF IInv, Loading, Settled, Archived, Covers, Queued, IsBehind
<1> QED BY <1>2, <1>3, <1>4, <1>5, <1>6, <1>7, <1>8, <1>9, <1>10, LastingStep DEF IInv

LEMMA DispatchStartStep ==
    ASSUME IInv, NEW m \in Mutations, NEW c \in Commands, DispatchStart(m, c)
    PROVE  IInv'
<1> USE DEF DispatchStart
<1>1. Lasting /\ UNCHANGED <<tab, flush, load, save>>  BY DEF Lasting
<1>2. LockFree /\ tab.hydration = "ready" /\ m \notin ToSet(dispatched)  BY DEF CanDispatch
<1>3. Dispatches(dispatch)'  BY DEF Dispatches
<1> QED BY <1>1, <1>2, <1>3, DispatchOnly

LEMMA DispatchComputeStep == ASSUME IInv, DispatchCompute PROVE IInv'
<1> USE DEF DispatchCompute
<1> DEFINE next == Apply(tab.shown, dispatch.command)
           base == tab.acknowledged + Len(outbox)
           e == [mutation |-> dispatch.mutation, command |-> dispatch.command,
                 base |-> base, initial |-> base]
<1>1. Lasting /\ UNCHANGED <<tab, flush, load, save>>  BY DEF Lasting
<1>2. /\ dispatch.pc = "locked" /\ dispatch.mutation \in Mutations /\ dispatch.command \in Commands
      /\ dispatch.mutation \notin ToSet(dispatched)
      /\ tab.shown \in Documents /\ tab.acknowledged \in Nat /\ outbox \in Seq(Entries)
    BY DispatchIs DEF IInv, Shape, Journals, Tabs
<1>3. next \in Documents \cup {Rejected}  BY <1>2, ApplyType
<1>4. e \in Entries /\ e.mutation = dispatch.mutation  BY <1>2 DEF Entries
<1>5. dispatch' = IF next = Rejected THEN NoDispatch
                  ELSE [pc |-> "computed", next |-> next, entry |-> e]
    OBVIOUS
<1> HIDE DEF next, e
<1>6. CASE next = Rejected
    <2>1. Dispatches(dispatch)' /\ dispatch'.pc = "idle"  BY <1>5, <1>6 DEF Dispatches, NoDispatch
    <2> QED BY <1>1, <2>1, DispatchOnly
<1>7. CASE next # Rejected
    <2>1. Dispatches(dispatch)' /\ dispatch'.pc = "computed" /\ dispatch'.entry = e
        BY <1>3, <1>4, <1>5, <1>7 DEF Dispatches
    <2>2. dispatch'.entry.mutation \notin ToSet(dispatched)  BY <1>2, <1>4, <2>1
    <2> QED BY <1>1, <1>2, <2>1, <2>2, DispatchOnly
<1> QED BY <1>6, <1>7

LEMMA DispatchFailsStep == ASSUME IInv, DispatchFails PROVE IInv'
<1> USE DEF DispatchFails
<1>1. Lasting /\ UNCHANGED <<tab, flush, load, save>>  BY DEF Lasting
<1>2. Dispatches(dispatch)' /\ dispatch'.pc = "idle"  BY DEF Dispatches, NoDispatch
<1> QED BY <1>1, <1>2, DispatchOnly

LEMMA DispatchPublishStep == ASSUME IInv, DispatchPublish PROVE IInv'
<1> USE DEF DispatchPublish
<1>1. Lasting /\ UNCHANGED <<load, save>>  BY DEF Lasting
<1>2. load' = load /\ save' = save
      /\ revision' = revision /\ archive' = archive /\ receipts' = receipts /\ outbox' = outbox
      /\ orphans' = orphans /\ dispatched' = dispatched /\ saved' = saved
    BY <1>1 DEF Lasting, daemonVars, history
<1>3. /\ dispatch.pc = "enqueued" /\ dispatch.next \in Documents
      /\ Tabs /\ Flushes(flush) /\ tab.hydration = "ready"
    BY DispatchIs DEF IInv, Shape, Hydrated
<1>4. Tabs' /\ tab'.envelope = tab.envelope /\ tab'.acknowledged = tab.acknowledged
      /\ tab'.hydration = "ready"
    BY <1>3 DEF Tabs, Statuses
<1>5. Flushes(flush)'  BY <1>3, RequestedIs
<1>6. \/ flush.pc = "idle" /\ flush'.pc = "start" /\ flush'.latest = None
      \/ /\ flush.pc # "idle" /\ flush'.pc = flush.pc /\ flush'.latest = flush.latest
         /\ flush'.sent = flush.sent /\ flush'.reply = flush.reply
    BY <1>3, RequestedIs
<1>7. Dispatches(dispatch)' /\ dispatch'.pc = "idle"  BY DEF Dispatches, NoDispatch
<1>8. Shape'
    BY <1>2, <1>4, <1>5, <1>7, LastingStep, <1>1 DEF IInv, Shape, Saves, Loads
<1>9. Journals'  BY <1>1, <1>2, <1>7, LastingStep DEF IInv, Journals, InOrder, Before
<1>10. Requests'
    <2>1. \A q \in orphans' : Due(q)'  BY <1>1, LastingStep
    <2>2. flush'.pc \in {"posted", "replied"} => flush'.sent # None /\ Due(flush.sent)'
        BY <1>2, <1>6 DEF IInv, Requests, Due, Before, Spent, Daemon!Spent
    <2> QED BY <2>1, <2>2 DEF Requests
<1>11. Exclusive'  BY <1>2, <1>6, <1>7 DEF IInv, Exclusive
<1>12. Hydrated'  BY <1>2, <1>3, <1>4 DEF IInv, Hydrated
<1>13. Recovered'  BY <1>2 DEF IInv, Recovered, Queued
<1>14. Flushing'
    BY <1>2, <1>4, <1>6 DEF IInv, Flushing, Archived, Covers, Queued
<1>15. Settled' => Settled  BY <1>2, <1>6 DEF Settled
<1>16. Showing' /\ Loading'  BY <1>1, <1>4, <1>15, SameShown
<1> QED BY <1>1, <1>8, <1>9, <1>10, <1>11, <1>12, <1>13, <1>14, <1>16, LastingStep DEF IInv
-----------------------------------------------------------------------------
\* The entry is durable and the last of the journal.
LEMMA DispatchEnqueueStep == ASSUME IInv, DispatchEnqueue PROVE IInv'
<1> USE DEF DispatchEnqueue, Enqueue
<1>0. PICK e \in Entries, m \in Mutations :
        /\ e = dispatch.entry /\ m = e.mutation /\ dispatch.pc = "computed"
    BY DispatchIs, EnvelopeIs DEF IInv, Shape
<1>1. /\ dispatch.next \in Documents /\ m \notin ToSet(dispatched)
      /\ outbox \in Seq(Entries) /\ dispatched \in Seq(Mutations)
    BY <1>0, DispatchIs DEF IInv, Shape, Journals
<1>2. /\ dispatch'.pc = "enqueued"
      /\ tab' = tab /\ load' = load /\ flush' = flush /\ save' = save
      /\ revision' = revision /\ document' = document /\ archive' = archive
      /\ receipts' = receipts /\ orphans' = orphans /\ saved' = saved
      /\ dispatch' = [pc |-> "enqueued", next |-> dispatch.next]
    BY DEF daemonVars
<1>3. outbox' = Append(outbox, e) /\ dispatched' = Append(dispatched, m)  BY <1>0
<1> HIDE DEF DispatchEnqueue, Enqueue
<1> DEFINE n == Len(outbox)
           k == Len(dispatched)
<1>4. /\ n \in Nat /\ DOMAIN outbox = 1..n /\ DOMAIN outbox' = 1..n + 1
      /\ outbox' \in Seq(Entries) /\ outbox'[n + 1] = e
      /\ \A i \in 1..n : outbox'[i] = outbox[i]
    BY <1>1, <1>3
<1>5. /\ k \in Nat /\ DOMAIN dispatched = 1..k /\ DOMAIN dispatched' = 1..k + 1
      /\ dispatched' \in Seq(Mutations) /\ dispatched'[k + 1] = m
      /\ \A i \in 1..k : dispatched'[i] = dispatched[i]
    BY <1>1, <1>3
<1> HIDE DEF n, k
<1>6. ToSet(dispatched') = ToSet(dispatched) \cup {m}
    <2>1. \A i \in 1..k + 1 : i \in 1..k \/ i = k + 1  BY <1>5
    <2>2. 1..k \subseteq 1..k + 1 /\ k + 1 \in 1..k + 1  BY <1>5
    <2> QED BY <2>1, <2>2, <1>5 DEF ToSet
<1>7. ToSet(outbox') = ToSet(outbox) \cup {e}
    <2>1. \A i \in 1..n + 1 : i \in 1..n \/ i = n + 1  BY <1>4
    <2>2. 1..n \subseteq 1..n + 1 /\ n + 1 \in 1..n + 1  BY <1>4
    <2> QED BY <2>1, <2>2, <1>4 DEF ToSet
<1>8. Queued' = Queued \cup {m}  BY <1>0, <1>7 DEF Queued
<1>9. ASSUME NEW a, NEW b
      PROVE  /\ Before(a, b) => Before(a, b)'
             /\ b # m /\ Before(a, b)' => Before(a, b)
             /\ a \in ToSet(dispatched) => Before(a, m)'
    <2>1. Before(a, b) => Before(a, b)'
        <3>1. 1..k \subseteq 1..k + 1  BY <1>5
        <3> QED BY <3>1, <1>5 DEF Before
    <2>2. ASSUME b # m, Before(a, b)' PROVE Before(a, b)
        <3>1. PICK i, j \in 1..k + 1 : i < j /\ dispatched'[i] = a /\ dispatched'[j] = b
            BY <2>2, <1>5 DEF Before
        <3>2. j # k + 1  BY <2>2, <3>1, <1>5
        <3>3. i \in 1..k /\ j \in 1..k  BY <3>1, <3>2, <1>5
        <3>4. dispatched[i] = a /\ dispatched[j] = b  BY <3>1, <3>3, <1>5
        <3> QED BY <3>1, <3>3, <3>4, <1>5 DEF Before
    <2>3. ASSUME a \in ToSet(dispatched) PROVE Before(a, m)'
        <3>1. PICK i \in 1..k : dispatched[i] = a  BY <2>3, <1>5 DEF ToSet
        <3>2. i \in 1..k + 1 /\ k + 1 \in 1..k + 1 /\ i < k + 1  BY <3>1, <1>5
        <3>3. dispatched'[i] = a /\ dispatched'[k + 1] = m  BY <3>1, <1>5
        <3> QED BY <3>2, <3>3, <1>5 DEF Before
    <2> QED BY <2>1, <2>2, <2>3
<1>10. \A r \in receipts : r.mutation # m
    BY <1>0, <1>1 DEF IInv, Receipts
<1>11. Shape'
    <2>1. Dispatches(dispatch)'  BY <1>1, <1>2 DEF Dispatches
    <2> QED BY <2>1, <1>2, <1>4, <1>5 DEF IInv, Shape, Daemons, Saves, Tabs, Loads, Flushes
<1>12. Receipts'  BY <1>2, <1>6 DEF IInv, Receipts
<1>13. InOrder(outbox)'
    <2>1. InOrder(outbox)  BY DEF IInv, Journals
    <2>2. \A i \in DOMAIN outbox' : outbox'[i].mutation \in ToSet(dispatched')
        <3>1. \A i \in 1..n : outbox[i].mutation \in ToSet(dispatched)  BY <2>1, <1>4 DEF InOrder
        <3>2. \A i \in 1..n + 1 : i \in 1..n \/ i = n + 1  BY <1>4
        <3> QED BY <3>1, <3>2, <1>0, <1>4, <1>6
    <2>3. ASSUME NEW i \in DOMAIN outbox', NEW j \in DOMAIN outbox', i < j
          PROVE  Before(outbox[i].mutation, outbox[j].mutation)'
        <3>1. i \in 1..n /\ (j \in 1..n \/ j = n + 1)  BY <2>3, <1>4
        <3>2. outbox'[i] = outbox[i] /\ outbox[i].mutation \in ToSet(dispatched)
            BY <3>1, <2>1, <1>4 DEF InOrder
        <3>3. CASE j \in 1..n
            <4>1. outbox'[j] = outbox[j]  BY <3>3, <1>4
            <4>2. Before(outbox[i].mutation, outbox[j].mutation)
                BY <2>1, <2>3, <3>1, <3>3, <1>4, Zenon DEF InOrder
            <4>3. Before(outbox'[i].mutation, outbox'[j].mutation)  BY <3>2, <4>1, <4>2
            <4>4. PICK p, q \in 1..k :
                    p < q /\ dispatched[p] = outbox'[i].mutation /\ dispatched[q] = outbox'[j].mutation
                BY <4>3, <1>5 DEF Before
            <4>5. p \in 1..k + 1 /\ q \in 1..k + 1
                  /\ dispatched'[p] = dispatched[p] /\ dispatched'[q] = dispatched[q]
                BY <4>4, <1>5
            <4> QED BY <4>4, <4>5, <1>5, Zenon DEF Before
        <3>4. CASE j = n + 1
            <4>1. PICK p \in 1..k : dispatched[p] = outbox[i].mutation  BY <3>2, <1>5 DEF ToSet
            <4>2. p \in 1..k + 1 /\ k + 1 \in 1..k + 1 /\ p < k + 1  BY <4>1, <1>5
            <4>3. dispatched'[p] = outbox'[i].mutation  BY <4>1, <3>2, <1>5
            <4>4. dispatched'[k + 1] = outbox'[j].mutation  BY <3>4, <1>0, <1>4, <1>5
            <4> QED BY <4>2, <4>3, <4>4, <1>5, Zenon DEF Before
        <3> QED BY <3>1, <3>3, <3>4
    <2> QED BY <2>2, <2>3, Zenon DEF InOrder
<1>14. Journals'
    <2>1. \A i, j \in DOMAIN dispatched' : dispatched'[i] = dispatched'[j] => i = j
        <3>1. \A i, j \in 1..k : dispatched[i] = dispatched[j] => i = j
            BY <1>5 DEF IInv, Journals
        <3>2. \A i \in 1..k : dispatched[i] # m  BY <1>1, <1>5 DEF ToSet
        <3>3. \A i \in 1..k + 1 : i \in 1..k \/ i = k + 1  BY <1>5
        <3> QED BY <3>1, <3>2, <3>3, <1>5
    <2>2. save'.pc # "idle" => InOrder(save.entries)'
        <3>1. SUFFICES ASSUME save.pc # "idle" PROVE InOrder(save.entries)'  BY <1>2
        <3>2. InOrder(save.entries) /\ save'.entries = save.entries
            BY <1>2, <3>1 DEF IInv, Journals
        <3>3. \A i \in DOMAIN save'.entries : save'.entries[i].mutation \in ToSet(dispatched')
            BY <3>2, <1>6 DEF InOrder
        <3>4. ASSUME NEW i \in DOMAIN save'.entries, NEW j \in DOMAIN save'.entries, i < j
              PROVE  Before(save.entries[i].mutation, save.entries[j].mutation)'
            <4>1. Before(save'.entries[i].mutation, save'.entries[j].mutation)
                BY <3>2, <3>4, Zenon DEF InOrder
            <4>2. PICK p, q \in 1..k : /\ p < q /\ dispatched[p] = save'.entries[i].mutation
                                      /\ dispatched[q] = save'.entries[j].mutation
                BY <4>1, <1>5 DEF Before
            <4>3. p \in 1..k + 1 /\ q \in 1..k + 1
                  /\ dispatched'[p] = dispatched[p] /\ dispatched'[q] = dispatched[q]
                BY <4>2, <1>5
            <4> QED BY <4>2, <4>3, <1>5, Zenon DEF Before
        <3> QED BY <3>3, <3>4, Zenon DEF InOrder
    <2> QED BY <2>1, <2>2, <1>2, <1>13 DEF Journals
<1>15. ASSUME NEW q \in Entries, Due(q) PROVE Due(q)'
    <2>1. q.mutation \in ToSet(dispatched) /\ q.mutation # m  BY <1>1, <1>15 DEF Due
    <2>2. ASSUME NEW a \in Mutations, Before(a, q.mutation)' PROVE a \in (Spent \cup saved)'
        <3>1. Before(a, q.mutation)  BY <2>1, <2>2, <1>9
        <3> QED BY <3>1, <1>2, <1>15 DEF Due, Spent, Daemon!Spent
    <2>3. q.mutation \in ToSet(dispatched')  BY <2>1, <1>6
    <2> QED BY <2>2, <2>3 DEF Due
<1>16. Requests'
    <2>1. \A q \in orphans' : Due(q)'  BY <1>2, <1>15 DEF IInv, Shape, Requests
    <2>2. flush.pc \in {"posted", "replied"} => flush.sent \in Entries /\ flush.sent # None /\ Due(flush.sent)
        BY DEF IInv, Shape, Flushes, Requests
    <2>3. flush.pc \in {"posted", "replied"} => Due(flush.sent)'
        <3>1. PICK q : q = flush.sent  OBVIOUS
        <3>2. flush.pc \in {"posted", "replied"} => Due(q)'  BY <2>2, <3>1, <1>15
        <3>3. flush'.sent = q  BY <3>1, <1>2
        <3> QED BY <3>2, <3>3 DEF Due
    <2> QED BY <2>1, <2>2, <2>3, <1>2 DEF Requests
<1>17. Ordered'
    <2>1. ASSUME NEW a \in Mutations, NEW b \in Mutations, Before(a, b)', a \notin saved,
                 NEW r \in receipts, r.mutation = b
          PROVE  \E s \in receipts : s.mutation = a /\ s.revision < r.revision
        <3>1. b # m  BY <2>1, <1>10
        <3>2. Before(a, b)  BY <2>1, <3>1, <1>9
        <3> QED BY <2>1, <3>2 DEF IInv, Ordered
    <2> QED BY <2>1, <1>2 DEF Ordered
<1>18. Exclusive'  BY <1>0, <1>2 DEF IInv, Exclusive
<1>19. save.pc # "acking"  BY <1>0 DEF IInv, Exclusive
<1>20. Hydrated'  BY <1>0, <1>2 DEF IInv, Hydrated
<1>21. Recovered'  BY <1>2, <1>19 DEF IInv, Recovered
<1>22. \A x : Covers(x) => Covers(x)'
    BY <1>2, <1>6, <1>8, <1>10 DEF Covers
<1>23. outbox' # <<>>  BY <1>4
<1>24. Flushing'
    <2>1. flush.latest # None => Covers(flush.latest)'
        <3>1. PICK x : x = flush.latest  OBVIOUS
        <3>2. flush.latest # None => Covers(x)  BY <3>1 DEF IInv, Flushing
        <3>3. flush'.latest = x  BY <3>1, <1>2
        <3> QED BY <3>2, <3>3, <1>22 DEF Covers
    <2>2. flush.pc = "replied" => Covers(flush.reply.envelope)'
        <3>1. PICK x : x = flush.reply.envelope  OBVIOUS
        <3>2. flush.pc = "replied" => Covers(x)  BY <3>1 DEF IInv, Flushing
        <3>3. flush'.reply.envelope = x  BY <3>1, <1>2
        <3> QED BY <3>2, <3>3, <1>22 DEF Covers
    <2> QED BY <2>1, <2>2, <1>2, <1>23 DEF IInv, Flushing, Archived
<1>25. ~Settled'  BY <1>23 DEF Settled
<1>26. Showing' /\ Loading'  BY <1>2, <1>25 DEF IInv, Showing, Loading, Archived
<1>27. NothingLost'
    BY <1>2, <1>6, <1>8 DEF IInv, NothingLost, Spent, Daemon!Spent
<1> QED BY <1>11, <1>12, <1>14, <1>16, <1>17, <1>18, <1>20, <1>21, <1>24, <1>26, <1>27 DEF IInv
-----------------------------------------------------------------------------
(* Steps of a load *)

\* A load that goes on and leaves everything else alone.
LEMMA LoadOnly ==
    ASSUME IInv, Lasting, UNCHANGED <<tab, dispatch, flush, save>>, Loads(load)',
           load'.pc = "fetching" => (load'.background <=> tab.hydration = "ready"),
           Loading'
    PROVE  IInv'
<1>1. tab' = tab /\ dispatch' = dispatch /\ flush' = flush /\ save' = save
      /\ revision' = revision /\ archive' = archive /\ receipts' = receipts /\ outbox' = outbox
      /\ dispatched' = dispatched /\ saved' = saved
    BY DEF Lasting, daemonVars, history
<1>2. Tabs' /\ Flushes(flush)'  BY <1>1 DEF IInv, Shape, Tabs, Flushes
<1>3. /\ Shape' /\ Receipts' /\ Ordered' /\ NothingLost' /\ Journals' /\ Recovered'
      /\ \A q \in orphans' : Due(q)'
    BY <1>2, LocalStep
<1>4. Requests'
    BY <1>1, <1>3 DEF IInv, Requests, Due, Before, Spent, Daemon!Spent
<1>5. Exclusive'  BY <1>1 DEF IInv, Exclusive
<1>6. Hydrated'  BY <1>1 DEF IInv, Hydrated
<1>7. Flushing'  BY <1>1 DEF IInv, Flushing, Archived, Covers, Queued
<1>8. Showing'
    BY <1>1 DEF IInv, Showing, Settled, Archived, Covers, Queued
<1> QED BY <1>3, <1>4, <1>5, <1>6, <1>7, <1>8 DEF IInv

LEMMA NextLoadIs ==
    ASSUME Loads(load), load.pc = "fetching", NEW f
    PROVE  Loads(NextLoad(f)) /\ NextLoad(f).pc # "fetching"
<1>1. load.requested \in BOOLEAN  BY LoadIs
<1>2. CASE load.requested
    <2>1. NextLoad(f) = [pc |-> IF f.pc = "idle" THEN "go" ELSE "wait", requested |-> FALSE]
        BY <1>2 DEF NextLoad
    <2>2. NextLoad(f) \in [pc : {"go", "wait"}, requested : BOOLEAN]  BY <2>1
    <2> QED BY <2>1, <2>2 DEF Loads
<1>3. CASE ~load.requested
    <2>1. NextLoad(f) = NoLoad  BY <1>3 DEF NextLoad
    <2>2. NoLoad \in [pc : {"idle"}] /\ NoLoad.pc = "idle"  BY DEF NoLoad
    <2> QED BY <2>1, <2>2 DEF Loads
<1> QED BY <1>1, <1>2, <1>3

LEMMA ReloadStep == ASSUME IInv, Reload PROVE IInv'
<1> USE DEF Reload
<1>1. Lasting /\ UNCHANGED <<tab, dispatch, flush, save>>  BY DEF Lasting
<1>2. Loads(load)  BY DEF IInv, Shape
<1>3. CASE load.pc = "idle"
    <2>1. load' = [pc |-> IF flush.pc = "idle" THEN "go" ELSE "wait", requested |-> FALSE]
        BY <1>3
    <2>2. Loads(load)' /\ load'.pc # "fetching"
        <3>1. load' \in [pc : {"go", "wait"}, requested : BOOLEAN]  BY <2>1
        <3> QED BY <3>1 DEF Loads
    <2> QED BY <1>1, <2>2, LoadOnly DEF Loading
<1>4. CASE load.pc \in {"go", "wait"}
    <2>1. load' = [load EXCEPT !.requested = TRUE]  BY <1>4
    <2>2. load' \in [pc : {"go", "wait"}, requested : BOOLEAN]  BY <1>2, <1>4, <2>1, LoadIs
    <2>3. Loads(load)' /\ load'.pc # "fetching"  BY <2>2 DEF Loads
    <2> QED BY <1>1, <2>3, LoadOnly DEF Loading
<1>5. CASE load.pc = "fetching"
    <2>1. load' = [load EXCEPT !.requested = TRUE]  BY <1>5
    <2>2. load \in [pc : {"fetching"}, requested : BOOLEAN, background : BOOLEAN,
                    envelope : Envelopes \cup {None}, entries : Seq(Entries) \cup {None}]
        BY <1>2, <1>5, LoadIs
    <2>3. load' \in [pc : {"fetching"}, requested : BOOLEAN, background : BOOLEAN,
                     envelope : Envelopes \cup {None}, entries : Seq(Entries) \cup {None}]
        BY <2>1, <2>2
    <2>4. /\ Loads(load)' /\ load'.pc = "fetching"
          /\ load'.background = load.background /\ load'.envelope = load.envelope
        BY <2>1, <2>2, <2>3 DEF Loads
    <2>5. Loading'
        BY <1>1, <1>5, <2>4
           DEF IInv, Loading, Settled, Archived, Covers, Queued, IsBehind, Lasting, daemonVars, history
    <2>6. load'.background <=> tab.hydration = "ready"  BY <1>5, <2>4 DEF IInv, Hydrated
    <2> QED BY <1>1, <2>4, <2>5, <2>6, LoadOnly
<1> QED BY <1>2, <1>3, <1>4, <1>5, LoadIs

LEMMA LoadFetchStep == ASSUME IInv, LoadFetch PROVE IInv'
<1> USE DEF LoadFetch
<1>1. Lasting /\ UNCHANGED <<tab, dispatch, flush, save>>  BY DEF Lasting
<1>2. load.pc = "fetching" /\ Loads(load)  BY DEF IInv, Shape
<1>3. load \in [pc : {"fetching"}, requested : BOOLEAN, background : BOOLEAN,
                envelope : Envelopes \cup {None}, entries : Seq(Entries) \cup {None}]
    BY <1>2, LoadIs
<1>4. Current \in Envelopes /\ Archived(Current) /\ Covers(Current)  BY CurrentIs
<1>5. load' \in [pc : {"fetching"}, requested : BOOLEAN, background : BOOLEAN,
                 envelope : Envelopes \cup {None}, entries : Seq(Entries) \cup {None}]
    BY <1>3, <1>4
<1>6. /\ Loads(load)' /\ load'.pc = "fetching"
      /\ load'.background = load.background /\ load'.envelope = Current
    BY <1>3, <1>5 DEF Loads
<1>7. Archived(load.envelope)' /\ Covers(load.envelope)'
    BY <1>1, <1>4, <1>6 DEF Archived, Covers, Queued, Lasting, daemonVars, history
<1>8. Loading'  BY <1>7 DEF Loading
<1>9. load'.background <=> tab.hydration = "ready"  BY <1>2, <1>6 DEF IInv, Hydrated
<1> QED BY <1>1, <1>6, <1>8, <1>9, LoadOnly

LEMMA LoadListStep == ASSUME IInv, LoadList PROVE IInv'
<1> USE DEF LoadList
<1>1. Lasting /\ UNCHANGED <<tab, dispatch, flush, save>>  BY DEF Lasting
<1>2. load.pc = "fetching" /\ Loads(load) /\ outbox \in Seq(Entries)  BY DEF IInv, Shape
<1>3. load \in [pc : {"fetching"}, requested : BOOLEAN, background : BOOLEAN,
                envelope : Envelopes \cup {None}, entries : Seq(Entries) \cup {None}]
    BY <1>2, LoadIs
<1>4. load' \in [pc : {"fetching"}, requested : BOOLEAN, background : BOOLEAN,
                 envelope : Envelopes \cup {None}, entries : Seq(Entries) \cup {None}]
    BY <1>2, <1>3
<1>5. /\ Loads(load)' /\ load'.pc = "fetching"
      /\ load'.background = load.background /\ load'.envelope = load.envelope
    BY <1>3, <1>4 DEF Loads
<1>6. Loading'
    BY <1>1, <1>2, <1>5
       DEF IInv, Loading, Settled, Archived, Covers, Queued, IsBehind, Lasting, daemonVars, history
<1>7. load'.background <=> tab.hydration = "ready"  BY <1>2, <1>5 DEF IInv, Hydrated
<1> QED BY <1>1, <1>5, <1>6, <1>7, LoadOnly

LEMMA LoadSkipStep == ASSUME IInv, LoadSkip PROVE IInv'
<1> USE DEF LoadSkip
<1>1. Lasting /\ UNCHANGED <<tab, dispatch, flush, save>>  BY DEF Lasting
<1>2. load.pc = "fetching" /\ Loads(load)  BY DEF IInv, Shape, Loaded
<1>3. Loads(NextLoad(flush)) /\ NextLoad(flush).pc # "fetching"  BY <1>2, NextLoadIs
<1>4. Loads(load)' /\ load'.pc # "fetching"  BY <1>3 DEF Loads
<1> QED BY <1>1, <1>4, LoadOnly DEF Loading
-----------------------------------------------------------------------------
\* A load that changes the tab, and the flush at most by asking for it.
LEMMA LoadAndTab ==
    ASSUME IInv, Lasting, UNCHANGED <<dispatch, save>>, Flushes(flush)', Tabs', Loads(load)',
           flush' = flush \/ (flush' = Requested(flush) /\ tab'.hydration = "ready"),
           tab.hydration = "ready" => tab'.hydration = "ready",
           load'.pc = "fetching" => (load'.background <=> tab'.hydration = "ready"),
           flush.pc = "publish" => tab'.acknowledged >= flush.latest.revision,
           tab'.envelope # None =>
             /\ Archived(tab.envelope)'
             /\ Settled => Covers(tab.envelope)' /\ tab'.acknowledged >= tab'.envelope.revision,
           Loading'
    PROVE  IInv'
<1>1. dispatch' = dispatch /\ save' = save
      /\ revision' = revision /\ archive' = archive /\ receipts' = receipts /\ outbox' = outbox
      /\ dispatched' = dispatched /\ saved' = saved
    BY DEF Lasting, daemonVars, history
<1>2. /\ Shape' /\ Receipts' /\ Ordered' /\ NothingLost' /\ Journals' /\ Recovered'
      /\ \A q \in orphans' : Due(q)'
    BY LocalStep
<1>3. \/ flush'.pc = "start" /\ flush.pc = "idle" /\ flush'.latest = None
         /\ tab'.hydration = "ready"
      \/ /\ flush'.pc = flush.pc /\ flush'.latest = flush.latest
         /\ flush'.sent = flush.sent /\ flush'.reply = flush.reply
         /\ flush.pc = "idle" => flush' = flush
    <2>1. CASE flush' = flush  BY <2>1
    <2>2. CASE flush' = Requested(flush) /\ tab'.hydration = "ready"
        <3>1. Flushes(flush)  BY DEF IInv, Shape
        <3> QED BY <2>2, <3>1, RequestedIs
    <2> QED BY <2>1, <2>2
<1>4. Requests'
    BY <1>1, <1>2, <1>3 DEF IInv, Requests, Due, Before, Spent, Daemon!Spent
<1>5. Exclusive'  BY <1>1, <1>3 DEF IInv, Exclusive
<1>6. Hydrated'  BY <1>1, <1>3 DEF IInv, Hydrated
<1>7. Flushing'
    BY <1>1, <1>3 DEF IInv, Flushing, Archived, Covers, Queued
<1>8. Settled' => Settled  BY <1>1, <1>3 DEF Settled
<1>9. Showing'  BY <1>8 DEF Showing
<1> QED BY <1>2, <1>4, <1>5, <1>6, <1>7, <1>9 DEF IInv

LEMMA LoadStartStep == ASSUME IInv, LoadStart PROVE IInv'
<1> USE DEF LoadStart
<1>1. Lasting /\ UNCHANGED <<dispatch, save, flush>>  BY DEF Lasting
<1>2. Tabs /\ Flushes(flush) /\ Loads(load)  BY DEF IInv, Shape
<1>3. /\ Tabs' /\ tab'.envelope = tab.envelope /\ tab'.acknowledged = tab.acknowledged
      /\ tab'.hydration = IF tab.hydration = "ready" THEN "ready" ELSE "loading"
    BY <1>2 DEF Tabs
<1>4. (load.pc = "go" /\ load.requested) \in BOOLEAN /\ (tab.hydration = "ready") \in BOOLEAN
    OBVIOUS
<1>5. load' \in [pc : {"fetching"}, requested : BOOLEAN, background : BOOLEAN,
                 envelope : Envelopes \cup {None}, entries : Seq(Entries) \cup {None}]
    BY <1>2, <1>4, LoadIs
<1>6. Loads(load)' /\ load'.pc = "fetching" /\ load'.envelope = None
    BY <1>5 DEF Loads
<1>8. load'.background <=> tab'.hydration = "ready"
    <2>1. CASE tab.hydration = "ready"
        <3>1. load'.background = TRUE  BY <2>1
        <3>2. tab'.hydration = "ready"  BY <1>3, <2>1
        <3> QED BY <3>1, <3>2
    <2>2. CASE tab.hydration # "ready"
        <3>1. load'.background = FALSE  BY <2>2
        <3>2. tab'.hydration = "loading"  BY <1>3, <2>2
        <3> QED BY <3>1, <3>2
    <2> QED BY <2>1, <2>2
<1>7. Flushes(flush)'  BY <1>1, <1>2 DEF Flushes
<1>9. tab'.envelope # None =>
        /\ Archived(tab.envelope)'
        /\ Settled => Covers(tab.envelope)' /\ tab'.acknowledged >= tab'.envelope.revision
    BY <1>1, <1>3 DEF IInv, Showing, Archived, Covers, Queued, Lasting, daemonVars, history
<1>10. Loading'  BY <1>6 DEF Loading
<1>11. flush.pc = "publish" => tab'.acknowledged >= flush.latest.revision
    BY <1>3 DEF IInv, Flushing
<1>13. tab.hydration = "ready" => tab'.hydration = "ready"  BY <1>3
<1>14. flush' = flush  BY <1>1
<1> QED BY <1>1, <1>3, <1>6, <1>7, <1>9, <1>10, <1>11, <1>13, <1>14, <1>8, LoadAndTab

LEMMA LoadFailsStep == ASSUME IInv, LoadFails PROVE IInv'
<1> USE DEF LoadFails
<1>1. Lasting /\ UNCHANGED <<dispatch, save, flush>>  BY DEF Lasting
<1>2. load.pc = "fetching" /\ Tabs /\ Flushes(flush) /\ Loads(load)  BY DEF IInv, Shape
<1>3. load.background \in BOOLEAN /\ (load.background <=> tab.hydration = "ready")
    BY <1>2, LoadIs DEF IInv, Hydrated
<1>4. Loads(load)' /\ load'.pc # "fetching"
    <2>1. Loads(NextLoad(flush)) /\ NextLoad(flush).pc # "fetching"  BY <1>2, NextLoadIs
    <2>2. CASE load.background
        <3>1. load' = NoLoad  BY <2>2
        <3> QED BY <3>1 DEF Loads, NoLoad
    <2>3. CASE ~load.background
        <3>1. load' = NextLoad(flush)  BY <2>3
        <3> QED BY <2>1, <3>1 DEF Loads
    <2> QED BY <1>3, <2>2, <2>3
<1>5. Loading'  BY <1>4 DEF Loading
<1>6. CASE load.background  BY <1>1, <1>4, <1>5, <1>6, LoadOnly
<1>7. CASE ~load.background
    <2>1. tab' = [tab EXCEPT !.hydration = "error"] /\ tab.hydration # "ready"  BY <1>3, <1>7
    <2>2. /\ Tabs' /\ tab'.envelope = tab.envelope /\ tab'.acknowledged = tab.acknowledged
          /\ tab'.hydration = "error"
        BY <1>2, <2>1 DEF Tabs
    <2>3. Flushes(flush)'  BY <1>1, <1>2 DEF Flushes
    <2>5. tab'.envelope # None =>
            /\ Archived(tab.envelope)'
            /\ Settled => Covers(tab.envelope)' /\ tab'.acknowledged >= tab'.envelope.revision
        BY <1>1, <2>2 DEF IInv, Showing, Archived, Covers, Queued, Lasting, daemonVars, history
    <2>6. flush.pc = "publish" => tab'.acknowledged >= flush.latest.revision
        BY <2>2 DEF IInv, Flushing
    <2>8. flush' = flush  BY <1>1
    <2> QED BY <1>1, <1>4, <1>5, <2>1, <2>2, <2>3, <2>5, <2>6, <2>8, LoadAndTab
<1> QED BY <1>3, <1>6, <1>7

LEMMA LoadInstallStep == ASSUME IInv, LoadInstall PROVE IInv'
<1> USE DEF LoadInstall
<1> DEFINE r == Replay(load.envelope.document, load.entries)
           n == load.envelope.revision
<1>1. Lasting /\ UNCHANGED <<dispatch, save>>  BY DEF Lasting
<1>2. /\ load.pc = "fetching" /\ Tabs /\ Flushes(flush) /\ Loads(load)
      /\ load.envelope # None /\ load.entries # None
    BY DEF IInv, Shape, Loaded
<1>3. /\ load.envelope \in Envelopes /\ load.entries \in Seq(Entries)
      /\ load.background <=> tab.hydration = "ready"
    BY <1>2, LoadIs DEF IInv, Hydrated
<1>4. n \in Nat  BY <1>3, EnvelopeIs
<1>5. tab' = [Show(load.envelope, r, load.entries) EXCEPT !.acknowledged = n]  OBVIOUS
<1>6. /\ Tabs' /\ tab'.hydration = "ready" /\ tab'.envelope = load.envelope
      /\ tab'.acknowledged = n
    BY <1>2, <1>3, <1>4, <1>5, ShowIs DEF Tabs
<1>7. flush' = flush \/ flush' = Requested(flush)  OBVIOUS
<1>8. Flushes(flush)'
    <2>1. Flushes(Requested(flush))  BY <1>2, RequestedIs
    <2> QED BY <1>2, <1>7, <2>1 DEF Flushes
<1>9. Loads(load)' /\ load'.pc # "fetching"
    <2>1. PICK f : f = flush'  OBVIOUS
    <2>2. Loads(NextLoad(f)) /\ NextLoad(f).pc # "fetching"  BY <1>2, NextLoadIs
    <2>3. load' = NextLoad(f)  BY <2>1
    <2> QED BY <2>2, <2>3 DEF Loads
<1>10. ~IsBehind /\ Archived(load.envelope) /\ (Settled => Covers(load.envelope))
    BY <1>2 DEF IInv, Loading
<1>11. flush.pc = "publish" => tab'.acknowledged >= flush.latest.revision
    <2>1. SUFFICES ASSUME flush.pc = "publish" PROVE n >= flush.latest.revision  BY <1>6
    <2>2. tab.acknowledged >= flush.latest.revision /\ flush.latest # None /\ load.background
        BY <1>3, <2>1 DEF IInv, Flushing, Hydrated
    <2>3. flush.latest.revision \in Nat /\ tab.acknowledged \in Nat
        BY <1>2, <2>2, EnvelopeIs DEF Flushes, Tabs
    <2>4. ~(n < tab.acknowledged)  BY <1>10, <2>2 DEF IsBehind
    <2> QED BY <2>2, <2>3, <2>4, <1>4
<1>12. Archived(tab.envelope)'
    BY <1>1, <1>6, <1>10 DEF Archived, Lasting, daemonVars
<1>13. Settled => Covers(tab.envelope)'
    BY <1>1, <1>6, <1>10 DEF Covers, Queued, Lasting, daemonVars, history
<1>14. tab'.acknowledged >= tab'.envelope.revision  BY <1>4, <1>6
<1>15. Loading'  BY <1>9 DEF Loading
<1> QED BY <1>1, <1>6, <1>7, <1>8, <1>9, <1>11, <1>12, <1>13, <1>14, <1>15, LoadAndTab
-----------------------------------------------------------------------------
(* Steps of the daemon *)

\* The branch only grows, and what was known of it stays true.
Grows ==
    /\ Daemons' /\ Receipts' /\ Ordered' /\ NothingLost'
    /\ receipts \subseteq receipts'
    /\ \A e \in Envelopes : Archived(e) => Archived(e)'
    /\ \A e \in Envelopes : Covers(e) => Covers(e)'
    /\ Current' \in Envelopes /\ Archived(Current)' /\ Covers(Current)'

LEMMA CurrentGrows ==
    ASSUME Daemons', Receipts'
    PROVE  Current' \in Envelopes /\ Archived(Current)' /\ Covers(Current)'
<1>1. /\ revision' \in Nat /\ document' \in Documents /\ archive'[revision' + 1] = document'
      /\ \A r \in receipts' : r.revision <= revision'
    BY DEF Daemons, Receipts
<1>2. Current' = [revision |-> revision', document |-> document']  BY DEF Current
<1>3. /\ Current' \in Envelopes
      /\ Current'.revision = revision' /\ Current'.document = document'
    BY <1>1, <1>2 DEF Envelopes
<1> HIDE DEF Current
<1>4. Archived(Current)'  BY <1>1, <1>3 DEF Archived
<1>5. Covers(Current)'  BY <1>1, <1>3 DEF Covers
<1> QED BY <1>3, <1>4, <1>5

\* A commit gives one more revision and one more receipt; what the tab asks for
\* is due.
LEMMA MutateGrows ==
    ASSUME IInv, NEW m \in Mutations \cup ForeignMutations, NEW c \in Commands,
           Daemon!Mutate(m, c), archive' = Append(archive, document'),
           UNCHANGED <<outbox, history>>,
           m \in Mutations =>
             /\ m \in ToSet(dispatched)
             /\ \A a \in Mutations : Before(a, m) => a \in Spent \cup saved
    PROVE  Grows /\ \E r \in receipts' : r.mutation = m /\ r.revision <= revision'
<1> DEFINE new == [mutation |-> m, command |-> c, revision |-> revision + 1]
<1>1. /\ m \notin Spent /\ document' = Apply(document, c) /\ document' # Rejected
      /\ revision' = revision + 1 /\ receipts' = receipts \cup {new}
      /\ outbox' = outbox /\ dispatched' = dispatched /\ saved' = saved
    BY DEF Daemon!Mutate, Daemon!Apply, Apply, Spent, Daemon!Spent, history
<1>2. /\ revision \in Nat /\ document \in Documents /\ archive \in Seq(Documents)
      /\ Len(archive) = revision + 1 /\ archive[revision + 1] = document
      /\ receipts \subseteq [mutation : Mutations \cup ForeignMutations,
                             command : Commands, revision : Nat]
      /\ \A r \in receipts : r.revision <= revision
    BY DEF IInv, Shape, Daemons, Receipts
<1>3. document' \in Documents  BY <1>1, <1>2, ApplyType
<1>4. /\ archive' \in Seq(Documents) /\ Len(archive') = revision + 2
      /\ archive'[revision + 2] = document'
      /\ \A i \in 1..revision + 1 : archive'[i] = archive[i]
    BY <1>2, <1>3
<1>5. /\ new \in [mutation : Mutations \cup ForeignMutations, command : Commands, revision : Nat]
      /\ new.mutation = m /\ new.revision = revision + 1
    BY <1>2
<1> HIDE DEF new
<1>6. Daemons'
    <2>1. revision' \in Nat /\ revision' + 1 = revision + 2  BY <1>1, <1>2
    <2>2. Len(archive') = revision' + 1 /\ archive'[revision' + 1] = document'
        BY <2>1, <1>4
    <2>3. receipts' \subseteq [mutation : Mutations \cup ForeignMutations,
                               command : Commands, revision : Nat]
        BY <1>1, <1>2, <1>5
    <2> QED BY <2>1, <2>2, <2>3, <1>3, <1>4 DEF Daemons
<1>7. \A r \in receipts : r.mutation # m  BY <1>1 DEF Spent, Daemon!Spent
<1>8. Receipts'
    <2>1. \A r \in receipts' : r.revision <= revision'
        BY <1>1, <1>2, <1>5
    <2>2. \A r \in receipts' : r.mutation \in Mutations => r.mutation \in ToSet(dispatched')
        BY <1>1, <1>5 DEF IInv, Receipts
    <2>3. \A r, s \in receipts' : r.mutation = s.mutation => r = s
        BY <1>1, <1>5, <1>7 DEF IInv, Receipts
    <2> QED BY <2>1, <2>2, <2>3 DEF Receipts
<1>9. Ordered'
    <2>1. ASSUME NEW a \in Mutations, NEW b \in Mutations, Before(a, b), a \notin saved,
                 NEW r \in receipts', r.mutation = b
          PROVE  \E s \in receipts' : s.mutation = a /\ s.revision < r.revision
        <3>1. CASE r \in receipts  BY <2>1, <3>1, <1>1 DEF IInv, Ordered
        <3>2. CASE r = new
            <4>1. b = m /\ r.revision = revision + 1  BY <2>1, <3>2, <1>5
            <4>2. a \in Spent  BY <2>1, <4>1
            <4>3. PICK s \in receipts : s.mutation = a  BY <4>2 DEF Spent, Daemon!Spent
            <4>4. s.revision \in Nat /\ s.revision <= revision  BY <4>3, <1>2
            <4> QED BY <4>1, <4>3, <4>4, <1>1, <1>2
        <3> QED BY <3>1, <3>2, <1>1
    <2>2. \A a, b : Before(a, b)' <=> Before(a, b)  BY <1>1 DEF Before
    <2> QED BY <2>1, <2>2, <1>1 DEF Ordered
<1>10. NothingLost'
    BY <1>1 DEF IInv, NothingLost, Queued, Spent, Daemon!Spent
<1>11. receipts \subseteq receipts'  BY <1>1
<1>12. ASSUME NEW e \in Envelopes, Archived(e) PROVE Archived(e)'
    <2>1. e.revision \in Nat /\ e.revision <= revision /\ e.document = archive[e.revision + 1]
        BY <1>12, EnvelopeIs DEF Archived
    <2>2. e.revision + 1 \in 1..revision + 1 /\ e.revision <= revision + 1  BY <2>1, <1>2
    <2> QED BY <2>1, <2>2, <1>1, <1>4 DEF Archived
<1>13. m \in ToSet(dispatched) \ saved => m \in Queued
    BY <1>1 DEF IInv, NothingLost
<1>14. \A e \in Envelopes : Covers(e) => Covers(e)'
    BY <1>1, <1>5, <1>13 DEF Covers, Queued
<1>15. Current' \in Envelopes /\ Archived(Current)' /\ Covers(Current)'
    BY <1>6, <1>8, CurrentGrows
<1>16. \E r \in receipts' : r.mutation = m /\ r.revision <= revision'
    <2>1. new \in receipts'  BY <1>1
    <2> QED BY <2>1, <1>5, <1>8 DEF Receipts
<1> QED BY <1>6, <1>8, <1>9, <1>10, <1>11, <1>12, <1>14, <1>15, <1>16 DEF Grows

\* A request that is due is served in its turn.
LEMMA HandleGrows ==
    ASSUME IInv, NEW q \in Entries, Due(q), Handle(q), UNCHANGED <<outbox, history>>
    PROVE  /\ Grows
           /\ Answer(q) = "ok" =>
                \E r \in receipts' : r.mutation = q.mutation /\ r.revision <= revision'
<1>1. q.mutation \in Mutations /\ q.command \in Commands  BY DEF Entries
<1>2. CASE Accepts(q)
    <2>1. Daemon!Mutate(q.mutation, q.command) /\ archive' = Append(archive, document')
        BY <1>2 DEF Handle
    <2>2. /\ q.mutation \in ToSet(dispatched)
          /\ \A a \in Mutations : Before(a, q.mutation) => a \in Spent \cup saved
        BY DEF Due
    <2> QED BY <1>1, <2>1, <2>2, MutateGrows
<1>3. CASE ~Accepts(q)
    <2>1. /\ revision' = revision /\ document' = document /\ receipts' = receipts
          /\ archive' = archive /\ outbox' = outbox /\ dispatched' = dispatched /\ saved' = saved
        BY <1>3 DEF Handle, daemonVars, history
    <2>2. Daemons'  BY <2>1 DEF IInv, Shape, Daemons
    <2>3. Receipts'  BY <2>1 DEF IInv, Receipts
    <2>4. Ordered'  BY <2>1 DEF IInv, Ordered, Before
    <2>5. NothingLost'  BY <2>1 DEF IInv, NothingLost, Queued, Spent, Daemon!Spent
    <2>6. \A e \in Envelopes : Archived(e) => Archived(e)'  BY <2>1 DEF Archived
    <2>7. \A e \in Envelopes : Covers(e) => Covers(e)'  BY <2>1 DEF Covers, Queued
    <2>8. Current' \in Envelopes /\ Archived(Current)' /\ Covers(Current)'
        BY <2>2, <2>3, CurrentGrows
    <2>9. Answer(q) = "ok" =>
            \E r \in receipts' : r.mutation = q.mutation /\ r.revision <= revision'
        BY <1>3, <2>1 DEF Answer, Spent, Daemon!Spent, IInv, Receipts
    <2> QED BY <2>1, <2>2, <2>3, <2>4, <2>5, <2>6, <2>7, <2>8, <2>9 DEF Grows
<1> QED BY <1>2, <1>3

\* The tab does not notice.
LEMMA DaemonStep ==
    ASSUME IInv, Grows, UNCHANGED <<outbox, tab, dispatch, load, save, history>>,
           orphans' \subseteq orphans, Flushes(flush)',
           flush' = flush \/ (flush.pc = "posted" /\ flush'.pc = "replied" /\ flush'.sent = flush.sent),
           Flushing'
    PROVE  IInv'
<1>1. /\ tab' = tab /\ dispatch' = dispatch /\ load' = load /\ save' = save /\ outbox' = outbox
      /\ dispatched' = dispatched /\ saved' = saved
    BY DEF history
<1>2. Shape'
    BY <1>1 DEF IInv, Shape, Grows, Tabs, Dispatches, Loads, Saves
<1>3. InOrder(outbox)' /\ (save'.pc # "idle" => InOrder(save.entries)')
    BY <1>1 DEF IInv, Journals, InOrder, Before
<1>4. Journals'  BY <1>1, <1>3 DEF IInv, Journals
<1>5. Spent \subseteq Spent'  BY DEF Grows, Spent, Daemon!Spent
<1>6. Requests'
    BY <1>1, <1>5 DEF IInv, Requests, Due, Before
<1>7. Exclusive'  BY <1>1 DEF IInv, Exclusive
<1>8. Hydrated'  BY <1>1 DEF IInv, Hydrated
<1>9. Recovered'  BY <1>1 DEF IInv, Recovered, Queued
<1>10. Settled' => Settled  BY <1>1 DEF Settled
<1>11. Showing'
    <2>1. SUFFICES ASSUME tab.envelope # None
                   PROVE  /\ Archived(tab.envelope)'
                          /\ Settled => Covers(tab.envelope)'
                                        /\ tab.acknowledged >= tab.envelope.revision
        BY <1>1, <1>10 DEF Showing
    <2>2. tab.envelope \in Envelopes  BY <2>1 DEF IInv, Shape, Tabs
    <2>3. PICK e \in Envelopes : e = tab.envelope  BY <2>2
    <2>4. /\ Archived(e)
          /\ Settled => Covers(e) /\ tab.acknowledged >= tab.envelope.revision
        BY <2>1, <2>3 DEF IInv, Showing
    <2>5. Archived(e)' /\ (Settled => Covers(e)')  BY <2>4 DEF Grows
    <2>6. tab'.envelope = e  BY <1>1, <2>3
    <2> QED BY <2>4, <2>5, <2>6 DEF Archived, Covers
<1>12. Loading'
    <2>1. SUFFICES ASSUME load.pc = "fetching", load.envelope # None
                   PROVE  /\ Archived(load.envelope)'
                          /\ Settled => Covers(load.envelope)' \/ IsBehind'
        BY <1>1, <1>10 DEF Loading
    <2>2. load.envelope \in Envelopes  BY <2>1, LoadIs DEF IInv, Shape
    <2>3. PICK e \in Envelopes : e = load.envelope  BY <2>2
    <2>4. Archived(e) /\ (Settled => Covers(e) \/ IsBehind)
        BY <2>1, <2>3 DEF IInv, Loading
    <2>5. Archived(e)' /\ (Settled => Covers(e)' \/ IsBehind')
        BY <2>4, <1>1 DEF Grows, IsBehind
    <2>6. load'.envelope = e  BY <1>1, <2>3
    <2> QED BY <2>5, <2>6 DEF Archived, Covers
<1> QED BY <1>2, <1>4, <1>6, <1>7, <1>8, <1>9, <1>11, <1>12 DEF IInv, Grows
-----------------------------------------------------------------------------
\* What the flush knows stays true of a branch that grows.
LEMMA FlushKnows ==
    ASSUME IInv, Grows, UNCHANGED <<outbox, tab, save>>
    PROVE  /\ flush.latest # None => /\ Archived(flush.latest) /\ Covers(flush.latest)
                                     /\ flush.latest \in Envelopes
                                     /\ \E e \in Envelopes :
                                          e = flush.latest /\ Archived(e)' /\ Covers(e)'
           /\ flush' = flush => Flushing'
<1>1. tab' = tab /\ save' = save /\ outbox' = outbox  OBVIOUS
<1>2. flush.latest # None => /\ Archived(flush.latest) /\ Covers(flush.latest)
                             /\ flush.latest \in Envelopes
    BY DEF IInv, Shape, Flushes, Flushing
<1>3. flush.latest # None =>
        \E e \in Envelopes : e = flush.latest /\ Archived(e)' /\ Covers(e)'
    <2>1. SUFFICES ASSUME flush.latest # None
                   PROVE  \E e \in Envelopes : e = flush.latest /\ Archived(e)' /\ Covers(e)'
        OBVIOUS
    <2>2. PICK e \in Envelopes : e = flush.latest  BY <1>2, <2>1
    <2>3. Archived(e) /\ Covers(e)  BY <1>2, <2>1, <2>2
    <2> QED BY <2>2, <2>3 DEF Grows
<1>4. ASSUME flush' = flush PROVE Flushing'
    <2>1. flush'.latest # None => Archived(flush.latest)' /\ Covers(flush.latest)'
        <3>1. SUFFICES ASSUME flush.latest # None
                       PROVE  Archived(flush.latest)' /\ Covers(flush.latest)'
            BY <1>4
        <3>2. PICK e \in Envelopes : e = flush.latest /\ Archived(e)' /\ Covers(e)'
            BY <1>3, <3>1
        <3>3. flush'.latest = e  BY <1>4, <3>2
        <3> QED BY <3>2, <3>3 DEF Archived, Covers
    <2>2. flush'.pc = "replied" => Archived(flush.reply.envelope)' /\ Covers(flush.reply.envelope)'
        <3>1. SUFFICES ASSUME flush.pc = "replied"
                       PROVE  Archived(flush.reply.envelope)' /\ Covers(flush.reply.envelope)'
            BY <1>4
        <3>2. flush.reply.envelope \in Envelopes
              /\ Archived(flush.reply.envelope) /\ Covers(flush.reply.envelope)
            BY <3>1 DEF IInv, Shape, Flushes, Flushing, Replies
        <3>3. PICK e \in Envelopes : e = flush.reply.envelope  BY <3>2
        <3>4. Archived(e)' /\ Covers(e)'  BY <3>2, <3>3 DEF Grows
        <3>5. flush'.reply.envelope = e  BY <1>4, <3>3
        <3> QED BY <3>4, <3>5 DEF Archived, Covers
    <2> QED BY <1>1, <1>4, <2>1, <2>2 DEF IInv, Flushing, Grows
<1> QED BY <1>2, <1>3, <1>4

LEMMA ForeignCommitStep ==
    ASSUME IInv, NEW m \in ForeignMutations, NEW c \in Commands, ForeignCommit(m, c)
    PROVE  IInv'
<1>1. /\ Daemon!Mutate(m, c) /\ archive' = Append(archive, document')
      /\ UNCHANGED <<outbox, tab, dispatch, load, save, history>>
      /\ flush' = flush /\ orphans' \subseteq orphans
    BY DEF ForeignCommit
<1>2. m \notin Mutations  BY SyncAssumption
<1>3. Grows  BY <1>1, <1>2, MutateGrows
<1>4. Flushing'  BY <1>1, <1>3, FlushKnows
<1>5. Flushes(flush)'  BY <1>1 DEF IInv, Shape, Flushes
<1> QED BY <1>1, <1>3, <1>4, <1>5, DaemonStep

LEMMA ServeOrphanStep ==
    ASSUME IInv, NEW q \in orphans, ServeOrphan(q)
    PROVE  IInv'
<1>1. /\ Handle(q) /\ UNCHANGED <<outbox, tab, dispatch, load, save, history>>
      /\ flush' = flush /\ orphans' \subseteq orphans
    BY DEF ServeOrphan
<1>2. q \in Entries /\ Due(q)  BY DEF IInv, Shape, Requests
<1>3. Grows
    <2>1. PICK p \in Entries : p = q  BY <1>2
    <2>2. Due(p) /\ Handle(p)  BY <1>1, <1>2, <2>1
    <2> QED BY <1>1, <2>2, HandleGrows
<1>4. Flushing'  BY <1>1, <1>3, FlushKnows
<1>5. Flushes(flush)'  BY <1>1 DEF IInv, Shape, Flushes
<1> QED BY <1>1, <1>3, <1>4, <1>5, DaemonStep

LEMMA ServeStep == ASSUME IInv, Serve PROVE IInv'
<1>1. /\ flush.pc = "posted" /\ Handle(flush.sent)
      /\ flush' = [flush EXCEPT !.pc = "replied",
                                !.reply = [kind |-> Answer(flush.sent), envelope |-> Current']]
      /\ UNCHANGED <<outbox, tab, dispatch, load, save, history>> /\ orphans' = orphans
    BY DEF Serve
<1>2. Flushes(flush) /\ flush.sent \in Entries /\ Due(flush.sent)
    BY <1>1 DEF IInv, Shape, Flushes, Requests
<1>3. PICK q \in Entries : q = flush.sent  BY <1>2
<1>4. /\ Grows
      /\ Answer(q) = "ok" => \E r \in receipts' : r.mutation = q.mutation /\ r.revision <= revision'
    <2>1. Due(q) /\ Handle(q)  BY <1>1, <1>2, <1>3
    <2> QED BY <1>1, <2>1, HandleGrows
<1>5. PICK e \in Envelopes : e = Current'  BY <1>4 DEF Grows
<1>6. e.revision = revision' /\ e # None  BY <1>5, EnvelopeIs DEF Current
<1>7. Archived(e)' /\ Covers(e)'  BY <1>4, <1>5 DEF Grows, Archived, Covers, Current
<1>8. Answer(q) \in {"ok", "stale", "rejected"}  BY DEF Answer
<1> DEFINE reply == [kind |-> Answer(q), envelope |-> e]
<1>9. reply \in Replies  BY <1>8 DEF Replies
<1>10. flush' = [flush EXCEPT !.pc = "replied", !.reply = reply]  BY <1>1, <1>3, <1>5
<1>11. reply.kind = Answer(q) /\ reply.envelope = e  OBVIOUS
<1> HIDE DEF reply
<1>12. /\ Flushes(flush)' /\ flush'.pc = "replied" /\ flush'.reply = reply
       /\ flush'.latest = flush.latest /\ flush'.sent = q
    BY <1>1, <1>2, <1>3, <1>9, <1>10 DEF Flushes, FlushSteps
<1>13. Flushing'
    <2>1. flush'.latest # None => Archived(flush.latest)' /\ Covers(flush.latest)'
        <3>1. SUFFICES ASSUME flush.latest # None
                       PROVE  Archived(flush.latest)' /\ Covers(flush.latest)'
            BY <1>12
        <3>2. PICK x \in Envelopes : x = flush.latest /\ Archived(x)' /\ Covers(x)'
            BY <1>1, <1>4, <3>1, FlushKnows
        <3>3. flush'.latest = x  BY <1>12, <3>2
        <3> QED BY <3>2, <3>3 DEF Archived, Covers
    <2>2. Archived(flush.reply.envelope)' /\ Covers(flush.reply.envelope)'
        BY <1>7, <1>11, <1>12 DEF Archived, Covers
    <2>3. save'.pc # "acking" => outbox' # <<>>  BY <1>1 DEF IInv, Flushing
    <2>4. flush'.reply \in Replies  BY <1>9, <1>12
    <2>5. flush'.reply.kind = "ok" =>
            \E r \in receipts' : /\ r.mutation = flush'.sent.mutation
                                 /\ r.revision <= flush'.reply.envelope.revision
        BY <1>4, <1>6, <1>11, <1>12
    <2> QED BY <1>12, <2>1, <2>2, <2>3, <2>4, <2>5 DEF Flushing
<1> QED BY <1>1, <1>3, <1>4, <1>12, <1>13, DaemonStep
-----------------------------------------------------------------------------
(* The theorems *)

LEMMA Initially == Init => IInv
<1> SUFFICES ASSUME Init PROVE IInv  OBVIOUS
<1> USE DEF Init
<1>1. EmptyDocument \in Documents  BY ReducerAssumption
<1>2. /\ tab.hydration = "idle" /\ tab.envelope = None /\ Tabs
      /\ flush.pc = "idle" /\ flush.latest = None /\ Flushes(flush)
      /\ load.pc = "idle" /\ Loads(load) /\ save.pc = "idle" /\ Saves(save)
      /\ dispatch.pc = "idle" /\ Dispatches(dispatch)
    BY <1>1 DEF NewTab, NoFlush, NoLoad, NoSave, NoDispatch,
                Tabs, Statuses, Flushes, FlushSteps, Loads, Saves, Dispatches
<1>3. Daemons  BY <1>1 DEF Daemons
<1>4. /\ outbox \in Seq(Entries) /\ dispatched \in Seq(Mutations)
      /\ DOMAIN outbox = {} /\ DOMAIN dispatched = {} /\ ToSet(dispatched) = {}
    <2>1. outbox \in Seq(Entries) /\ dispatched \in Seq(Mutations)  OBVIOUS
    <2>2. DOMAIN outbox = {} /\ DOMAIN dispatched = {}  OBVIOUS
    <2> QED BY <2>1, <2>2 DEF ToSet
<1>5. receipts = {} /\ orphans = {} /\ saved = {}  OBVIOUS
<1> HIDE DEF Init
<1>6. Shape  BY <1>2, <1>3, <1>4, <1>5 DEF Shape
<1>7. Receipts  BY <1>5 DEF Receipts
<1>8. Journals  BY <1>2, <1>4 DEF Journals, InOrder
<1>9. Requests  BY <1>2, <1>5 DEF Requests
<1>10. Ordered  BY <1>4 DEF Ordered, Before
<1>11. Exclusive /\ Hydrated /\ Recovered
    BY <1>2 DEF Exclusive, Hydrated, Recovered
<1>12. Flushing /\ Showing /\ Loading  BY <1>2 DEF Flushing, Showing, Loading
<1>13. NothingLost  BY <1>4 DEF NothingLost
<1> QED BY <1>6, <1>7, <1>8, <1>9, <1>10, <1>11, <1>12, <1>13 DEF IInv

LEMMA Stutter == ASSUME IInv, UNCHANGED vars PROVE IInv'
<1>1. Lasting /\ UNCHANGED <<tab, dispatch, flush, load, save>>  BY DEF vars, Lasting
<1>2. dispatch' = dispatch  BY <1>1
<1>3. Dispatches(dispatch)'  BY <1>2 DEF IInv, Shape, Dispatches
<1>4. save' = save  BY <1>1
<1>5. Saves(save)' /\ Recovered'
    BY <1>1, <1>4 DEF IInv, Shape, Saves, Recovered, Queued, Lasting, history
<1>6. save'.pc # "idle" => InOrder(save.entries)'
    BY <1>1, <1>4 DEF IInv, Journals, InOrder, Before, Lasting, history
<1> QED BY <1>1, <1>4, <1>5, <1>6, SaveOnly

LEMMA Stepwise == IInv /\ [Next]_vars => IInv'
<1> SUFFICES ASSUME IInv, [Next]_vars PROVE IInv'  OBVIOUS
<1>1. CASE DaemonNext
    BY <1>1, ServeStep, SaveServeStep, ServeOrphanStep DEF DaemonNext
<1>2. CASE FlushNext
    BY <1>2, FlushStartStep, FlushPostStep, FlushAckStep, FlushStaleStep, FlushRejectedStep,
       FlushRefetchStep, FlushRebaseStep, FlushConflictStep, FlushFailedStep,
       FlushFinishStep, FlushPublishStep, FlushCheckStep, FlushMoreStep, FlushEndStep
       DEF FlushNext
<1>3. CASE DispatchNext
    BY <1>3, DispatchComputeStep, DispatchEnqueueStep, DispatchPublishStep DEF DispatchNext
<1>4. CASE LoadNext
    BY <1>4, LoadStartStep, LoadFetchStep, LoadListStep, LoadSkipStep, LoadInstallStep DEF LoadNext
<1>5. CASE SaveNext
    BY <1>5, SaveCheckStep, SaveAckStep, ClosePageStep DEF SaveNext, SaveDone
<1>6. CASE Failures
    BY <1>6, DispatchFailsStep, LoadFailsStep, FlushLostStep, SaveFailsStep, SaveAckFailsStep,
       ClosePageStep DEF Failures, Crash
<1>7. CASE Environment
    BY <1>7, DispatchStartStep, ForeignCommitStep, ReloadStep, FlushCommandsStep,
       RetryCommandsStep, SaveStartStep DEF Environment
<1>8. CASE UNCHANGED vars  BY <1>8, Stutter
<1> QED BY <1>1, <1>2, <1>3, <1>4, <1>5, <1>6, <1>7, <1>8 DEF Next

\* The inductive invariant of the browser store: what each activity relies on
\* of the others, between any two of their awaits.
THEOREM Invariance == Spec => []IInv
<1>1. Init => IInv  BY Initially
<1>2. IInv /\ [Next]_vars => IInv'  BY Stepwise
<1> QED BY <1>1, <1>2, PTL DEF Spec

\* Types, a hydrated store has an envelope, and a flush that awaits a reply
\* knows the entry it sent (store.ts, daemonClient.ts).
THEOREM TypeCorrect == Spec => []TypeOK
<1>1. IInv => TypeOK
    <2> SUFFICES ASSUME IInv PROVE TypeOK  OBVIOUS
    <2>1. Daemons /\ Tabs /\ orphans \subseteq Entries /\ saved \subseteq Mutations
        BY DEF IInv, Shape
    <2>2. ToSet(outbox) \subseteq Entries /\ ToSet(dispatched) \subseteq Mutations
        BY DEF IInv, Shape, ToSet
    <2>3. flush.pc \in {"posted", "replied"} => flush.sent \in Entries
        BY DEF IInv, Shape, Flushes, Requests
    <2> QED BY <2>1, <2>2, <2>3 DEF TypeOK, Daemons, Tabs
<1> QED BY <1>1, Invariance, PTL

\* No dispatched command is ever lost (CANVAS-PERSISTENCE.md, save order): the
\* outbox, the branch or a conflict branch has it, for any number of commands,
\* foreign writers, late requests, crashes and failed saves.
THEOREM NothingIsLost == Spec => []NothingLost
<1>1. IInv => NothingLost  BY DEF IInv
<1> QED BY <1>1, Invariance, PTL

\* A receipt is found by its mutation.
LEMMA RevisionIs ==
    ASSUME IInv, NEW r \in receipts
    PROVE  RevisionOf(r.mutation) = r.revision
<1> DEFINE s == CHOOSE s \in receipts : s.mutation = r.mutation
<1>1. s \in receipts /\ s.mutation = r.mutation  OBVIOUS
<1>2. s = r  BY <1>1 DEF IInv, Receipts
<1> QED BY <1>2 DEF RevisionOf

\* The commands of a tab are committed in the order of their dispatch
\* (flushOutbox posts the head alone), also when a request that was given up
\* is served late or twice.
THEOREM OrderIsKept == Spec => []CommitOrder
<1>1. IInv => CommitOrder
    <2> SUFFICES ASSUME IInv, NEW i \in DOMAIN dispatched, NEW j \in DOMAIN dispatched,
                        i < j, dispatched[j] \in Spent, dispatched[i] \notin saved
                 PROVE  /\ dispatched[i] \in Spent
                        /\ RevisionOf(dispatched[i]) < RevisionOf(dispatched[j])
        BY DEF CommitOrder
    <2> DEFINE a == dispatched[i]
               b == dispatched[j]
    <2>1. a \in Mutations /\ b \in Mutations  BY DEF IInv, Shape
    <2>2. PICK r \in receipts : r.mutation = b  BY DEF Spent, Daemon!Spent
    <2>3. Before(a, b)  BY DEF Before
    <2>4. PICK s \in receipts : s.mutation = a /\ s.revision < r.revision
        BY <2>1, <2>2, <2>3 DEF IInv, Ordered
    <2>5. RevisionOf(a) = s.revision /\ RevisionOf(b) = r.revision
        BY <2>2, <2>4, RevisionIs
    <2> QED BY <2>4, <2>5 DEF Spent, Daemon!Spent
<1> QED BY <1>1, Invariance, PTL

\* A store that has come to rest as saved shows a revision the daemon has, with
\* every command of this browser that is committed, and bases the next one on
\* nothing older (store.ts: the acknowledged revision, the last envelope of a
\* flush, the guard of #load against a late envelope).
THEOREM SavedShowsItsOwn == Spec => []SavedIsCurrent
<1>1. IInv => SavedIsCurrent
    <2> SUFFICES ASSUME IInv, Quiet, tab.hydration = "ready", outbox = <<>>
                 PROVE  /\ tab.envelope.document = archive[tab.envelope.revision + 1]
                        /\ tab.acknowledged >= tab.envelope.revision
                        /\ \A m \in (ToSet(dispatched) \cap Spent) \ saved :
                             RevisionOf(m) <= tab.envelope.revision
        BY DEF SavedIsCurrent
    <2>1. tab.envelope # None  BY DEF IInv, Shape, Tabs
    <2>2. Settled  BY DEF Quiet, Settled
    <2>3. Archived(tab.envelope) /\ Covers(tab.envelope)
          /\ tab.acknowledged >= tab.envelope.revision
        BY <2>1, <2>2 DEF IInv, Showing
    <2>4. Queued = {}  BY DEF Queued, ToSet
    <2>5. ASSUME NEW m \in (ToSet(dispatched) \cap Spent) \ saved
          PROVE  RevisionOf(m) <= tab.envelope.revision
        <3>1. PICK r \in receipts : r.mutation = m  BY DEF Spent, Daemon!Spent
        <3>2. r.revision <= tab.envelope.revision  BY <2>3, <2>4, <3>1 DEF Covers
        <3> QED BY <3>1, <3>2, RevisionIs
    <2> QED BY <2>3, <2>5 DEF Archived
<1> QED BY <1>1, Invariance, PTL
-----------------------------------------------------------------------------
(* No wake-up is lost *)

\* Until the first load is over nothing else happens, so that what it has read
\* of the outbox is the outbox.
First ==
    /\ tab.hydration # "ready" => tab.status # "conflict" /\ save.pc = "idle"
    /\ load.pc = "fetching" /\ tab.hydration # "ready" /\ load.entries # None =>
         load.entries = outbox

LEMMA FirstStep == ASSUME IInv, First, [Next]_vars PROVE First'
<1> USE DEF First
<1>1. Tabs /\ Loads(load) /\ Saves(save) /\ Hydrated  BY DEF IInv, Shape
<1>2. CASE tab'.hydration = "ready"  BY <1>2
<1>3. CASE ClosePage
    BY <1>3 DEF ClosePage, NewTab, NoSave, NoLoad
<1>4. CASE UNCHANGED vars  BY <1>4 DEF vars, daemonVars, history
<1>5. CASE DaemonNext
    BY <1>1, <1>5 DEF DaemonNext, Serve, SaveServe, ServeOrphan, Hydrated
<1>6. CASE FlushNext
    <2>1. tab.hydration = "ready"
        BY <1>1, <1>6 DEF Hydrated, FlushNext, FlushStart, FlushPost, FlushAck, FlushStale,
           FlushRejected, FlushRefetch, FlushRebase, FlushConflict, FlushFailed, FlushFinish,
           FlushPublish, FlushCheck, FlushMore, FlushEnd
    <2>2. tab'.hydration = "ready"
        BY <1>1, <1>6, <2>1 DEF Tabs, FlushNext, FlushStart, FlushPost, FlushAck, FlushStale,
           FlushRejected, FlushRefetch, FlushRebase, FlushConflict, FlushFailed, FlushFinish,
           FlushPublish, FlushCheck, FlushMore, FlushEnd, Show
    <2> QED BY <2>2, <1>2
<1>7. CASE DispatchNext \/ DispatchFails
    <2>1. tab.hydration = "ready"
        BY <1>1, <1>7 DEF Hydrated, DispatchNext, DispatchCompute, DispatchEnqueue,
           DispatchPublish, DispatchFails
    <2>2. tab'.hydration = "ready"
        BY <1>1, <1>7, <2>1 DEF Tabs, DispatchNext, DispatchCompute, DispatchEnqueue,
           DispatchPublish, DispatchFails
    <2> QED BY <2>2, <1>2
<1>8. CASE LoadStart
    <2>1. tab'.status = tab.status /\ (tab.hydration = "ready" => tab'.hydration = "ready")
          /\ save' = save /\ load'.entries = None
        BY <1>1, <1>8 DEF LoadStart, Tabs
    <2> QED BY <2>1
<1>9. CASE LoadFetch \/ LoadList
    <2>1. load.pc = "fetching" /\ tab' = tab /\ save' = save /\ outbox' = outbox
          /\ load'.entries \in {load.entries, outbox}
        BY <1>1, <1>9, LoadIs DEF LoadFetch, LoadList
    <2> QED BY <2>1
<1>10. CASE LoadSkip
    <2>1. load'.pc # "fetching"  BY <1>1, <1>10, NextLoadIs DEF LoadSkip, Loaded
    <2>2. tab' = tab /\ save' = save  BY <1>10 DEF LoadSkip
    <2> QED BY <2>1, <2>2
<1>11. CASE LoadInstall
    BY <1>1, <1>2, <1>11 DEF LoadInstall, Show, Tabs
<1>12. CASE LoadFails
    <2>1. load'.pc # "fetching"
        BY <1>1, <1>12, NextLoadIs DEF LoadFails, NoLoad
    <2>2. tab'.status = tab.status /\ save' = save
          /\ (tab.hydration = "ready" => tab'.hydration = "ready")
        BY <1>1, <1>12 DEF LoadFails, Tabs, Hydrated
    <2> QED BY <2>1, <2>2
<1>13. CASE FlushLost \/ FlushCommands \/ RetryCommands
    BY <1>1, <1>2, <1>13 DEF Hydrated, Tabs, FlushLost, FlushCommands, RetryCommands
<1>14. CASE SaveCheck \/ SaveAck \/ SaveFails \/ SaveAckFails \/ SaveStart
    <2>1. tab' = tab /\ tab.hydration = "ready"
        BY <1>14 DEF SaveCheck, SaveAck, SaveFails, SaveAckFails, SaveStart
    <2> QED BY <2>1, <1>2
<1>15. CASE \E m \in Mutations, c \in Commands : DispatchStart(m, c)
    BY <1>2, <1>15 DEF DispatchStart, CanDispatch
<1>16. CASE \E m \in ForeignMutations, c \in Commands : ForeignCommit(m, c)
    BY <1>16 DEF ForeignCommit
<1>17. CASE Reload
    <2>1. tab' = tab /\ save' = save /\ outbox' = outbox  BY <1>17 DEF Reload
    <2>2. load'.pc = "fetching" => load.pc = "fetching" /\ load'.entries = load.entries
        BY <1>1, <1>17, LoadIs DEF Reload
    <2> QED BY <2>1, <2>2
<1> QED
    BY <1>3, <1>4, <1>5, <1>6, <1>7, <1>8, <1>9, <1>10, <1>11, <1>12, <1>13, <1>14, <1>15,
       <1>16, <1>17
       DEF Next, LoadNext, SaveNext, SaveDone, Failures, Crash, Environment
\* A flush that is asked for comes, or is noted by the one that runs.
LEMMA RequestedComes ==
    ASSUME Flushes(flush), flush' = Requested(flush)
    PROVE  flush'.pc # "idle" /\ (flush'.pc = "end" => flush'.again)
<1>1. CASE flush.pc = "idle"
    <2>1. flush' = NewFlush  BY <1>1 DEF Requested
    <2> QED BY <2>1 DEF NewFlush, NoFlush
<1>2. CASE flush.pc # "idle"
    <2>1. flush' = [flush EXCEPT !.again = TRUE]  BY <1>2 DEF Requested
    <2> QED BY <1>2, <2>1 DEF Flushes
<1> QED BY <1>1, <1>2

LEMMA ForgottenStep == ASSUME IInv, First, [Next]_vars, Forgotten', ~Stuck PROVE Forgotten
<1>1. /\ Tabs /\ Loads(load) /\ Saves(save) /\ Flushes(flush) /\ Dispatches(dispatch)
      /\ Hydrated /\ Recovered /\ outbox \in Seq(Entries)
    BY DEF IInv, Shape
<1>2. /\ tab'.hydration = "ready" /\ ~Stuck' /\ dispatch'.pc # "enqueued"
      /\ ~(Queued' \subseteq saved')
      /\ flush'.pc = "idle" \/ (flush'.pc = "end" /\ ~flush'.again)
    BY DEF Forgotten
<1>3. CASE UNCHANGED vars
    BY <1>3 DEF vars, daemonVars, history, Forgotten, Queued, Stuck
<1>4. CASE ClosePage  BY <1>2, <1>4 DEF ClosePage, NewTab
<1>5. CASE DaemonNext
    <2>1. /\ tab' = tab /\ dispatch' = dispatch /\ outbox' = outbox /\ saved \subseteq saved'
          /\ flush' = flush \/ flush'.pc = "replied"
        BY <1>1, <1>5 DEF DaemonNext, Serve, SaveServe, ServeOrphan, history, Flushes
    <2>2. Queued' = Queued /\ flush' = flush  BY <1>2, <2>1 DEF Queued
    <2> QED BY <1>2, <2>1, <2>2 DEF Forgotten
<1>6. CASE Reload \/ LoadFetch \/ LoadList \/ LoadSkip \/ LoadStart \/ LoadFails
           \/ SaveCheck \/ SaveFails \/ SaveStart
           \/ \E m \in ForeignMutations, c \in Commands : ForeignCommit(m, c)
    <2>1. /\ flush' = flush /\ dispatch' = dispatch /\ outbox' = outbox /\ saved' = saved
          /\ tab' = tab \/ LoadStart \/ LoadFails
        BY <1>6 DEF Reload, LoadFetch, LoadList, LoadSkip, LoadStart, LoadFails,
           SaveCheck, SaveFails, SaveStart, ForeignCommit, history
    <2>2. Queued' = Queued  BY <2>1 DEF Queued
    <2>3. tab.hydration = "ready"
        BY <1>1, <1>2, <2>1 DEF LoadStart, LoadFails, Tabs
    <2> QED BY <1>2, <2>1, <2>2, <2>3 DEF Forgotten
<1>7. CASE SaveAck \/ SaveAckFails
    <2>1. /\ save.pc = "acking" /\ tab' = tab /\ dispatch' = dispatch /\ flush' = flush
          /\ saved' = saved
        BY <1>7 DEF SaveAck, SaveAckFails, history
    <2>2. \A e \in ToSet(save.entries) : e.mutation \in saved
        BY <1>1, <2>1 DEF Recovered
    <2>3. CASE SaveAck
        <3>1. outbox # <<>> /\ outbox' = Tail(outbox)  BY <2>3 DEF SaveAck
        <3>2. DOMAIN outbox' = 1..Len(outbox) - 1 /\ DOMAIN outbox = 1..Len(outbox)
              /\ Len(outbox) \in Nat /\ \A i \in 1..Len(outbox) - 1 : outbox'[i] = outbox[i + 1]
            BY <1>1, <3>1
        <3>3. \A i \in 1..Len(outbox) - 1 : i + 1 \in 1..Len(outbox)  BY <3>2
        <3>4. Queued' \subseteq Queued  BY <3>2, <3>3 DEF Queued, ToSet
        <3> QED BY <1>2, <2>1, <3>4 DEF Forgotten
    <2>4. CASE SaveAckFails
        <3>1. outbox' = save.entries  BY <2>4 DEF SaveAckFails
        <3>2. Queued' \subseteq saved'  BY <2>1, <2>2, <3>1 DEF Queued
        <3> QED BY <1>2, <3>2
    <2> QED BY <1>7, <2>3, <2>4
<1>8. CASE LoadInstall
    <2> DEFINE r == Replay(load.envelope.document, load.entries)
    <2>1. /\ load.pc = "fetching" /\ load.entries # None /\ load.envelope # None
          /\ dispatch' = dispatch /\ outbox' = outbox /\ saved' = saved
          /\ tab' = [Show(load.envelope, r, load.entries) EXCEPT !.acknowledged = load.envelope.revision]
          /\ flush' = IF r.failed \/ load.entries = <<>> THEN flush ELSE Requested(flush)
        BY <1>8 DEF LoadInstall, Loaded, history
    <2>2. tab'.status = IF r.failed THEN "conflict"
                        ELSE IF load.entries = <<>> THEN "saved" ELSE "pending"
        BY <1>1, <2>1 DEF Show, Tabs
    <2> HIDE DEF r
    <2>3. ~r.failed  BY <1>2, <2>2 DEF Stuck
    <2>4. load.entries = <<>>
        <3>1. SUFFICES ASSUME load.entries # <<>> PROVE FALSE  OBVIOUS
        <3>2. flush' = Requested(flush)  BY <2>1, <2>3, <3>1
        <3> QED BY <1>1, <1>2, <3>2, RequestedComes
    <2>5. Queued' = Queued /\ flush' = flush  BY <2>1, <2>4 DEF Queued
    <2>6. tab.hydration = "ready"
        <3>1. SUFFICES ASSUME tab.hydration # "ready" PROVE FALSE  OBVIOUS
        <3>2. outbox' = <<>>  BY <2>1, <2>4, <3>1 DEF First
        <3>3. Queued' = {}  BY <3>2 DEF Queued, ToSet
        <3> QED BY <1>2, <3>3
    <2> QED BY <1>2, <2>1, <2>5, <2>6 DEF Forgotten
<1>9. CASE FlushCommands \/ RetryCommands \/ DispatchPublish
    <2>1. flush' = Requested(flush)
        BY <1>9 DEF FlushCommands, RetryCommands, DispatchPublish
    <2> QED BY <1>1, <1>2, <2>1, RequestedComes
<1>10. CASE DispatchEnqueue  BY <1>2, <1>10 DEF DispatchEnqueue
<1>11. CASE DispatchCompute \/ DispatchFails
            \/ \E m \in Mutations, c \in Commands : DispatchStart(m, c)
    <2>1. /\ flush' = flush /\ tab' = tab /\ outbox' = outbox /\ saved' = saved
          /\ dispatch.pc # "enqueued"
        BY <1>11 DEF DispatchCompute, DispatchFails, DispatchStart, history
    <2>2. Queued' = Queued  BY <2>1 DEF Queued
    <2> QED BY <1>2, <2>1, <2>2 DEF Forgotten
<1>12. CASE FlushEnd
    <2>1. /\ flush.pc = "end" /\ tab' = tab /\ dispatch' = dispatch /\ outbox' = outbox
          /\ saved' = saved /\ flush' = IF flush.again THEN NewFlush ELSE NoFlush
        BY <1>12 DEF FlushEnd, history
    <2>2. ~flush.again  BY <1>1, <1>2, <2>1 DEF NewFlush, NoFlush
    <2>3. Queued' = Queued  BY <2>1 DEF Queued
    <2> QED BY <1>2, <2>1, <2>2, <2>3 DEF Forgotten
<1>13. CASE FlushMore
    <2>1. /\ flush.pc = "more" /\ outbox' = outbox
          /\ outbox = <<>> \/ flush' = NewFlush
        BY <1>13 DEF FlushMore
    <2>2. outbox' = <<>>  BY <1>2, <2>1 DEF NewFlush, NoFlush
    <2>3. Queued' = {}  BY <2>2 DEF Queued, ToSet
    <2> QED BY <1>2, <2>3
<1>14. CASE FlushCheck
    <2>1. flush' = [flush EXCEPT !.pc = "more"]  BY <1>14 DEF FlushCheck
    <2> QED BY <1>1, <1>2, <2>1 DEF Flushes
<1>15. CASE \/ FlushStart \/ FlushPost \/ FlushAck \/ FlushStale \/ FlushRejected
            \/ FlushRefetch \/ FlushRebase \/ FlushConflict \/ FlushFailed
            \/ FlushFinish \/ FlushPublish \/ FlushLost
    <2>1. flush'.pc \notin {"idle", "end"}
        BY <1>1, <1>15
           DEF Flushes, FlushStart, FlushPost, FlushAck, FlushStale, FlushRejected, FlushRefetch,
               FlushRebase, FlushConflict, FlushFailed, FlushFinish, FlushPublish, FlushLost, Unawaited
    <2> QED BY <1>2, <2>1
<1> QED
    BY <1>3, <1>4, <1>5, <1>6, <1>7, <1>8, <1>9, <1>10, <1>11, <1>12, <1>13, <1>14, <1>15
       DEF Next, FlushNext, DispatchNext, LoadNext, SaveNext, SaveDone, Failures, Crash, Environment

\* No wake-up is lost (flushCommands, #drainCommands, #flushRequested): no step
\* leaves a command that is not sent yet in a store at rest, unless the store
\* says so or said so before.
THEOREM NothingForgotten == Spec => Drained
<1>1. Init => First  BY DEF Init, First, NewTab, NoSave, NoLoad
<1>2. IInv /\ First /\ [Next]_vars => First'  BY FirstStep
<1>3. IInv /\ First /\ [Next]_vars => [Forgotten' => Forgotten \/ Stuck]_vars
    BY ForgottenStep
<1> QED BY <1>1, <1>2, <1>3, Invariance, PTL DEF Spec, Drained
=============================================================================
