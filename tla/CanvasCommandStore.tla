-------------------------- MODULE CanvasCommandStore --------------------------
(***************************************************************************)
(* daemon/canvasCommandStore.ts: the durable command/CAS boundary of one   *)
(* Canvas branch.  Concurrent requests queue on #operationTail; the one at *)
(* the head loads the snapshot if need be, decides, and then persists in   *)
(* three separate file replacements (the archive record of the current     *)
(* revision if it is missing, the archive record of the next one, the      *)
(* snapshot) before memory moves on.  The daemon may crash between any two *)
(* of those steps, and any of them may fail.                               *)
(*                                                                         *)
(* A file replacement is atomic (daemon/atomic-file.ts): it fails before   *)
(* its rename and leaves the old file.  With LateFailures the last step of *)
(* atomicWriteText, the fsync of the directory, may fail too: the caller   *)
(* sees an error although the file has been replaced.                      *)
(*                                                                         *)
(* Not modelled: updatedAt, lastMutationId and branch, which no step       *)
(* reads; lstat checks on the managed paths.  MaxRevision bounds the       *)
(* requests TLC enumerates and no theorem mentions it.                     *)
(***************************************************************************)
EXTENDS Naturals, Sequences, CanvasReducer

CONSTANTS
  Callers,          \* concurrent requests of one daemon
  Mutations,        \* mutation ids
  Checkpoints,      \* Git object ids of canvas checkpoints
  NoCheckpoint,     \* lastCheckpoint = null
  NoSnapshot,       \* the snapshot file does not exist
  NotLoaded,        \* #envelope = null
  NoRequest,        \* the caller waits for nothing
  LateFailures,     \* may a directory fsync fail after its rename?
  MaxRevision       \* bound: no semantic request is made beyond it

ASSUME StoreAssumption ==
  /\ LateFailures \in BOOLEAN
  /\ MaxRevision \in Nat
  /\ NoCheckpoint \notin Checkpoints

Receipts == [mutation : Mutations, command : Commands, revision : Nat]

Envelopes == [revision   : Nat,
              document   : Documents,
              checkpoint : Checkpoints \cup {NoCheckpoint},
              receipts   : SUBSET Receipts]

Records == [revision : Nat, document : Documents]

Revisions == 0..MaxRevision

Requests ==
       [op : {"commit"}, base : Revisions, mutation : Mutations, command : Commands]
  \cup [op : {"commitLatest"}, mutation : Mutations, command : Commands]
  \cup [op : {"setLastCheckpoint"}, base : Revisions, checkpoint : Checkpoints]
  \cup [op : {"materialize"}, document : Documents, checkpoint : Checkpoints]
  \cup [op : {"applyCheckpoint"}, base : Revisions, document : Documents,
        checkpoint : Checkpoints]
  \cup [op : {"get"}]
  \cup [op : {"readRevision"}, base : Revisions]

ASSUME StoreValuesAssumption ==
  /\ NoSnapshot \notin Envelopes
  /\ NotLoaded \notin Envelopes

VARIABLES
  snapshot,   \* snapshot.json
  archive,    \* the records under revisions/, one per file
  memory,     \* #envelope
  queue,      \* #operationTail: the callers that wait, in order
  pc,         \* where each caller stands
  request,    \* what it asked
  current,    \* the envelope it captured
  next,       \* the envelope it persists
  acked,      \* history: the mutations some caller was told are committed
  seen        \* history: the <<revision, document>> pairs callers were shown

vars == <<snapshot, archive, memory, queue, pc, request, current, next,
          acked, seen>>

EmptyEnvelope == [revision |-> 0, document |-> EmptyDocument,
                  checkpoint |-> NoCheckpoint, receipts |-> {}]

\* What a daemon that starts now would load.
Durable == IF snapshot = NoSnapshot THEN EmptyEnvelope ELSE snapshot

Init ==
  /\ snapshot = NoSnapshot
  /\ archive = {}
  /\ memory = NotLoaded
  /\ queue = <<>>
  /\ pc = [c \in Callers |-> "idle"]
  /\ request = [c \in Callers |-> NoRequest]
  /\ current = [c \in Callers |-> NotLoaded]
  /\ next = [c \in Callers |-> NotLoaded]
  /\ acked = {}
  /\ seen = {}
------------------------------------------------------------------------------
\* Mutant: operations interleave at their awaits.
MayRunAtOnce(c) == queue # <<>>

\* #runExclusive: an operation starts when every earlier one has settled,
\* whichever way it settled.
MayRun(c) == queue # <<>> /\ Head(queue) = c

Settle(c) ==
  /\ queue' = Tail(queue)
  /\ pc' = [pc EXCEPT ![c] = "idle"]
  /\ request' = [request EXCEPT ![c] = NoRequest]
  /\ current' = [current EXCEPT ![c] = NotLoaded]
  /\ next' = [next EXCEPT ![c] = NotLoaded]

\* Mutant: a rejected operation leaves #operationTail rejected, so that the
\* operation behind it never starts.
ThrowAndBlock(c) ==
  /\ pc' = [pc EXCEPT ![c] = "idle"]
  /\ request' = [request EXCEPT ![c] = NoRequest]
  /\ UNCHANGED <<queue, current, next, acked, seen>>

\* The operation throws: nothing it might have told its caller is told.
Throw(c) == Settle(c) /\ UNCHANGED <<acked, seen>>

Show(e) == seen' = seen \cup {<<e.revision, e.document>>}

Acked(q) == IF q.op \in {"commit", "commitLatest"}
            THEN {[mutation |-> q.mutation, command |-> q.command]}
            ELSE {}

\* The operation returns an envelope: its mutation, if it has one, is
\* acknowledged, and its caller sees revision and document.
Return(c, e) ==
  /\ Settle(c)
  /\ Show(e)
  /\ acked' = acked \cup Acked(request[c])

Call(c, q) ==
  /\ pc[c] = "idle"
  /\ q.op \notin {"get", "readRevision"} =>
       Durable.revision + Len(queue) < MaxRevision
  /\ queue' = Append(queue, c)
  /\ pc' = [pc EXCEPT ![c] = "queued"]
  /\ request' = [request EXCEPT ![c] = q]
  /\ UNCHANGED <<snapshot, archive, memory, current, next, acked, seen>>
------------------------------------------------------------------------------
\* parseStoredEnvelope and parseMutationReceipts: the snapshot loads only if
\* no mutation id has two receipts and no receipt is ahead of the revision.
Parses(e) ==
  /\ \A r \in e.receipts : r.revision <= e.revision
  /\ \A r, s \in e.receipts : r.mutation = s.mutation => r = s

\* #ensureLoaded
Load(c) ==
  /\ MayRun(c) /\ pc[c] = "queued"
  /\ memory = NotLoaded => Parses(Durable)
  /\ memory' = IF memory = NotLoaded THEN Durable ELSE memory
  /\ current' = [current EXCEPT ![c] = memory']
  /\ pc' = [pc EXCEPT ![c] = "decide"]
  /\ UNCHANGED <<snapshot, archive, queue, request, next, acked, seen>>

\* The snapshot cannot be read, or does not parse.
LoadFails(c) ==
  /\ MayRun(c) /\ pc[c] = "queued"
  /\ memory = NotLoaded
  /\ Throw(c)
  /\ UNCHANGED <<snapshot, archive, memory>>

\* Mutant: the ledger is never consulted.
NoReceiptsFor(e, m) == {}

\* The receipts that spend the mutation id of a request.
ReceiptsFor(e, m) == {r \in e.receipts : r.mutation = m}

\* The digest matches: the operation is a retry and returns the envelope.
IsRetry(e, q) ==
  \E r \in ReceiptsFor(e, q.mutation) : r.command = q.command

Receipt(q, revision) ==
  [mutation |-> q.mutation, command |-> q.command, revision |-> revision]

Successor(e, q, document) ==
  [revision   |-> e.revision + 1,
   document   |-> document,
   checkpoint |-> e.checkpoint,
   receipts   |-> e.receipts \cup {Receipt(q, e.revision + 1)}]

\* Mutant: the record of the current revision is not ensured.
PersistWithoutCurrentRecord(c, n) ==
  /\ next' = [next EXCEPT ![c] = n]
  /\ pc' = [pc EXCEPT ![c] = "archive"]
  /\ UNCHANGED <<queue, request, current, acked, seen>>

\* Start to persist n with #persistSemanticEnvelope.
Persist(c, n) ==
  /\ next' = [next EXCEPT ![c] = n]
  /\ pc' = [pc EXCEPT ![c] = "ensure"]
  /\ UNCHANGED <<queue, request, current, acked, seen>>

\* Replace the snapshot alone: no semantic revision is made.
PersistSnapshot(c, n) ==
  /\ next' = [next EXCEPT ![c] = n]
  /\ pc' = [pc EXCEPT ![c] = "snapshot"]
  /\ UNCHANGED <<queue, request, current, acked, seen>>

\* commit and commitLatest before they write: a spent mutation id is answered
\* first, then the base revision is compared, then the reducer runs.
DecideSpent(c, e, q) ==
  /\ ReceiptsFor(e, q.mutation) # {}
  /\ IF IsRetry(e, q) THEN Return(c, e) ELSE Throw(c)

DecideCommit(c, e, q) ==
  /\ q.op = "commit"
  /\ \/ DecideSpent(c, e, q)
     \/ /\ ReceiptsFor(e, q.mutation) = {}
        /\ IF q.base # e.revision \/ Apply(e.document, q.command) = Rejected
           THEN Throw(c)
           ELSE Persist(c, Successor(e, q, Apply(e.document, q.command)))

Acknowledged(e, q) ==
  [e EXCEPT !.receipts = e.receipts \cup {Receipt(q, e.revision)}]

DecideCommitLatest(c, e, q) ==
  /\ q.op = "commitLatest"
  /\ \/ DecideSpent(c, e, q)
     \/ /\ ReceiptsFor(e, q.mutation) = {}
        /\ IsReplay(e.document, q.command)
        /\ PersistSnapshot(c, Acknowledged(e, q))
     \/ /\ ReceiptsFor(e, q.mutation) = {}
        /\ ~IsReplay(e.document, q.command)
        /\ IF Apply(e.document, q.command) = Rejected
           THEN Throw(c)
           ELSE Persist(c, Successor(e, q, Apply(e.document, q.command)))

DecideSetLastCheckpoint(c, e, q) ==
  /\ q.op = "setLastCheckpoint"
  /\ \/ e.revision # q.base /\ Throw(c)
     \/ /\ e.revision = q.base
        /\ IF e.checkpoint = q.checkpoint
           THEN Return(c, e)
           ELSE PersistSnapshot(c, [e EXCEPT !.checkpoint = q.checkpoint])

\* Mutant: materialize overwrites a branch that already has runtime state.
DecideMaterializeOverState(c, e, q) ==
  /\ q.op = "materialize"
  /\ Persist(c, [revision |-> e.revision + 1, document |-> q.document,
                 checkpoint |-> q.checkpoint, receipts |-> {}])

DecideMaterialize(c, e, q) ==
  /\ q.op = "materialize"
  /\ IF e.revision # 0 THEN Throw(c)
     ELSE Persist(c, [revision |-> 1, document |-> q.document,
                      checkpoint |-> q.checkpoint, receipts |-> {}])

DecideApplyCheckpoint(c, e, q) ==
  /\ q.op = "applyCheckpoint"
  /\ IF e.revision # q.base THEN Throw(c)
     ELSE Persist(c, [revision |-> e.revision + 1, document |-> q.document,
                       checkpoint |-> q.checkpoint, receipts |-> e.receipts])

DecideGet(c, e, q) == q.op = "get" /\ Return(c, e)

\* readRevision: null beyond the current revision or where the record is
\* missing, the current document, or the document of the record.
DecideReadRevision(c, e, q) ==
  /\ q.op = "readRevision"
  /\ Settle(c)
  /\ seen' = seen \cup
       IF q.base = e.revision THEN {<<e.revision, e.document>>}
       ELSE {<<x.revision, x.document>> :
              x \in {y \in archive : y.revision = q.base /\ q.base < e.revision}}
  /\ UNCHANGED acked

DecideRequest(c, e, q) ==
  \/ DecideCommit(c, e, q)
  \/ DecideCommitLatest(c, e, q)
  \/ DecideSetLastCheckpoint(c, e, q)
  \/ DecideMaterialize(c, e, q)
  \/ DecideApplyCheckpoint(c, e, q)
  \/ DecideGet(c, e, q)
  \/ DecideReadRevision(c, e, q)

Decide(c) ==
  /\ MayRun(c) /\ pc[c] = "decide"
  /\ DecideRequest(c, current[c], request[c])
  /\ UNCHANGED <<snapshot, archive, memory>>
------------------------------------------------------------------------------
\* atomicWriteText of revisions/<revision>.json
WriteRecord(e) ==
  archive' = {x \in archive : x.revision # e.revision}
             \cup {[revision |-> e.revision, document |-> e.document]}

\* #ensureRevisionRecord finds a record of another document.
Disagrees(e) ==
  \E x \in archive : x.revision = e.revision /\ x.document # e.document

EnsureRecord(c) ==
  /\ MayRun(c) /\ pc[c] = "ensure"
  /\ ~Disagrees(current[c])
  /\ WriteRecord(current[c])
  /\ pc' = [pc EXCEPT ![c] = "archive"]
  /\ UNCHANGED <<snapshot, memory, queue, request, current, next, acked, seen>>

RecordDisagrees(c) ==
  /\ MayRun(c) /\ pc[c] = "ensure"
  /\ Disagrees(current[c])
  /\ Throw(c)
  /\ UNCHANGED <<snapshot, archive, memory>>

\* Mutant: a record an interrupted operation left behind is kept.
ArchiveNextIfMissing(c) ==
  /\ MayRun(c) /\ pc[c] = "archive"
  /\ IF \E x \in archive : x.revision = next[c].revision
     THEN UNCHANGED archive
     ELSE WriteRecord(next[c])
  /\ pc' = [pc EXCEPT ![c] = "snapshot"]
  /\ UNCHANGED <<snapshot, memory, queue, request, current, next, acked, seen>>

ArchiveNext(c) ==
  /\ MayRun(c) /\ pc[c] = "archive"
  /\ WriteRecord(next[c])
  /\ pc' = [pc EXCEPT ![c] = "snapshot"]
  /\ UNCHANGED <<snapshot, memory, queue, request, current, next, acked, seen>>

ReplaceSnapshot(c) ==
  /\ MayRun(c) /\ pc[c] = "snapshot"
  /\ snapshot' = next[c]
  /\ pc' = [pc EXCEPT ![c] = "install"]
  /\ UNCHANGED <<archive, memory, queue, request, current, next, acked, seen>>

\* Mutant: memory keeps the envelope it had.
InstallNothing(c) ==
  /\ MayRun(c) /\ pc[c] = "install"
  /\ Return(c, next[c])
  /\ UNCHANGED <<snapshot, archive, memory>>

Install(c) ==
  /\ MayRun(c) /\ pc[c] = "install"
  /\ memory' = next[c]
  /\ Return(c, next[c])
  /\ UNCHANGED <<snapshot, archive>>

\* A file replacement fails before its rename, or (late) after it.
WriteFails(c) ==
  /\ MayRun(c)
  /\ \/ pc[c] \in {"ensure", "archive", "snapshot"}
     \/ LateFailures /\ pc[c] = "install"
  /\ Throw(c)
  /\ UNCHANGED <<snapshot, archive, memory>>
------------------------------------------------------------------------------
\* The daemon dies: files stay, everything else is gone and no caller hears.
Crash ==
  /\ memory' = NotLoaded
  /\ queue' = <<>>
  /\ pc' = [c \in Callers |-> "idle"]
  /\ request' = [c \in Callers |-> NoRequest]
  /\ current' = [c \in Callers |-> NotLoaded]
  /\ next' = [c \in Callers |-> NotLoaded]
  /\ UNCHANGED <<snapshot, archive, acked, seen>>

\* drainAndEvictProject: a drained store leaves the cache, the next request
\* builds a new one on the same files.
Evict ==
  /\ queue = <<>>
  /\ memory' = NotLoaded
  /\ UNCHANGED <<snapshot, archive, queue, pc, request, current, next,
                 acked, seen>>

Serve(c) ==
  \/ Load(c) \/ LoadFails(c) \/ Decide(c)
  \/ EnsureRecord(c) \/ RecordDisagrees(c) \/ ArchiveNext(c)
  \/ ReplaceSnapshot(c) \/ Install(c) \/ WriteFails(c)

Next ==
  \/ \E c \in Callers : Serve(c)
  \/ \E c \in Callers, q \in Requests : Call(c, q)
  \/ Crash
  \/ Evict

\* The event loop runs every settled continuation and every file operation
\* completes or fails.
Fairness == \A c \in Callers : WF_vars(Serve(c))

Spec == Init /\ [][Next]_vars
FairSpec == Spec /\ Fairness
------------------------------------------------------------------------------
\* Every variable has its type.
TypeOK ==
  /\ snapshot \in Envelopes \cup {NoSnapshot}
  /\ archive \subseteq Records
  /\ memory \in Envelopes \cup {NotLoaded}
  /\ queue \in Seq(Callers)
  /\ pc \in [Callers -> {"idle", "queued", "decide", "ensure", "archive",
                         "snapshot", "install"}]
  /\ request \in [Callers -> Requests \cup {NoRequest}]
  /\ current \in [Callers -> Envelopes \cup {NotLoaded}]
  /\ next \in [Callers -> Envelopes \cup {NotLoaded}]
  /\ acked \subseteq [mutation : Mutations, command : Commands]
  /\ seen \subseteq Nat \X Documents

\* A mutation some caller was told is committed has its receipt on disk, so a
\* retry after any crash, eviction or later write is recognised (lines 139-142
\* answer from that receipt).
AckedDurable ==
  \A a \in acked : \E r \in Durable.receipts :
    r.mutation = a.mutation /\ r.command = a.command

\* Whatever was interrupted, the snapshot a restart finds passes the checks of
\* parseMutationReceipts: the branch never becomes unreadable by its own ledger.
SnapshotLoads == Parses(Durable)

\* The archive never contradicts the snapshot: ensureRevisionRecord would
\* otherwise refuse every later commit of the branch, for ever.
NeverWedged == ~Disagrees(Durable)

\* A revision a caller was shown once can be read back as the very document it
\* was shown, after any later commit, failure and crash: the base that
\* saveConflictBranch replays an outbox on.
SeenReadable ==
  \A s \in seen :
    \/ s = <<Durable.revision, Durable.document>>
    \/ /\ s[1] < Durable.revision
       /\ [revision |-> s[1], document |-> s[2]] \in archive

\* While no snapshot replacement is in the air, the daemon serves exactly what
\* a restart would load.
ServesDurable ==
  memory # NotLoaded /\ (\A c \in Callers : pc[c] # "install")
    => memory = Durable

\* A record at or below the durable revision is never rewritten nor removed
\* ("Reads an immutable semantic revision", line 95).
RecordsImmutable ==
  [][\A x \in archive : x.revision <= Durable.revision => x \in archive']_vars

\* The store implements the ledger: files and crashes included, the durable
\* snapshot moves only by whole mutations, and each mutation id once.
Ledger == INSTANCE CanvasLedger WITH
  revision <- Durable.revision, document <- Durable.document,
  checkpoint <- Durable.checkpoint, receipts <- Durable.receipts

ImplementsLedger == Ledger!Spec

\* Every caller is answered, or lost with the daemon: an operation that throws
\* does not block the queue behind it.
Answered == \A c \in Callers : pc[c] = "queued" ~> pc[c] = "idle"
==============================================================================
