----------------------- MODULE CanvasCommandStoreProofs -----------------------
(***************************************************************************)
(* Theorems about CanvasCommandStore, for every set of callers, mutations, *)
(* commands and documents and every reducer.  Type correctness needs no    *)
(* hypothesis; the others assume that a file replacement that reports a    *)
(* failure left the old file (~LateFailures).                              *)
(***************************************************************************)
EXTENDS CanvasCommandStore, TLAPS

Running == {"decide", "ensure", "archive", "snapshot", "install"}
Writing == {"ensure", "archive", "snapshot", "install"}

\* Only the head of the queue is past the queue (#runExclusive), works on what
\* memory holds, and knows what it was asked.
Exclusive ==
  \A c \in Callers :
    /\ pc[c] # "idle" => request[c] \in Requests
    /\ pc[c] \in Running =>
         /\ MayRun(c)
         /\ memory \in Envelopes
         /\ current[c] = memory
    /\ pc[c] \in Writing => next[c] \in Envelopes

\* Memory and disk differ only between the replacement of the snapshot and the
\* assignment of #envelope.
Agreement ==
  /\ ServesDurable
  /\ \A c \in Callers : pc[c] = "install" => snapshot = next[c]

\* The five ways an operation derives the envelope it persists.
Mutates(e, n, q) ==
  /\ q.op \in {"commit", "commitLatest"}
  /\ ReceiptsFor(e, q.mutation) = {}
  /\ Apply(e.document, q.command) # Rejected
  /\ n = Successor(e, q, Apply(e.document, q.command))

Acknowledges(e, n, q) ==
  /\ q.op = "commitLatest"
  /\ ReceiptsFor(e, q.mutation) = {}
  /\ IsReplay(e.document, q.command)
  /\ n = Acknowledged(e, q)

Anchors(e, n, q) ==
  /\ q.op = "setLastCheckpoint"
  /\ n = [e EXCEPT !.checkpoint = q.checkpoint]

Materializes(e, n, q) ==
  /\ q.op = "materialize"
  /\ e.revision = 0
  /\ n = [revision |-> 1, document |-> q.document,
          checkpoint |-> q.checkpoint, receipts |-> {}]

Replaces(e, n, q) ==
  /\ q.op = "applyCheckpoint"
  /\ n = [revision |-> e.revision + 1, document |-> q.document,
           checkpoint |-> q.checkpoint, receipts |-> e.receipts]

Semantic(e, n, q) ==
  Mutates(e, n, q) \/ Materializes(e, n, q) \/ Replaces(e, n, q)

Derived(e, n, q) ==
  Semantic(e, n, q) \/ Acknowledges(e, n, q) \/ Anchors(e, n, q)

Work ==
  \A c \in Callers :
    /\ pc[c] \in Writing => Derived(memory, next[c], request[c])
    /\ pc[c] \in {"ensure", "archive"} => Semantic(memory, next[c], request[c])

\* The ledger is readable, and empty with the document at revision zero.
LedgerOK ==
  /\ Parses(Durable)
  /\ Durable.revision = 0 => /\ Durable.document = EmptyDocument
                             /\ Durable.receipts = {}

RecordOf(e) == [revision |-> e.revision, document |-> e.document]

\* One record per revision; the record of the current revision is in place
\* before the next one is written, and both before the snapshot moves.
ArchiveOK ==
  /\ \A x, y \in archive : x.revision = y.revision => x = y
  /\ NeverWedged
  /\ \A c \in Callers :
       /\ pc[c] = "archive" => RecordOf(memory) \in archive
       /\ pc[c] = "snapshot" /\ Semantic(memory, next[c], request[c]) =>
            /\ RecordOf(memory) \in archive
            /\ RecordOf(next[c]) \in archive

TypeInv == TypeOK /\ Exclusive

IInv ==
  /\ TypeInv
  /\ Agreement
  /\ Work
  /\ LedgerOK
  /\ ArchiveOK
  /\ AckedDurable
  /\ SeenReadable
------------------------------------------------------------------------------
USE DEF Running, Writing

LEMMA RequestTypes ==
  ASSUME NEW q \in Requests
  PROVE  /\ q.op \in {"commit", "commitLatest"} =>
              q.mutation \in Mutations /\ q.command \in Commands
         /\ q.op \in {"setLastCheckpoint", "materialize", "applyCheckpoint"} =>
              q.checkpoint \in Checkpoints
         /\ q.op \in {"materialize", "applyCheckpoint"} => q.document \in Documents
  BY DEF Requests

LEMMA ReducerTypes ==
  ASSUME NEW d \in Documents, NEW c \in Commands
  PROVE  /\ Apply(d, c) # Rejected => Apply(d, c) \in Documents
         /\ IsReplay(d, c) => Apply(d, c) = d /\ Apply(d, c) # Rejected
         /\ ~IsReplay(EmptyDocument, c)
  <1>1. Reducer[<<d, c>>] \in Documents \cup {Rejected}
    BY ReducerAssumption
  <1>2. IsReplay(d, c) => Reducer[<<d, c>>] = d
    BY ReceiptedAssumption DEF IsReplay
  <1>3. ~IsReplay(EmptyDocument, c)
    BY ReceiptedAssumption DEF IsReplay
  <1> QED BY <1>1, <1>2, <1>3, ReducerAssumption DEF Apply

\* What an operation derives from an envelope is an envelope.
LEMMA SuccessorType ==
  ASSUME NEW e \in Envelopes, NEW q \in Requests, NEW d \in Documents,
         q.op \in {"commit", "commitLatest"}
  PROVE  Successor(e, q, d) \in Envelopes
  <1>1. Receipt(q, e.revision + 1) \in Receipts
    BY RequestTypes DEF Receipt, Receipts, Envelopes
  <1>2. e.receipts \cup {Receipt(q, e.revision + 1)} \in SUBSET Receipts
    BY <1>1 DEF Envelopes
  <1>3. e.revision + 1 \in Nat /\ e.checkpoint \in Checkpoints \cup {NoCheckpoint}
    BY DEF Envelopes
  <1> HIDE DEF Receipts
  <1> QED BY <1>2, <1>3 DEF Successor, Envelopes

LEMMA AcknowledgedType ==
  ASSUME NEW e \in Envelopes, NEW q \in Requests, q.op = "commitLatest"
  PROVE  Acknowledged(e, q) \in Envelopes
  <1>1. Receipt(q, e.revision) \in Receipts
    BY RequestTypes DEF Receipt, Receipts, Envelopes
  <1>2. e.receipts \cup {Receipt(q, e.revision)} \in SUBSET Receipts
    BY <1>1 DEF Envelopes
  <1> QED BY <1>2 DEF Acknowledged, Envelopes

LEMMA DurableType ==
  ASSUME TypeOK
  PROVE  Durable \in Envelopes
  BY ReducerAssumption DEF TypeOK, Durable, EmptyEnvelope, Envelopes

\* The head of a queue leaves it.
LEMMA SettleTypes ==
  ASSUME TypeInv, NEW c \in Callers, MayRun(c), Settle(c)
  PROVE  /\ queue' \in Seq(Callers)
         /\ pc' \in [Callers -> {"idle", "queued"}]
         /\ request' \in [Callers -> Requests \cup {NoRequest}]
         /\ current' \in [Callers -> Envelopes \cup {NotLoaded}]
         /\ next' \in [Callers -> Envelopes \cup {NotLoaded}]
         /\ \A d \in Callers : pc'[d] # "idle" => request'[d] \in Requests
  <1>1. queue' \in Seq(Callers)
    BY DEF TypeInv, TypeOK, MayRun, Settle
  <1>2. \A d \in Callers : d # c => pc[d] \notin Running
    BY DEF TypeInv, Exclusive, MayRun
  <1>3. pc' \in [Callers -> {"idle", "queued"}]
    BY <1>2 DEF TypeInv, TypeOK, Settle
  <1> QED BY <1>1, <1>3 DEF TypeInv, TypeOK, Exclusive, Settle

\* A caller that settles leaves every other caller where it was.
LEMMA SettleTypeInv ==
  ASSUME TypeInv, NEW c \in Callers, MayRun(c), Settle(c),
         UNCHANGED <<snapshot, archive>>,
         memory' \in Envelopes \cup {NotLoaded},
         acked' \subseteq [mutation : Mutations, command : Commands],
         seen' \subseteq Nat \X Documents
  PROVE  TypeInv'
  <1>1. TypeOK'
    BY SettleTypes DEF TypeInv, TypeOK
  <1>2. Exclusive'
    BY SettleTypes DEF Exclusive
  <1> QED BY <1>1, <1>2 DEF TypeInv

LEMMA ThrowTypeInv ==
  ASSUME TypeInv, NEW c \in Callers, MayRun(c), Throw(c),
         UNCHANGED <<snapshot, archive, memory>>
  PROVE  TypeInv'
  <1>1. memory' \in Envelopes \cup {NotLoaded}
        /\ acked' \subseteq [mutation : Mutations, command : Commands]
        /\ seen' \subseteq Nat \X Documents
    BY DEF Throw, TypeInv, TypeOK
  <1> QED BY <1>1, SettleTypeInv DEF Throw

LEMMA ReturnTypeInv ==
  ASSUME TypeInv, NEW c \in Callers, MayRun(c), pc[c] \in Running,
         NEW e \in Envelopes, Return(c, e),
         UNCHANGED <<snapshot, archive>>,
         memory' \in Envelopes \cup {NotLoaded}
  PROVE  TypeInv'
  <1>1. request[c] \in Requests
    BY DEF TypeInv, Exclusive
  <1>2. Acked(request[c]) \subseteq [mutation : Mutations, command : Commands]
    BY <1>1, RequestTypes DEF Acked
  <1>3. <<e.revision, e.document>> \in Nat \X Documents
    BY DEF Envelopes
  <1> QED BY <1>2, <1>3, SettleTypeInv DEF Return, Show, TypeInv, TypeOK

\* A caller that starts to write leaves every other caller where it was.
LEMMA PersistTypeInv ==
  ASSUME TypeInv, NEW c \in Callers, MayRun(c), pc[c] = "decide",
         NEW n \in Envelopes, Persist(c, n) \/ PersistSnapshot(c, n),
         UNCHANGED <<snapshot, archive, memory>>
  PROVE  TypeInv'
  <1>1. TypeOK'
    BY DEF Persist, PersistSnapshot, TypeInv, TypeOK
  <1>2. Exclusive'
    BY DEF Persist, PersistSnapshot, TypeInv, TypeOK, Exclusive, MayRun
  <1> QED BY <1>1, <1>2 DEF TypeInv

\* A write step of the head of the queue that keeps next.
LEMMA AdvanceTypeInv ==
  ASSUME TypeInv, NEW c \in Callers, MayRun(c), pc[c] \in Writing,
         NEW p \in Writing, pc' = [pc EXCEPT ![c] = p],
         UNCHANGED <<memory, queue, request, current, next, acked, seen>>,
         snapshot' \in Envelopes \cup {NoSnapshot}, archive' \subseteq Records
  PROVE  TypeInv'
  <1>1. TypeOK'
    BY DEF TypeInv, TypeOK
  <1>2. Exclusive'
    BY DEF TypeInv, TypeOK, Exclusive, MayRun
  <1> QED BY <1>1, <1>2 DEF TypeInv

LEMMA LoadTypeInv ==
  ASSUME TypeInv, NEW c \in Callers, Load(c)
  PROVE  TypeInv'
  <1>1. memory' \in Envelopes
    BY DurableType DEF Load, TypeInv, TypeOK
  <1>2. TypeOK'
    BY <1>1 DEF Load, TypeInv, TypeOK
  <1>3. \A d \in Callers : d # c => pc[d] \notin Running
    BY DEF Load, TypeInv, Exclusive, MayRun
  <1>4. Exclusive'
    BY <1>1, <1>3 DEF Load, TypeInv, TypeOK, Exclusive, MayRun
  <1> QED BY <1>2, <1>4 DEF TypeInv

\* A decision throws, returns the envelope it read, starts to persist an
\* envelope derived from it, or reads the archive.
DecideOutcome(c, e, q) ==
  \/ Throw(c)
  \/ /\ Return(c, e)
     /\ q.op \in {"commit", "commitLatest"} => IsRetry(e, q)
  \/ \E n \in Envelopes : Persist(c, n) /\ Semantic(e, n, q)
  \/ \E n \in Envelopes :
       PersistSnapshot(c, n) /\ (Acknowledges(e, n, q) \/ Anchors(e, n, q))
  \/ DecideReadRevision(c, e, q)

LEMMA DecideRequestCases ==
  ASSUME NEW c \in Callers, NEW e \in Envelopes, NEW q \in Requests,
         DecideRequest(c, e, q)
  PROVE  DecideOutcome(c, e, q)
  <1>2. e.document \in Documents /\ e.revision \in Nat
    BY DEF Envelopes
  <1>3. ASSUME q.op \in {"commit", "commitLatest"}, ReceiptsFor(e, q.mutation) = {},
               Apply(e.document, q.command) # Rejected,
               Persist(c, Successor(e, q, Apply(e.document, q.command)))
        PROVE  DecideOutcome(c, e, q)
    <2> DEFINE n == Successor(e, q, Apply(e.document, q.command))
    <2>1. n \in Envelopes
      BY <1>2, <1>3, RequestTypes, ReducerTypes, SuccessorType
    <2>2. Semantic(e, n, q)
      BY <1>3 DEF Semantic, Mutates
    <2> HIDE DEF n
    <2> QED BY <1>3, <2>1, <2>2 DEF DecideOutcome, n
  <1>4. CASE DecideCommit(c, e, q)
    BY <1>3, <1>4 DEF DecideCommit, DecideSpent, DecideOutcome
  <1>5. CASE DecideCommitLatest(c, e, q)
    <2>1. CASE ReceiptsFor(e, q.mutation) = {} /\ IsReplay(e.document, q.command)
      <3>1. PersistSnapshot(c, Acknowledged(e, q)) /\ q.op = "commitLatest"
        BY <1>5, <2>1 DEF DecideCommitLatest, DecideSpent
      <3>2. Acknowledged(e, q) \in Envelopes
        BY <3>1, AcknowledgedType
      <3> QED BY <2>1, <3>1, <3>2 DEF DecideOutcome, Acknowledges
    <2>2. CASE ReceiptsFor(e, q.mutation) # {}
      BY <1>5, <2>2 DEF DecideCommitLatest, DecideSpent, DecideOutcome
    <2>3. CASE ReceiptsFor(e, q.mutation) = {} /\ ~IsReplay(e.document, q.command)
      BY <1>3, <1>5, <2>3 DEF DecideCommitLatest, DecideSpent, DecideOutcome
    <2> QED BY <2>1, <2>2, <2>3
  <1>6. CASE DecideSetLastCheckpoint(c, e, q)
    <2> DEFINE n == [e EXCEPT !.checkpoint = q.checkpoint]
    <2>1. q.op = "setLastCheckpoint"
      BY <1>6 DEF DecideSetLastCheckpoint
    <2>2. n \in Envelopes
      BY <2>1, RequestTypes DEF Envelopes
    <2>3. Anchors(e, n, q)
      BY <2>1 DEF Anchors
    <2>4. Throw(c) \/ Return(c, e) \/ PersistSnapshot(c, n)
      BY <1>6 DEF DecideSetLastCheckpoint
    <2> HIDE DEF n
    <2> QED BY <2>1, <2>2, <2>3, <2>4 DEF DecideOutcome
  <1>7. CASE DecideMaterialize(c, e, q)
    <2> DEFINE n == [revision |-> 1, document |-> q.document,
                     checkpoint |-> q.checkpoint, receipts |-> {}]
    <2>1. q.op = "materialize"
      BY <1>7 DEF DecideMaterialize
    <2>2. n \in Envelopes
      BY <2>1, RequestTypes DEF Envelopes
    <2>3. e.revision = 0 => Semantic(e, n, q)
      BY <2>1 DEF Semantic, Materializes
    <2>4. Throw(c) \/ (e.revision = 0 /\ Persist(c, n))
      BY <1>7 DEF DecideMaterialize
    <2> HIDE DEF n
    <2> QED BY <2>2, <2>3, <2>4 DEF DecideOutcome
  <1>8. CASE DecideApplyCheckpoint(c, e, q)
    <2> DEFINE n == [revision |-> e.revision + 1, document |-> q.document,
                      checkpoint |-> q.checkpoint, receipts |-> e.receipts]
    <2>1. q.op = "applyCheckpoint"
      BY <1>8 DEF DecideApplyCheckpoint
    <2>2. n \in Envelopes
      BY <2>1, RequestTypes DEF Envelopes
    <2>3. Semantic(e, n, q)
      BY <2>1 DEF Semantic, Replaces
    <2>4. Throw(c) \/ Persist(c, n)
      BY <1>8 DEF DecideApplyCheckpoint
    <2> HIDE DEF n
    <2> QED BY <2>2, <2>3, <2>4 DEF DecideOutcome
  <1>9. CASE DecideGet(c, e, q)
    BY <1>9 DEF DecideGet, DecideOutcome
  <1>10. CASE DecideReadRevision(c, e, q)
    BY <1>10 DEF DecideOutcome
  <1> QED BY <1>4, <1>5, <1>6, <1>7, <1>8, <1>9, <1>10 DEF DecideRequest

LEMMA DecideCases ==
  ASSUME TypeInv, NEW c \in Callers, Decide(c)
  PROVE  current[c] = memory /\ DecideOutcome(c, memory, request[c])
  <1>1. current[c] = memory /\ memory \in Envelopes /\ request[c] \in Requests
    BY DEF Decide, TypeInv, Exclusive
  <1>2. DecideRequest(c, memory, request[c])
    BY <1>1 DEF Decide
  <1> QED BY <1>1, <1>2, DecideRequestCases

\* What readRevision shows its caller.
LEMMA ReadRevisionShows ==
  ASSUME TypeInv, NEW c \in Callers, memory \in Envelopes,
         DecideReadRevision(c, memory, request[c])
  PROVE  /\ seen' \subseteq Nat \X Documents
         /\ \A s \in seen' :
              \/ s \in seen
              \/ s = <<memory.revision, memory.document>>
              \/ \E x \in archive : /\ x.revision < memory.revision
                                    /\ s = <<x.revision, x.document>>
  <1>1. \A x \in archive : x.revision \in Nat /\ x.document \in Documents
    BY DEF TypeInv, TypeOK, Records
  <1>2. memory.revision \in Nat /\ memory.document \in Documents
    BY DEF Envelopes
  <1>3. \A s \in seen' :
              \/ s \in seen
              \/ s = <<memory.revision, memory.document>>
              \/ \E x \in archive : /\ x.revision < memory.revision
                                    /\ s = <<x.revision, x.document>>
    BY DEF DecideReadRevision
  <1> QED BY <1>1, <1>2, <1>3 DEF TypeInv, TypeOK

LEMMA DecideTypeInv ==
  ASSUME TypeInv, NEW c \in Callers, Decide(c)
  PROVE  TypeInv'
  <1> DEFINE e == memory
             q == request[c]
  <1>1. /\ MayRun(c) /\ pc[c] = "decide"
        /\ UNCHANGED <<snapshot, archive, memory>>
        /\ DecideOutcome(c, e, q)
    BY DecideCases DEF Decide
  <1>2. e \in Envelopes
    BY <1>1 DEF TypeInv, Exclusive
  <1>3. e' \in Envelopes \cup {NotLoaded}
    BY <1>1, <1>2
  <1>4. CASE Throw(c)
    BY <1>1, <1>4, ThrowTypeInv
  <1>5. CASE Return(c, e)
    BY <1>1, <1>2, <1>3, <1>5, ReturnTypeInv
  <1>6. CASE \E n \in Envelopes : Persist(c, n) \/ PersistSnapshot(c, n)
    BY <1>1, <1>6, PersistTypeInv
  <1>7. CASE DecideReadRevision(c, e, q)
    <2>1. Settle(c) /\ acked' = acked
      BY <1>7 DEF DecideReadRevision
    <2>2. seen' \subseteq Nat \X Documents
      BY <1>2, <1>7, ReadRevisionShows
    <2> QED BY <1>1, <1>3, <2>1, <2>2, SettleTypeInv DEF TypeInv, TypeOK
  <1> QED BY <1>1, <1>4, <1>5, <1>6, <1>7 DEF DecideOutcome

LEMMA RecordType ==
  ASSUME TypeInv, NEW e \in Envelopes, WriteRecord(e)
  PROVE  archive' \subseteq Records
  BY DEF TypeInv, TypeOK, WriteRecord, Envelopes, Records

\* Type correctness is inductive together with the exclusion of operations.
LEMMA TypeInvStep ==
  ASSUME TypeInv, [Next]_vars
  PROVE  TypeInv'
  <1>1. ASSUME NEW c \in Callers, Serve(c) PROVE TypeInv'
    <2>1. CASE Load(c)
      BY <2>1, LoadTypeInv
    <2>2. CASE LoadFails(c) \/ RecordDisagrees(c) \/ WriteFails(c)
      BY <2>2, ThrowTypeInv DEF LoadFails, RecordDisagrees, WriteFails
    <2>3. CASE Decide(c)
      BY <2>3, DecideTypeInv
    <2>4. CASE EnsureRecord(c)
      <3>1. current[c] \in Envelopes
        BY <2>4 DEF EnsureRecord, TypeInv, Exclusive
      <3>2. archive' \subseteq Records
        BY <2>4, <3>1, RecordType DEF EnsureRecord
      <3> QED BY <2>4, <3>2, AdvanceTypeInv DEF EnsureRecord, TypeInv, TypeOK
    <2>5. CASE ArchiveNext(c)
      <3>1. next[c] \in Envelopes
        BY <2>5 DEF ArchiveNext, TypeInv, Exclusive
      <3>2. archive' \subseteq Records
        BY <2>5, <3>1, RecordType DEF ArchiveNext
      <3> QED BY <2>5, <3>2, AdvanceTypeInv DEF ArchiveNext, TypeInv, TypeOK
    <2>6. CASE ReplaceSnapshot(c)
      <3>1. next[c] \in Envelopes
        BY <2>6 DEF ReplaceSnapshot, TypeInv, Exclusive
      <3> QED BY <2>6, <3>1, AdvanceTypeInv DEF ReplaceSnapshot, TypeInv, TypeOK
    <2>7. CASE Install(c)
      <3>1. next[c] \in Envelopes
        BY <2>7 DEF Install, TypeInv, Exclusive
      <3> QED BY <2>7, <3>1, ReturnTypeInv DEF Install
    <2> QED BY <1>1, <2>1, <2>2, <2>3, <2>4, <2>5, <2>6, <2>7 DEF Serve
  <1>2. ASSUME NEW c \in Callers, NEW q \in Requests, Call(c, q) PROVE TypeInv'
    <2>1. TypeOK'
      BY <1>2 DEF Call, TypeInv, TypeOK
    <2>2. \A d \in Callers : MayRun(d) => MayRun(d)'
      BY <1>2 DEF Call, TypeInv, TypeOK, MayRun
    <2>3. Exclusive'
      BY <1>2, <2>2 DEF Call, TypeInv, TypeOK, Exclusive
    <2> QED BY <2>1, <2>3 DEF TypeInv
  <1>3. CASE Crash
    BY <1>3 DEF Crash, TypeInv, TypeOK, Exclusive
  <1>4. CASE Evict
    <2>1. \A c \in Callers : pc[c] \notin Running
      BY <1>4 DEF Evict, TypeInv, Exclusive, MayRun
    <2> QED BY <1>4, <2>1 DEF Evict, TypeInv, TypeOK, Exclusive
  <1>5. CASE UNCHANGED vars
    BY <1>5 DEF vars, TypeInv, TypeOK, Exclusive, MayRun
  <1> QED BY <1>1, <1>2, <1>3, <1>4, <1>5 DEF Next

LEMMA TypeInvInit ==
  ASSUME Init
  PROVE  TypeInv
  BY DEF Init, TypeInv, TypeOK, Exclusive

\* Every variable keeps its type, and only the operation at the head of
\* #operationTail is ever at work on the branch (runExclusive).
THEOREM TypeCorrect == Spec => []TypeOK
  <1>1. TypeInv /\ [Next]_vars => TypeInv'
    BY TypeInvStep
  <1>2. TypeInv => TypeOK
    BY DEF TypeInv
  <1> QED BY <1>1, <1>2, TypeInvInit, PTL DEF Spec

------------------------------------------------------------------------------
\* Safety.  While the head of the queue is at work no other operation is.
LEMMA OthersWait ==
  ASSUME TypeInv, NEW c \in Callers, MayRun(c)
  PROVE  \A d \in Callers : d # c => pc[d] \notin Running
  BY DEF TypeInv, Exclusive, MayRun

LEMMA DurableStable ==
  ASSUME UNCHANGED snapshot
  PROVE  Durable' = Durable
  BY DEF Durable

\* Before it replaces the snapshot, the operation at work sees what is on disk.
LEMMA WorksOnDurable ==
  ASSUME IInv, NEW c \in Callers, pc[c] \in Running \ {"install"}
  PROVE  /\ memory = Durable /\ current[c] = Durable /\ MayRun(c)
         /\ Durable \in Envelopes /\ request[c] \in Requests
  <1>1. MayRun(c) /\ memory \in Envelopes /\ current[c] = memory /\ request[c] \in Requests
    BY DEF IInv, TypeInv, Exclusive
  <1>2. \A d \in Callers : pc[d] # "install"
    BY <1>1, OthersWait DEF IInv
  <1>3. memory = Durable
    BY <1>1, <1>2, StoreValuesAssumption DEF IInv, Agreement, ServesDurable
  <1> QED BY <1>1, <1>3

\* A mutation that is acknowledged is the one its receipt names.
LEMMA AckedReceipt ==
  ASSUME NEW q, NEW a \in Acked(q), NEW revision
  PROVE  /\ Receipt(q, revision).mutation = a.mutation
         /\ Receipt(q, revision).command = a.command
  <1>1. a = [mutation |-> q.mutation, command |-> q.command]
    BY DEF Acked
  <1> QED BY <1>1 DEF Receipt

\* What an operation derives from a readable ledger is a readable ledger that
\* keeps every receipt; a semantic step advances the revision by one, any other
\* leaves revision and document.
LEMMA DerivedLedger ==
  ASSUME NEW e \in Envelopes, NEW n \in Envelopes, NEW q \in Requests,
         Derived(e, n, q), Parses(e),
         e.revision = 0 => e.document = EmptyDocument /\ e.receipts = {}
  PROVE  /\ Parses(n)
         /\ n.revision = 0 => n.document = EmptyDocument /\ n.receipts = {}
         /\ e.receipts \subseteq n.receipts
         /\ \A a \in Acked(q) : \E r \in n.receipts :
              r.mutation = a.mutation /\ r.command = a.command
         /\ Semantic(e, n, q) => n.revision = e.revision + 1
         /\ ~Semantic(e, n, q) => n.revision = e.revision /\ n.document = e.document
  <1>1. /\ e.revision \in Nat /\ e.document \in Documents /\ n.revision \in Nat
        /\ \A r \in e.receipts : r.revision \in Nat
    BY DEF Envelopes, Receipts
  <1>2. CASE Mutates(e, n, q)
    <2>1. /\ n.revision = e.revision + 1
          /\ n.receipts = e.receipts \cup {Receipt(q, e.revision + 1)}
          /\ \A r \in e.receipts : r.mutation # q.mutation
          /\ q.op \in {"commit", "commitLatest"}
      BY <1>2 DEF Mutates, Successor, ReceiptsFor
    <2>2. Parses(n)
      BY <1>1, <2>1 DEF Parses, Receipt
    <2>3. \A a \in Acked(q) : \E r \in n.receipts :
            r.mutation = a.mutation /\ r.command = a.command
      BY <2>1, AckedReceipt
    <2>4. Semantic(e, n, q)
      BY <1>2 DEF Semantic
    <2> QED BY <1>1, <2>1, <2>2, <2>3, <2>4
  <1>3. CASE Acknowledges(e, n, q)
    <2>1. /\ n.revision = e.revision /\ n.document = e.document
          /\ n.receipts = e.receipts \cup {Receipt(q, e.revision)}
          /\ \A r \in e.receipts : r.mutation # q.mutation
          /\ q.op = "commitLatest"
      BY <1>3 DEF Acknowledges, Acknowledged, ReceiptsFor, Envelopes
    <2>2. Parses(n)
      BY <1>1, <2>1 DEF Parses, Receipt
    <2>3. \A a \in Acked(q) : \E r \in n.receipts :
            r.mutation = a.mutation /\ r.command = a.command
      BY <2>1, AckedReceipt
    <2>4. e.revision # 0
      BY <1>3, <2>1, ReducerTypes, RequestTypes, ReducerAssumption DEF Acknowledges
    <2>5. ~Semantic(e, n, q)
      BY <1>1, <2>1 DEF Semantic, Mutates, Materializes, Replaces, Successor
    <2> QED BY <1>1, <2>1, <2>2, <2>3, <2>4, <2>5
  <1>4. CASE Anchors(e, n, q)
    <2>1. /\ n.revision = e.revision /\ n.document = e.document
          /\ n.receipts = e.receipts /\ q.op = "setLastCheckpoint"
      BY <1>4 DEF Anchors, Envelopes
    <2>2. ~Semantic(e, n, q)
      BY <2>1 DEF Semantic, Mutates, Materializes, Replaces
    <2> QED BY <2>1, <2>2 DEF Parses, Acked
  <1>5. CASE Materializes(e, n, q)
    <2>1. /\ e.revision = 0 /\ n.revision = 1 /\ n.receipts = {} /\ e.receipts = {}
          /\ q.op = "materialize"
      BY <1>5 DEF Materializes
    <2>2. Semantic(e, n, q)
      BY <1>5 DEF Semantic
    <2> QED BY <2>1, <2>2 DEF Parses, Acked
  <1>6. CASE Replaces(e, n, q)
    <2>1. /\ n.revision = e.revision + 1 /\ n.receipts = e.receipts
          /\ q.op = "applyCheckpoint"
      BY <1>6 DEF Replaces
    <2>2. Semantic(e, n, q)
      BY <1>6 DEF Semantic
    <2>3. Parses(n)
      BY <1>1, <2>1 DEF Parses
    <2> QED BY <1>1, <2>1, <2>2, <2>3 DEF Acked
  <1> QED BY <1>2, <1>3, <1>4, <1>5, <1>6 DEF Derived, Semantic

\* An operation that settles without touching a file leaves the store safe.
LEMMA SettleSafe ==
  ASSUME IInv, NEW c \in Callers, MayRun(c), Settle(c),
         UNCHANGED <<snapshot, archive>>,
         memory' # NotLoaded => memory' = Durable
  PROVE  Agreement' /\ Work' /\ LedgerOK' /\ ArchiveOK'
  <1>1. \A d \in Callers : pc'[d] \in {"idle", "queued"}
    BY SettleTypes DEF IInv
  <1>2. Durable' = Durable
    BY DurableStable
  <1> QED BY <1>1, <1>2 DEF IInv, Agreement, ServesDurable, Work, LedgerOK,
             ArchiveOK, NeverWedged, Disagrees

LEMMA ThrowSafe ==
  ASSUME IInv, NEW c \in Callers, MayRun(c), pc[c] # "install", Throw(c),
         UNCHANGED <<snapshot, archive, memory>>
  PROVE  Agreement' /\ Work' /\ LedgerOK' /\ ArchiveOK' /\ AckedDurable' /\ SeenReadable'
  <1>1. \A d \in Callers : pc[d] # "install"
    BY OthersWait DEF IInv
  <1>2. memory' # NotLoaded => memory' = Durable
    BY <1>1 DEF IInv, Agreement, ServesDurable
  <1>3. Durable' = Durable
    BY DurableStable
  <1> QED BY <1>2, <1>3, SettleSafe DEF Throw, IInv, AckedDurable, SeenReadable

\* An operation returns the durable envelope.
LEMMA ReturnSafe ==
  ASSUME IInv, NEW c \in Callers, MayRun(c), Return(c, Durable),
         UNCHANGED <<snapshot, archive>>, memory' = Durable,
         \A a \in Acked(request[c]) : \E r \in Durable.receipts :
           r.mutation = a.mutation /\ r.command = a.command
  PROVE  Agreement' /\ Work' /\ LedgerOK' /\ ArchiveOK' /\ AckedDurable' /\ SeenReadable'
  <1>1. Durable' = Durable
    BY DurableStable
  <1>2. AckedDurable'
    BY <1>1 DEF Return, IInv, AckedDurable
  <1>3. SeenReadable'
    BY <1>1 DEF Return, Show, IInv, SeenReadable
  <1> QED BY <1>2, <1>3, SettleSafe DEF Return

LEMMA LoadSafe ==
  ASSUME IInv, NEW c \in Callers, Load(c)
  PROVE  Agreement' /\ Work' /\ LedgerOK' /\ ArchiveOK' /\ AckedDurable' /\ SeenReadable'
  <1>1. \A d \in Callers : d # c => pc[d] \notin Running
    BY OthersWait DEF Load, IInv
  <1>2. \A d \in Callers : pc'[d] \notin Writing
    BY <1>1 DEF Load, IInv, TypeInv, TypeOK
  <1>3. Durable' = Durable
    BY DurableStable DEF Load
  <1>4. memory' = Durable
    BY <1>1 DEF Load, IInv, Agreement, ServesDurable
  <1>5. Agreement'
    BY <1>2, <1>3, <1>4 DEF Agreement, ServesDurable
  <1> QED BY <1>2, <1>3, <1>5 DEF Load, IInv, Work, LedgerOK, ArchiveOK, NeverWedged,
             Disagrees, AckedDurable, SeenReadable

LEMMA PersistSafe ==
  ASSUME IInv, NEW c \in Callers, pc[c] = "decide", MayRun(c), NEW n \in Envelopes,
         \/ Persist(c, n) /\ Semantic(memory, n, request[c])
         \/ /\ PersistSnapshot(c, n)
            /\ Acknowledges(memory, n, request[c]) \/ Anchors(memory, n, request[c]),
         UNCHANGED <<snapshot, archive, memory>>
  PROVE  Agreement' /\ Work' /\ LedgerOK' /\ ArchiveOK' /\ AckedDurable' /\ SeenReadable'
  <1>1. \A d \in Callers : d # c => pc[d] \notin Running
    BY OthersWait DEF IInv
  <1>2. Durable' = Durable
    BY DurableStable
  <1>3. memory = Durable /\ memory \in Envelopes /\ request[c] \in Requests
    BY WorksOnDurable
  <1>4. Derived(memory, n, request[c])
    BY DEF Derived
  <1>5. next'[c] = n /\ request' = request
        /\ \A d \in Callers : d # c => pc'[d] \notin Running
    BY <1>1 DEF Persist, PersistSnapshot, IInv, TypeInv, TypeOK
  <1>6. Agreement'
    BY <1>2, <1>3, <1>5 DEF Persist, PersistSnapshot, IInv, TypeInv, TypeOK, Agreement,
       ServesDurable
  <1>7. \/ pc'[c] = "ensure" /\ Semantic(memory, n, request[c])
        \/ /\ pc'[c] = "snapshot"
           /\ Acknowledges(memory, n, request[c]) \/ Anchors(memory, n, request[c])
    BY DEF Persist, PersistSnapshot, IInv, TypeInv, TypeOK
  <1>8. Work'
    BY <1>4, <1>5, <1>7 DEF Work
  <1>9. ~(pc'[c] = "snapshot" /\ Semantic(memory, n, request[c]))
    <2>1. memory.revision \in Nat
      BY <1>3 DEF Envelopes
    <2>2. Semantic(memory, n, request[c]) => n.revision = memory.revision + 1
      BY <1>3, <1>4, DerivedLedger DEF IInv, LedgerOK
    <2>3. Acknowledges(memory, n, request[c]) \/ Anchors(memory, n, request[c])
            => n.revision = memory.revision
      BY <1>3 DEF Acknowledges, Acknowledged, Anchors, Envelopes
    <2> QED BY <1>7, <2>1, <2>2, <2>3
  <1>10. pc'[c] # "archive"
    BY <1>7
  <1>11. ArchiveOK'
    BY <1>2, <1>5, <1>9, <1>10 DEF IInv, ArchiveOK, NeverWedged, Disagrees
  <1>12. LedgerOK'
    BY <1>2 DEF IInv, LedgerOK
  <1>13. AckedDurable' /\ SeenReadable'
    BY <1>2 DEF Persist, PersistSnapshot, IInv, AckedDurable, SeenReadable
  <1> QED BY <1>6, <1>8, <1>11, <1>12, <1>13

LEMMA DecideSafe ==
  ASSUME IInv, NEW c \in Callers, Decide(c)
  PROVE  Agreement' /\ Work' /\ LedgerOK' /\ ArchiveOK' /\ AckedDurable' /\ SeenReadable'
  <1>1. /\ MayRun(c) /\ pc[c] = "decide" /\ UNCHANGED <<snapshot, archive, memory>>
        /\ DecideOutcome(c, memory, request[c])
    BY DecideCases DEF Decide, IInv
  <1>2. memory = Durable /\ memory \in Envelopes /\ request[c] \in Requests
    BY <1>1, WorksOnDurable
  <1>3. CASE Throw(c)
    BY <1>1, <1>3, ThrowSafe
  <1>4. CASE /\ Return(c, memory)
             /\ request[c].op \in {"commit", "commitLatest"} => IsRetry(memory, request[c])
    <2>1. \A a \in Acked(request[c]) : \E r \in memory.receipts :
            r.mutation = a.mutation /\ r.command = a.command
      BY <1>4 DEF Acked, IsRetry, ReceiptsFor
    <2> QED BY <1>1, <1>2, <1>4, <2>1, ReturnSafe
  <1>5. CASE \E n \in Envelopes : Persist(c, n) /\ Semantic(memory, n, request[c])
    BY <1>1, <1>5, PersistSafe
  <1>6. CASE \E n \in Envelopes :
          /\ PersistSnapshot(c, n)
          /\ Acknowledges(memory, n, request[c]) \/ Anchors(memory, n, request[c])
    BY <1>1, <1>6, PersistSafe
  <1>7. CASE DecideReadRevision(c, memory, request[c])
    <2>1. Settle(c) /\ acked' = acked
      BY <1>7 DEF DecideReadRevision
    <2>2. Agreement' /\ Work' /\ LedgerOK' /\ ArchiveOK'
      BY <1>1, <1>2, <2>1, SettleSafe
    <2>3. Durable' = Durable
      BY <1>1, DurableStable
    <2>4. AckedDurable'
      BY <2>1, <2>3 DEF IInv, AckedDurable
    <2>5. \A x \in archive : x = [revision |-> x.revision, document |-> x.document]
      BY DEF IInv, TypeInv, TypeOK, Records
    <2>6. \A s \in seen' :
            \/ s \in seen
            \/ s = <<memory.revision, memory.document>>
            \/ \E x \in archive : /\ x.revision < memory.revision
                                  /\ s = <<x.revision, x.document>>
      BY <1>2, <1>7, ReadRevisionShows DEF IInv
    <2>7. SeenReadable'
      <3> SUFFICES ASSUME NEW s \in seen'
                   PROVE  \/ s = <<Durable.revision, Durable.document>>
                          \/ /\ s[1] < Durable.revision
                             /\ [revision |-> s[1], document |-> s[2]] \in archive
        BY <1>1, <2>3 DEF SeenReadable
      <3>1. CASE s \in seen
        BY <3>1 DEF IInv, SeenReadable
      <3>2. CASE \E x \in archive : /\ x.revision < memory.revision
                                    /\ s = <<x.revision, x.document>>
        BY <1>2, <2>5, <3>2
      <3> QED BY <1>2, <2>6, <3>1, <3>2
    <2> QED BY <2>2, <2>4, <2>7
  <1> QED BY <1>1, <1>3, <1>4, <1>5, <1>6, <1>7 DEF DecideOutcome

\* A record written for an envelope replaces only the record of its revision.
LEMMA WriteRecordEffect ==
  ASSUME IInv, NEW e \in Envelopes, WriteRecord(e)
  PROVE  /\ RecordOf(e) \in archive'
         /\ \A x \in archive' : x = RecordOf(e) \/ x \in archive
         /\ \A x \in archive' : x.revision = e.revision => x = RecordOf(e)
         /\ \A x \in archive : x.revision # e.revision => x \in archive'
         /\ \A x, y \in archive' : x.revision = y.revision => x = y
  BY DEF IInv, ArchiveOK, WriteRecord, RecordOf

LEMMA EnsureSafe ==
  ASSUME IInv, NEW c \in Callers, EnsureRecord(c)
  PROVE  /\ Agreement' /\ Work' /\ LedgerOK' /\ ArchiveOK' /\ AckedDurable' /\ SeenReadable'
         /\ archive \subseteq archive'
  <1>1. \A d \in Callers : d # c => pc[d] \notin Running
    BY OthersWait DEF EnsureRecord, IInv
  <1>2. Durable' = Durable
    BY DurableStable DEF EnsureRecord
  <1>3. memory = Durable /\ current[c] = Durable /\ Durable \in Envelopes
    BY WorksOnDurable DEF EnsureRecord
  <1>4. pc'[c] = "archive" /\ \A d \in Callers : d # c => pc'[d] = pc[d]
    BY DEF EnsureRecord, IInv, TypeInv, TypeOK
  <1>5. WriteRecord(Durable) /\ ~Disagrees(Durable) /\ pc[c] = "ensure"
    BY <1>3 DEF EnsureRecord
  <1>6. archive \subseteq archive'
    <2> SUFFICES ASSUME NEW x \in archive, x.revision = Durable.revision
                 PROVE  x = RecordOf(Durable)
      BY <1>3, <1>5, WriteRecordEffect
    <2>1. x = [revision |-> x.revision, document |-> x.document]
      BY DEF IInv, TypeInv, TypeOK, Records
    <2> QED BY <1>5, <2>1 DEF Disagrees, RecordOf
  <1>7. Agreement'
    BY <1>1, <1>2, <1>3, <1>4 DEF EnsureRecord, Agreement, ServesDurable
  <1>8. Work'
    BY <1>1, <1>4, <1>5 DEF EnsureRecord, IInv, Work
  <1>9. ~Disagrees(Durable)'
    <2>1. \A x \in archive' : x.revision = Durable.revision => x = RecordOf(Durable)
      BY <1>3, <1>5, WriteRecordEffect
    <2>2. RecordOf(Durable).document = Durable.document
      BY DEF RecordOf
    <2> QED BY <1>2, <2>1, <2>2 DEF Disagrees
  <1>10. ArchiveOK'
    BY <1>1, <1>3, <1>4, <1>5, <1>9, WriteRecordEffect
       DEF EnsureRecord, ArchiveOK, NeverWedged
  <1>11. SeenReadable'
    BY <1>2, <1>6 DEF EnsureRecord, IInv, SeenReadable
  <1>12. LedgerOK' /\ AckedDurable'
    BY <1>2 DEF EnsureRecord, IInv, LedgerOK, AckedDurable
  <1> QED BY <1>6, <1>7, <1>8, <1>10, <1>11, <1>12

LEMMA ArchiveNextSafe ==
  ASSUME IInv, NEW c \in Callers, ArchiveNext(c)
  PROVE  /\ Agreement' /\ Work' /\ LedgerOK' /\ ArchiveOK' /\ AckedDurable' /\ SeenReadable'
         /\ \A x \in archive : x.revision <= Durable.revision => x \in archive'
  <1>1. \A d \in Callers : d # c => pc[d] \notin Running
    BY OthersWait DEF ArchiveNext, IInv
  <1>2. Durable' = Durable
    BY DurableStable DEF ArchiveNext
  <1>3. /\ memory = Durable /\ current[c] = Durable /\ Durable \in Envelopes
        /\ request[c] \in Requests
    BY WorksOnDurable DEF ArchiveNext
  <1>4. pc'[c] = "snapshot" /\ \A d \in Callers : d # c => pc'[d] = pc[d]
    BY DEF ArchiveNext, IInv, TypeInv, TypeOK
  <1>5. /\ WriteRecord(next[c]) /\ next[c] \in Envelopes /\ pc[c] = "archive"
        /\ Semantic(memory, next[c], request[c])
        /\ RecordOf(Durable) \in archive
    BY <1>3 DEF ArchiveNext, IInv, TypeInv, Exclusive, Work, ArchiveOK
  <1>6. next[c].revision = Durable.revision + 1 /\ Durable.revision \in Nat
    BY <1>3, <1>5, DerivedLedger DEF IInv, LedgerOK, Derived, Envelopes
  <1>7. \A x \in archive : x.revision \in Nat
    BY DEF IInv, TypeInv, TypeOK, Records
  <1>8. \A x \in archive : x.revision <= Durable.revision => x \in archive'
    BY <1>5, <1>6, <1>7, WriteRecordEffect
  <1>9. Agreement'
    BY <1>1, <1>2, <1>3, <1>4 DEF ArchiveNext, Agreement, ServesDurable
  <1>10. Work'
    BY <1>1, <1>4, <1>5 DEF ArchiveNext, IInv, Work
  <1>11. ~Disagrees(Durable)'
    <2>1. \A x \in archive' :
            x.revision = Durable.revision => x = RecordOf(next[c]) \/ x \in archive
      BY <1>5, WriteRecordEffect
    <2>2. \A x \in archive :
            x.revision = Durable.revision => x.document = Durable.document
      BY DEF IInv, ArchiveOK, NeverWedged, Disagrees
    <2>3. \A x \in archive' :
            x.revision = Durable.revision => x.document = Durable.document
      BY <1>6, <2>1, <2>2 DEF RecordOf
    <2> QED BY <1>2, <2>3 DEF Disagrees
  <1>12. RecordOf(Durable) \in archive' /\ RecordOf(next[c]) \in archive'
    BY <1>5, <1>6, <1>8, WriteRecordEffect DEF RecordOf
  <1>13. ArchiveOK'
    BY <1>1, <1>3, <1>4, <1>5, <1>11, <1>12, WriteRecordEffect
       DEF ArchiveNext, ArchiveOK, NeverWedged
  <1>14. SeenReadable'
    <2> SUFFICES ASSUME NEW s \in seen
                 PROVE  \/ s = <<Durable.revision, Durable.document>>
                        \/ /\ s[1] < Durable.revision
                           /\ [revision |-> s[1], document |-> s[2]] \in archive'
      BY <1>2 DEF ArchiveNext, SeenReadable
    <2>1. s[1] \in Nat
      BY DEF IInv, TypeInv, TypeOK
    <2> QED BY <1>6, <1>8, <2>1 DEF IInv, SeenReadable
  <1>15. LedgerOK' /\ AckedDurable'
    BY <1>2 DEF ArchiveNext, IInv, LedgerOK, AckedDurable
  <1> QED BY <1>8, <1>9, <1>10, <1>13, <1>14, <1>15

\* Only the replacement of the snapshot moves what is durable, to what the
\* operation derived from it.
LEMMA ReplaceDerives ==
  ASSUME IInv, NEW c \in Callers, ReplaceSnapshot(c)
  PROVE  /\ Durable' = next[c] /\ next[c] \in Envelopes
         /\ memory = Durable /\ Durable \in Envelopes /\ request[c] \in Requests
         /\ Derived(Durable, next[c], request[c])
  <1>1. memory = Durable /\ Durable \in Envelopes /\ request[c] \in Requests
    BY WorksOnDurable DEF ReplaceSnapshot
  <1>2. next[c] \in Envelopes /\ Derived(Durable, next[c], request[c])
    BY <1>1 DEF ReplaceSnapshot, IInv, TypeInv, Exclusive, Work
  <1>3. Durable' = next[c]
    BY <1>2, StoreValuesAssumption DEF ReplaceSnapshot, Durable
  <1> QED BY <1>1, <1>2, <1>3

LEMMA ReplaceSafe ==
  ASSUME IInv, NEW c \in Callers, ReplaceSnapshot(c)
  PROVE  Agreement' /\ Work' /\ LedgerOK' /\ ArchiveOK' /\ AckedDurable' /\ SeenReadable'
  <1> DEFINE n == next[c]
             q == request[c]
  <1>1. \A d \in Callers : d # c => pc[d] \notin Running
    BY OthersWait DEF ReplaceSnapshot, IInv
  <1>2. memory = Durable /\ Durable \in Envelopes /\ q \in Requests
    BY ReplaceDerives
  <1>3. pc'[c] = "install" /\ \A d \in Callers : d # c => pc'[d] = pc[d]
    BY DEF ReplaceSnapshot, IInv, TypeInv, TypeOK
  <1>4. /\ n \in Envelopes /\ pc[c] = "snapshot" /\ Derived(Durable, n, q)
        /\ Semantic(Durable, n, q) => RecordOf(Durable) \in archive /\ RecordOf(n) \in archive
    BY <1>2, ReplaceDerives DEF ReplaceSnapshot, IInv, ArchiveOK
  <1>5. Durable' = n
    BY ReplaceDerives
  <1>6. /\ Parses(n)
        /\ n.revision = 0 => n.document = EmptyDocument /\ n.receipts = {}
        /\ Durable.receipts \subseteq n.receipts
        /\ Semantic(Durable, n, q) => n.revision = Durable.revision + 1
        /\ ~Semantic(Durable, n, q) =>
             n.revision = Durable.revision /\ n.document = Durable.document
    BY <1>2, <1>4, DerivedLedger DEF IInv, LedgerOK
  <1>7. Agreement'
    BY <1>1, <1>3 DEF ReplaceSnapshot, Agreement, ServesDurable
  <1>8. Work'
    BY <1>1, <1>2, <1>3, <1>4 DEF ReplaceSnapshot, Work
  <1>9. LedgerOK'
    BY <1>5, <1>6 DEF LedgerOK
  <1>10. ~Disagrees(Durable)'
    BY <1>4, <1>5, <1>6 DEF ReplaceSnapshot, IInv, ArchiveOK, NeverWedged, Disagrees, RecordOf
  <1>11. ArchiveOK'
    BY <1>1, <1>3, <1>10 DEF ReplaceSnapshot, IInv, ArchiveOK, NeverWedged
  <1>12. AckedDurable'
    BY <1>5, <1>6 DEF ReplaceSnapshot, IInv, AckedDurable
  <1>13. SeenReadable'
    <2> SUFFICES ASSUME NEW s \in seen
                 PROVE  \/ s = <<n.revision, n.document>>
                        \/ /\ s[1] < n.revision
                           /\ [revision |-> s[1], document |-> s[2]] \in archive
      BY <1>5 DEF ReplaceSnapshot, SeenReadable
    <2>1. s[1] \in Nat /\ Durable.revision \in Nat
      BY <1>2 DEF IInv, TypeInv, TypeOK, Envelopes
    <2>2. CASE Semantic(Durable, n, q)
      BY <1>4, <1>6, <2>1, <2>2 DEF IInv, SeenReadable, RecordOf
    <2>3. CASE ~Semantic(Durable, n, q)
      BY <1>6, <2>3 DEF IInv, SeenReadable
    <2> QED BY <2>2, <2>3
  <1> QED BY <1>7, <1>8, <1>9, <1>11, <1>12, <1>13

LEMMA InstallSafe ==
  ASSUME IInv, NEW c \in Callers, Install(c)
  PROVE  Agreement' /\ Work' /\ LedgerOK' /\ ArchiveOK' /\ AckedDurable' /\ SeenReadable'
  <1>1. /\ MayRun(c) /\ pc[c] = "install" /\ next[c] \in Envelopes
        /\ memory \in Envelopes /\ request[c] \in Requests
    BY DEF Install, IInv, TypeInv, Exclusive
  <1>2. Durable = next[c]
    BY <1>1, StoreValuesAssumption DEF IInv, Agreement, Durable
  <1>3. Derived(memory, next[c], request[c])
    BY <1>1 DEF IInv, Work
  <1>4. \A a \in Acked(request[c]) : \E r \in Durable.receipts :
           r.mutation = a.mutation /\ r.command = a.command
    <2>1. CASE Mutates(memory, next[c], request[c])
      <3>1. Receipt(request[c], memory.revision + 1) \in next[c].receipts
        BY <2>1 DEF Mutates, Successor
      <3> QED BY <1>2, <3>1, AckedReceipt
    <2>2. CASE Acknowledges(memory, next[c], request[c])
      <3>1. Receipt(request[c], memory.revision) \in next[c].receipts
        BY <1>1, <2>2 DEF Acknowledges, Acknowledged, Envelopes
      <3> QED BY <1>2, <3>1, AckedReceipt
    <2>3. CASE request[c].op \notin {"commit", "commitLatest"}
      BY <2>3 DEF Acked
    <2> QED BY <1>3, <2>1, <2>2, <2>3
            DEF Derived, Semantic, Materializes, Replaces, Anchors
  <1> QED BY <1>1, <1>2, <1>4, ReturnSafe DEF Install

\* Nothing running: files, memory and ledger as they were, or memory gone.
LEMMA IdleSafe ==
  ASSUME IInv, UNCHANGED <<snapshot, archive, acked, seen>>,
         memory' = NotLoaded, \A c \in Callers : pc'[c] \notin Running
  PROVE  Agreement' /\ Work' /\ LedgerOK' /\ ArchiveOK' /\ AckedDurable' /\ SeenReadable'
  <1>1. Durable' = Durable
    BY DurableStable
  <1> QED BY <1>1 DEF IInv, Agreement, ServesDurable, Work, LedgerOK, ArchiveOK,
             NeverWedged, Disagrees, AckedDurable, SeenReadable

LEMMA CallSafe ==
  ASSUME IInv, NEW c \in Callers, NEW q \in Requests, Call(c, q)
  PROVE  Agreement' /\ Work' /\ LedgerOK' /\ ArchiveOK' /\ AckedDurable' /\ SeenReadable'
  <1>1. Durable' = Durable
    BY DurableStable DEF Call
  <1>2. \A d \in Callers : /\ d # c => pc'[d] = pc[d] /\ request'[d] = request[d]
                           /\ pc'[c] = "queued"
    BY DEF Call, IInv, TypeInv, TypeOK
  <1>3. pc[c] = "idle"
    BY DEF Call
  <1> QED BY <1>1, <1>2, <1>3 DEF Call, IInv, Agreement, ServesDurable, Work, LedgerOK,
             ArchiveOK, NeverWedged, Disagrees, AckedDurable, SeenReadable

LEMMA IInvStep ==
  ASSUME ~LateFailures, IInv, [Next]_vars
  PROVE  IInv'
  <1>0. TypeInv'
    BY TypeInvStep DEF IInv
  <1> SUFFICES Agreement' /\ Work' /\ LedgerOK' /\ ArchiveOK' /\ AckedDurable' /\ SeenReadable'
    BY <1>0 DEF IInv
  <1>1. ASSUME NEW c \in Callers, Serve(c)
        PROVE  Agreement' /\ Work' /\ LedgerOK' /\ ArchiveOK' /\ AckedDurable' /\ SeenReadable'
    <2>1. CASE LoadFails(c) \/ RecordDisagrees(c) \/ WriteFails(c)
      BY <2>1, ThrowSafe DEF LoadFails, RecordDisagrees, WriteFails
    <2> QED BY <1>1, <2>1, LoadSafe, DecideSafe, EnsureSafe, ArchiveNextSafe, ReplaceSafe,
               InstallSafe DEF Serve
  <1>2. CASE Crash
    BY <1>2, IdleSafe DEF Crash
  <1>3. CASE Evict
    <2>1. \A c \in Callers : pc[c] \notin Running
      BY <1>3 DEF Evict, IInv, TypeInv, Exclusive, MayRun
    <2> QED BY <1>3, <2>1, IdleSafe DEF Evict
  <1>4. CASE UNCHANGED vars
    <2>1. Durable' = Durable
      BY <1>4, DurableStable DEF vars
    <2> QED BY <1>4, <2>1 DEF vars, IInv, Agreement, ServesDurable, Work, LedgerOK,
               ArchiveOK, NeverWedged, Disagrees, AckedDurable, SeenReadable
  <1> QED BY <1>1, <1>2, <1>3, <1>4, CallSafe DEF Next

LEMMA IInvInit ==
  ASSUME Init
  PROVE  IInv
  <1>1. Durable = EmptyEnvelope
    BY DEF Init, Durable
  <1>2. /\ Durable.revision = 0 /\ Durable.document = EmptyDocument
        /\ Durable.receipts = {}
    BY <1>1 DEF EmptyEnvelope
  <1> QED BY <1>2, TypeInvInit DEF Init, IInv, Agreement, ServesDurable, Work, LedgerOK,
             Parses, ArchiveOK, NeverWedged, Disagrees, AckedDurable, SeenReadable

LEMMA Invariance ==
  ASSUME ~LateFailures
  PROVE  Spec => []IInv
  <1>1. IInv /\ [Next]_vars => IInv'
    BY IInvStep
  <1> QED BY <1>1, IInvInit, PTL DEF Spec

\* Acknowledged mutations survive crashes, evictions and failed operations.
THEOREM AcknowledgedMutationsSurvive ==
  ASSUME ~LateFailures
  PROVE  Spec => []AckedDurable
  <1>1. IInv => AckedDurable
    BY DEF IInv
  <1> QED BY <1>1, Invariance, PTL

\* Every revision a client was ever shown reads back as what it was shown.
THEOREM ShownRevisionsReadBack ==
  ASSUME ~LateFailures
  PROVE  Spec => []SeenReadable
  <1>1. IInv => SeenReadable
    BY DEF IInv
  <1> QED BY <1>1, Invariance, PTL

\* No interruption leaves a branch that can no longer load or commit.
THEOREM BranchStaysUsable ==
  ASSUME ~LateFailures
  PROVE  Spec => [](SnapshotLoads /\ NeverWedged)
  <1>1. IInv => SnapshotLoads /\ NeverWedged
    BY DEF IInv, LedgerOK, SnapshotLoads, ArchiveOK
  <1> QED BY <1>1, Invariance, PTL

\* The envelope the daemon answers from is the one on disk whenever no write is
\* under way, so that a restart takes nothing back.
THEOREM ServesWhatIsDurable ==
  ASSUME ~LateFailures
  PROVE  Spec => []ServesDurable
  <1>1. IInv => ServesDurable
    BY DEF IInv, Agreement
  <1> QED BY <1>1, Invariance, PTL

\* The archive is append-only up to the durable revision.
THEOREM ArchiveIsImmutable ==
  ASSUME ~LateFailures
  PROVE  Spec => RecordsImmutable
  <1> DEFINE Kept == \A x \in archive : x.revision <= Durable.revision => x \in archive'
  <1>1. IInv /\ [Next]_vars => [Kept]_vars
    <2> SUFFICES ASSUME IInv, Next PROVE archive' = archive \/ Kept
      OBVIOUS
    <2>1. ASSUME NEW c \in Callers, Serve(c) PROVE archive' = archive \/ Kept
      BY <2>1, EnsureSafe, ArchiveNextSafe
         DEF Serve, Load, LoadFails, Decide, RecordDisagrees, ReplaceSnapshot, Install, WriteFails
    <2> QED BY <2>1 DEF Next, Call, Crash, Evict
  <1> QED BY <1>1, Invariance, PTL DEF Spec, RecordsImmutable

\* A step of the store is a step of the ledger, or none.
LEMMA LedgerStep ==
  ASSUME IInv, [Next]_vars
  PROVE  [Ledger!Next]_(Ledger!vars)
  <1>1. CASE UNCHANGED snapshot
    BY <1>1, DurableStable DEF Ledger!vars
  <1>2. ASSUME NEW c \in Callers, ReplaceSnapshot(c)
        PROVE  Ledger!Next \/ UNCHANGED Ledger!vars
    <2> DEFINE n == next[c]
               q == request[c]
    <2>1. /\ Durable' = n /\ n \in Envelopes /\ Durable \in Envelopes /\ q \in Requests
          /\ Derived(Durable, n, q)
      BY <1>2, ReplaceDerives
    <2> HIDE DEF n, q
    <2>2. CASE Mutates(Durable, n, q)
      <3>1. q.mutation \in Mutations /\ q.command \in Commands
        BY <2>1, <2>2, RequestTypes DEF Mutates
      <3>2. Ledger!Mutate(q.mutation, q.command)
        BY <2>1, <2>2
           DEF Mutates, Successor, Receipt, ReceiptsFor, Ledger!Mutate, Ledger!Spent,
               Ledger!Apply, Apply
      <3> QED BY <3>1, <3>2 DEF Ledger!Next
    <2>3. CASE Acknowledges(Durable, n, q)
      <3>1. q.mutation \in Mutations /\ q.command \in Commands
        BY <2>1, <2>3, RequestTypes DEF Acknowledges
      <3>2. n.revision = Durable.revision /\ n.document = Durable.document
            /\ n.checkpoint = Durable.checkpoint
            /\ n.receipts = Durable.receipts \cup {Receipt(q, Durable.revision)}
        BY <2>1, <2>3 DEF Acknowledges, Acknowledged, Envelopes
      <3>3. Ledger!Acknowledge(q.mutation, q.command)
        BY <2>1, <2>3, <3>2
           DEF Acknowledges, Receipt, ReceiptsFor, Ledger!Acknowledge, Ledger!Spent,
               Ledger!IsReplay, IsReplay
      <3> QED BY <3>1, <3>3 DEF Ledger!Next
    <2>4. CASE Anchors(Durable, n, q)
      <3>1. q.checkpoint \in Checkpoints
        BY <2>1, <2>4, RequestTypes DEF Anchors
      <3>2. n.revision = Durable.revision /\ n.document = Durable.document
            /\ n.checkpoint = q.checkpoint /\ n.receipts = Durable.receipts
        BY <2>1, <2>4 DEF Anchors, Envelopes
      <3>3. Ledger!Anchor(q.checkpoint)
        BY <2>1, <3>2 DEF Ledger!Anchor
      <3> QED BY <3>1, <3>3 DEF Ledger!Next
    <2>5. CASE Materializes(Durable, n, q) \/ Replaces(Durable, n, q)
      <3>1. q.checkpoint \in Checkpoints /\ q.document \in Documents
        BY <2>1, <2>5, RequestTypes DEF Materializes, Replaces
      <3>2. Durable.revision = 0 => Durable.receipts = {}
        BY DEF IInv, LedgerOK
      <3>3. n.revision = Durable.revision + 1 /\ n.document = q.document
            /\ n.checkpoint = q.checkpoint /\ n.receipts = Durable.receipts
        BY <2>5, <3>2 DEF Materializes, Replaces
      <3>4. Ledger!Replace(q.document, q.checkpoint)
        BY <2>1, <3>3 DEF Ledger!Replace
      <3> QED BY <3>1, <3>4 DEF Ledger!Next
    <2> QED BY <2>1, <2>2, <2>3, <2>4, <2>5 DEF Derived, Semantic
  <1> QED BY <1>1, <1>2
          DEF Next, vars, Serve, Load, LoadFails, Decide, EnsureRecord, RecordDisagrees,
              ArchiveNext, Install, WriteFails, Call, Crash, Evict

\* The store implements the exactly-once ledger: whatever is interrupted, the
\* durable snapshot moves by whole mutations and spends each mutation id once.
THEOREM StoreImplementsLedger ==
  ASSUME ~LateFailures
  PROVE  Spec => ImplementsLedger
  <1>1. Init => Ledger!Init
    <2>1. Init => Durable = EmptyEnvelope
      BY DEF Init, Durable
    <2> QED BY <2>1 DEF EmptyEnvelope, Ledger!Init
  <1>2. IInv /\ [Next]_vars => [Ledger!Next]_(Ledger!vars)
    BY LedgerStep
  <1> QED BY <1>1, <1>2, Invariance, PTL DEF Spec, ImplementsLedger, Ledger!Spec
==============================================================================
