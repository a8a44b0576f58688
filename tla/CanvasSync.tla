------------------------------ MODULE CanvasSync ------------------------------
(***************************************************************************)
(* One browser tab keeps one Canvas branch in step with the daemon:        *)
(* src/src/canvas/store.ts (CanvasStore), daemonClient.ts (flushOutbox)    *)
(* and persistence.ts (the IndexedDB outbox).  The tab publishes a command *)
(* optimistically once it is in the outbox, a flush posts the outbox one   *)
(* command at a time, a reload replaces the document, a conflict may be    *)
(* saved as a branch.  These four run concurrently and interleave at their *)
(* awaits; the outbox lock serialises only their critical sections.        *)
(*                                                                         *)
(* The daemon's branch is the ledger CanvasLedger, which the daemon's      *)
(* CanvasCommandStore implements; other clients and runs commit to it too. *)
(* A request or its reply may be lost, a request may be served after the   *)
(* tab gave it up, and the page may be closed at any moment: only the      *)
(* outbox survives.                                                        *)
(*                                                                         *)
(* Not modelled: the view state; commands that name a trusted plan or      *)
(* detach an instance (they go through the projection and the instance     *)
(* service); a second tab on the same outbox; the limit of 500 conflict    *)
(* mutations.  A busy task refuses a command with a 409 that names no      *)
(* revision: to the tab that is an error like a lost request.  A command   *)
(* is opaque.  MaxOrphans bounds the requests under way that nobody awaits.*)
(***************************************************************************)
EXTENDS Naturals, FiniteSets, SequencesExt, CanvasReducer

CONSTANTS
  Mutations,         \* mutation ids this tab may dispatch (random UUIDs)
  ForeignMutations,  \* mutation ids of the other writers of the branch
  None,              \* null, or not there yet
  MaxOrphans         \* bound: requests given up and still under way

ASSUME SyncAssumption ==
  /\ Mutations \cap ForeignMutations = {}
  /\ MaxOrphans \in Nat

Entries == [mutation : Mutations, command : Commands,
            base     : Nat,       \* baseRevision, what a request sends
            initial  : Nat]       \* initialBaseRevision, what a branch is cut from

Envelopes == [revision : Nat, document : Documents]

ASSUME SyncValuesAssumption ==
  /\ None \notin Envelopes \cup Entries
  /\ None \notin Seq(Entries)

VARIABLES
  revision, document, receipts,   \* the daemon's branch
  archive,    \* its revisions, archive[r + 1] for revision r
  outbox,     \* the IndexedDB outbox of the branch, as list() sorts it
  tab,        \* CanvasStoreState and #acknowledgedRevision
  dispatch,   \* the dispatch at the head of #enqueueTail
  flush,      \* #drainCommands, its flushOutbox and #flushRequested
  load,       \* #load, the reload loop around it and #reloadRequested
  save,       \* saveConflictAsBranch
  orphans,    \* requests the tab gave up and the daemon may still serve
  dispatched, \* history: the mutations made durable, in dispatch order
  saved       \* history: the mutations that conflict branches hold

daemonVars == <<revision, document, receipts, archive>>
history    == <<dispatched, saved>>
vars == <<daemonVars, outbox, tab, dispatch, flush, load, save, orphans, history>>

Daemon == INSTANCE CanvasLedger
            WITH Mutations <- Mutations \cup ForeignMutations,
                 Checkpoints <- {}, NoCheckpoint <- "none", checkpoint <- "none"

Spent == Daemon!Spent

Current == [revision |-> revision, document |-> document]

NewTab == [hydration    |-> "idle",       \* "loading", "ready", "error"
           status       |-> "idle",       \* commandSync.status
           conflict     |-> FALSE,        \* commandSync.conflict # null
           fault        |-> "none",       \* commandSync.error
           envelope     |-> None,
           shown        |-> EmptyDocument, \* the optimistic document
           acknowledged |-> 0]            \* #acknowledgedRevision

NoDispatch == [pc |-> "idle"]
NoFlush == [pc       |-> "idle",
            again    |-> FALSE,   \* #flushRequested
            replayed |-> FALSE,   \* replayedAfterConflict
            latest   |-> None,    \* latestEnvelope
            sent     |-> None,    \* the entry whose reply is awaited
            reply    |-> None,    \* what the daemon made of it
            cause    |-> "none"]  \* why the flush failed
NoLoad == [pc |-> "idle"]
NoSave == [pc |-> "idle"]

Init ==
  /\ revision = 0 /\ document = EmptyDocument /\ receipts = {}
  /\ archive = <<EmptyDocument>>
  /\ outbox = <<>>
  /\ tab = NewTab
  /\ dispatch = NoDispatch
  /\ flush = NoFlush
  /\ load = NoLoad
  /\ save = NoSave
  /\ orphans = {}
  /\ dispatched = <<>> /\ saved = {}
------------------------------------------------------------------------------
(***************************************************************************)
(* Helpers.                                                                *)
(***************************************************************************)
\* #withOutboxLock: no other critical section is open.  Sections that touch
\* memory once are single actions; these three are open over several.
LockFree ==
  /\ dispatch.pc \notin {"locked", "computed", "enqueued"}
  /\ flush.pc # "publish"
  /\ save.pc # "acking"

\* replayCanvasOutbox stops at the first command the reducer rejects.
ReplayStep(r, e) ==
  IF r.failed THEN r
  ELSE IF Apply(r.document, e.command) = Rejected
       THEN [r EXCEPT !.failed = TRUE]
       ELSE [r EXCEPT !.document = Apply(r.document, e.command)]

Replay(d, entries) ==
  LET after[i \in 0..Len(entries)] ==
        IF i = 0 THEN [document |-> d, failed |-> FALSE]
        ELSE ReplayStep(after[i - 1], entries[i])
  IN after[Len(entries)]

NewFlush == [NoFlush EXCEPT !.pc = "start"]

\* flushCommands: a flush that runs is asked to go round again.
Requested(f) == IF f.pc = "idle" THEN NewFlush ELSE [f EXCEPT !.again = TRUE]

Queued == {e.mutation : e \in ToSet(outbox)}

\* The store shows d, the replay of the outbox over envelope e.
Show(e, r, entries) ==
  [tab EXCEPT !.hydration = "ready",
              !.envelope = e,
              !.shown = r.document,
              !.status = IF r.failed THEN "conflict"
                         ELSE IF entries = <<>> THEN "saved" ELSE "pending",
              !.conflict = r.failed,
              !.fault = "none"]

------------------------------------------------------------------------------
(***************************************************************************)
(* The daemon.                                                             *)
(***************************************************************************)
\* POST /canvas/commands: a spent mutation is answered again, a stale base is
\* refused with the current revision, a command the reducer rejects throws.
Accepts(q) ==
  /\ q.mutation \notin Spent
  /\ q.base = revision
  /\ Apply(document, q.command) # Rejected

Answer(q) ==
  IF q.mutation \in Spent \/ Accepts(q) THEN "ok"
  ELSE IF q.base # revision THEN "stale" ELSE "rejected"

Handle(q) ==
  \/ /\ Accepts(q)
     /\ Daemon!Mutate(q.mutation, q.command)
     /\ archive' = Append(archive, document')
  \/ ~Accepts(q) /\ UNCHANGED daemonVars

\* The daemon serves the request the flush waits for.
Serve ==
  /\ flush.pc = "posted"
  /\ Handle(flush.sent)
  /\ flush' = [flush EXCEPT !.pc = "replied",
                            !.reply = [kind |-> Answer(flush.sent),
                                       envelope |-> Current']]
  /\ UNCHANGED <<outbox, tab, dispatch, load, save, orphans, history>>

\* It serves a request nobody waits for any more, or never does.
ServeOrphan(q) ==
  /\ q \in orphans
  /\ Handle(q)
  /\ orphans' = orphans \ {q}
  /\ UNCHANGED <<outbox, tab, dispatch, flush, load, save, history>>

\* Another tab, a run or a plan commits to the same branch.
ForeignCommit(m, c) ==
  /\ Daemon!Mutate(m, c)
  /\ archive' = Append(archive, document')
  /\ UNCHANGED <<outbox, tab, dispatch, flush, load, save, orphans, history>>

------------------------------------------------------------------------------
(***************************************************************************)
(* dispatchCommand.                                                        *)
(***************************************************************************)
\* #assertCanDispatch
CanDispatch ==
  /\ tab.hydration = "ready"
  /\ tab.status \notin {"conflict", "error"}

\* The command passes the reducer and its critical section opens.
DispatchStart(m, c) ==
  /\ dispatch.pc = "idle"
  /\ m \notin ToSet(dispatched)
  /\ CanDispatch /\ LockFree
  /\ Apply(tab.shown, c) # Rejected
  /\ dispatch' = [pc |-> "locked", mutation |-> m, command |-> c]
  /\ UNCHANGED <<daemonVars, outbox, tab, flush, load, save, orphans, history>>

\* Once the outbox is listed, base revision and next document are computed
\* from the state of that moment.
DispatchCompute ==
  /\ dispatch.pc = "locked"
  /\ LET next == Apply(tab.shown, dispatch.command)
         base == tab.acknowledged + Len(outbox)
     IN dispatch' =
          IF next = Rejected THEN NoDispatch
          ELSE [pc |-> "computed", next |-> next,
                entry |-> [mutation |-> dispatch.mutation,
                           command |-> dispatch.command,
                           base |-> base, initial |-> base]]
  /\ UNCHANGED <<daemonVars, outbox, tab, flush, load, save, orphans, history>>

\* Mutant: list() puts the newest entry first.
NewestFirst(e) == outbox' = <<e>> \o outbox

\* sortOutboxEntries orders by createdAt, then by mutation id: the clock is
\* taken to advance between two dispatches of a tab.
Enqueue(e) == outbox' = Append(outbox, e)

\* The entry is durable before anyone sees the command ...
DispatchEnqueue ==
  /\ dispatch.pc = "computed"
  /\ Enqueue(dispatch.entry)
  /\ dispatched' = Append(dispatched, dispatch.entry.mutation)
  /\ dispatch' = [pc |-> "enqueued", next |-> dispatch.next]
  /\ UNCHANGED <<daemonVars, tab, flush, load, save, orphans, saved>>

\* ... or cannot be written, and the dispatch rejects.
DispatchFails ==
  /\ dispatch.pc = "computed"
  /\ dispatch' = NoDispatch
  /\ UNCHANGED <<daemonVars, outbox, tab, flush, load, save, orphans, history>>

\* Publish the optimistic document and ask for a flush.
DispatchPublish ==
  /\ dispatch.pc = "enqueued"
  /\ tab' = [tab EXCEPT !.shown = dispatch.next, !.status = "pending",
                        !.conflict = FALSE, !.fault = "none"]
  /\ dispatch' = NoDispatch
  /\ flush' = Requested(flush)
  /\ UNCHANGED <<daemonVars, outbox, load, save, orphans, history>>
------------------------------------------------------------------------------
(***************************************************************************)
(* load and reload.                                                        *)
(***************************************************************************)
\* The reload loop either goes round again or ends; it first waits for the
\* flush that runs, if any (f is the flush after the step).
NextLoad(f) ==
  IF load.requested
  THEN [pc |-> IF f.pc = "idle" THEN "go" ELSE "wait", requested |-> FALSE]
  ELSE NoLoad

\* reload: from a run that settled or the retry buttons of the shell.
Reload ==
  /\ tab.hydration \in {"ready", "error"}
  /\ load' = IF load.pc = "idle"
             THEN [pc |-> IF flush.pc = "idle" THEN "go" ELSE "wait",
                   requested |-> FALSE]
             ELSE [load EXCEPT !.requested = TRUE]
  /\ UNCHANGED <<daemonVars, outbox, tab, dispatch, flush, save, orphans, history>>

\* #load starts: the first time when the page mounts, then from the loop.
\* A refresh of a hydrated store runs in the background.
LoadStart ==
  /\ \/ load.pc = "idle" /\ tab.hydration = "idle"
     \/ load.pc = "go"
  /\ load' = [pc |-> "fetching",
              requested |-> load.pc = "go" /\ load.requested,
              background |-> tab.hydration = "ready",
              envelope |-> None, entries |-> None]
  /\ tab' = [tab EXCEPT !.hydration = IF @ = "ready" THEN @ ELSE "loading",
                        !.conflict = FALSE, !.fault = "none"]
  /\ UNCHANGED <<daemonVars, outbox, dispatch, flush, save, orphans, history>>

\* Its GET /canvas and its reading of the outbox run in either order.
LoadFetch ==
  /\ load.pc = "fetching" /\ load.envelope = None
  /\ load' = [load EXCEPT !.envelope = Current]
  /\ UNCHANGED <<daemonVars, outbox, tab, dispatch, flush, save, orphans, history>>

LoadList ==
  /\ load.pc = "fetching" /\ load.entries = None /\ LockFree
  /\ load' = [load EXCEPT !.entries = outbox]
  /\ UNCHANGED <<daemonVars, outbox, tab, dispatch, flush, save, orphans, history>>

Loaded ==
  load.pc = "fetching" /\ load.envelope # None /\ load.entries # None

\* Mutant: a background refresh accepts any envelope.
NeverBehind == FALSE

\* A background refresh drops an envelope that is behind the acknowledgements.
IsBehind == load.background /\ load.envelope.revision < tab.acknowledged

LoadSkip ==
  /\ Loaded /\ IsBehind
  /\ load' = NextLoad(flush)
  /\ UNCHANGED <<daemonVars, outbox, tab, dispatch, flush, save, orphans, history>>

LoadInstall ==
  /\ Loaded /\ ~IsBehind
  /\ LET r == Replay(load.envelope.document, load.entries)
         ready == Show(load.envelope, r, load.entries)
     IN /\ tab' = [ready EXCEPT !.acknowledged = load.envelope.revision]
        /\ flush' = IF r.failed \/ load.entries = <<>> THEN flush ELSE Requested(flush)
  /\ load' = NextLoad(flush')
  /\ UNCHANGED <<daemonVars, outbox, dispatch, save, orphans, history>>

\* A failed background refresh leaves the loop, the first load can be retried.
LoadFails ==
  /\ load.pc = "fetching"
  /\ load' = IF load.background THEN NoLoad ELSE NextLoad(flush)
  /\ tab' = IF load.background THEN tab ELSE [tab EXCEPT !.hydration = "error"]
  /\ UNCHANGED <<daemonVars, outbox, dispatch, flush, save, orphans, history>>

------------------------------------------------------------------------------
(***************************************************************************)
(* flushCommands, #drainCommands, #flushCommandsOnce and flushOutbox.      *)
(***************************************************************************)
\* flushCommands: any view of a hydrated canvas may call it.
FlushCommands ==
  /\ tab.hydration = "ready"
  /\ flush' = Requested(flush)
  /\ UNCHANGED <<daemonVars, outbox, tab, dispatch, load, save, orphans, history>>

\* retryCommands clears an error first.
RetryCommands ==
  /\ tab.hydration = "ready" /\ tab.status = "error"
  /\ tab' = [tab EXCEPT !.status = "pending", !.fault = "none"]
  /\ flush' = Requested(flush)
  /\ UNCHANGED <<daemonVars, outbox, dispatch, load, save, orphans, history>>

\* #flushCommandsOnce counts the outbox and shows what it is about to do.
FlushStart ==
  /\ flush.pc = "start" /\ LockFree
  /\ IF outbox = <<>>
     THEN /\ tab' = [tab EXCEPT !.status = "saved", !.conflict = FALSE, !.fault = "none"]
          /\ flush' = [flush EXCEPT !.pc = "check"]
     ELSE /\ tab' = [tab EXCEPT !.status = "saving", !.fault = "none"]
          /\ flush' = [flush EXCEPT !.pc = "list", !.replayed = FALSE, !.latest = None]
  /\ UNCHANGED <<daemonVars, outbox, dispatch, load, save, orphans, history>>

\* Mutant: the entry is acknowledged when it is posted.
FlushPostAndForget ==
  /\ flush.pc = "list" /\ LockFree
  /\ flush' = IF outbox = <<>> THEN [flush EXCEPT !.pc = "finish"]
              ELSE [flush EXCEPT !.pc = "posted", !.sent = Head(outbox)]
  /\ outbox' = IF outbox = <<>> THEN outbox ELSE Tail(outbox)
  /\ UNCHANGED <<daemonVars, tab, dispatch, load, save, orphans, history>>

\* flushOutbox posts the head of the outbox; an empty outbox is flushed.
FlushPost ==
  /\ flush.pc = "list" /\ LockFree
  /\ flush' = IF outbox = <<>> THEN [flush EXCEPT !.pc = "finish"]
              ELSE [flush EXCEPT !.pc = "posted", !.sent = Head(outbox)]
  /\ UNCHANGED <<daemonVars, outbox, tab, dispatch, load, save, orphans, history>>

Unawaited(f) == [f EXCEPT !.sent = None, !.reply = None]

\* outbox.ack: the reply is a success, so the entry goes and the acknowledged
\* revision moves on by one.
FlushAck ==
  /\ flush.pc = "replied" /\ flush.reply.kind = "ok" /\ LockFree
  /\ outbox' = RemoveFirstMatch(outbox,
                 LAMBDA e : e.mutation = flush.sent.mutation)
  /\ tab' = [tab EXCEPT !.acknowledged = @ + 1]
  /\ flush' = [Unawaited(flush) EXCEPT !.pc = "list", !.latest = flush.reply.envelope]
  /\ UNCHANGED <<daemonVars, dispatch, load, save, orphans, history>>

\* The first stale base of a flush is refetched, the second is a conflict.
FlushStale ==
  /\ flush.pc = "replied" /\ flush.reply.kind = "stale"
  /\ flush' = [Unawaited(flush) EXCEPT
                 !.pc = IF flush.replayed THEN "conflict" ELSE "refetch"]
  /\ UNCHANGED <<daemonVars, outbox, tab, dispatch, load, save, orphans, history>>

FlushRejected ==
  /\ flush.pc = "replied" /\ flush.reply.kind = "rejected"
  /\ flush' = [Unawaited(flush) EXCEPT !.pc = "failed", !.cause = "rejected"]
  /\ UNCHANGED <<daemonVars, outbox, tab, dispatch, load, save, orphans, history>>

FlushRefetch ==
  /\ flush.pc = "refetch"
  /\ flush' = [flush EXCEPT !.pc = "rebase", !.latest = Current]
  /\ UNCHANGED <<daemonVars, outbox, tab, dispatch, load, save, orphans, history>>

\* rebaseCanvasOutboxEntries: consecutive bases from the server's revision.
Rebased(r) == [i \in DOMAIN outbox |-> [outbox[i] EXCEPT !.base = r + i - 1]]

FlushRebase ==
  /\ flush.pc = "rebase" /\ LockFree
  /\ outbox' = Rebased(flush.latest.revision)
  /\ tab' = [tab EXCEPT !.acknowledged = flush.latest.revision]
  /\ flush' = [flush EXCEPT !.pc = "list", !.replayed = TRUE]
  /\ UNCHANGED <<daemonVars, dispatch, load, save, orphans, history>>

\* The request that is under way is given up and may be served later.
Orphan(q) ==
  /\ flush.pc = "posted"
  /\ Cardinality(orphans) < MaxOrphans
  /\ orphans' = orphans \cup {q}

\* A request or a reply is lost, or IndexedDB fails.  A request that was sent
\* may still reach the daemon.
FlushLost ==
  /\ flush.pc \in {"posted", "replied", "refetch", "rebase"}
  /\ flush' = [Unawaited(flush) EXCEPT !.pc = "failed", !.cause = "lost"]
  /\ orphans' = orphans \/ Orphan(flush.sent)
  /\ UNCHANGED <<daemonVars, outbox, tab, dispatch, load, save, history>>

FlushConflict ==
  /\ flush.pc = "conflict" /\ LockFree
  /\ tab' = [tab EXCEPT !.status = "conflict", !.conflict = TRUE, !.fault = "none",
               !.envelope = IF flush.latest = None THEN @ ELSE flush.latest]
  /\ flush' = [flush EXCEPT !.pc = "check"]
  /\ UNCHANGED <<daemonVars, outbox, dispatch, load, save, orphans, history>>

FlushFailed ==
  /\ flush.pc = "failed" /\ LockFree
  /\ tab' = [tab EXCEPT !.status = "error", !.conflict = FALSE, !.fault = flush.cause]
  /\ flush' = [flush EXCEPT !.pc = "check", !.cause = "none"]
  /\ UNCHANGED <<daemonVars, outbox, dispatch, load, save, orphans, history>>

\* The flush succeeded: its last envelope is acknowledged at once ...
FlushFinish ==
  /\ flush.pc = "finish" /\ LockFree
  /\ LET e == IF flush.latest = None THEN tab.envelope ELSE flush.latest
     IN /\ flush' = [flush EXCEPT !.pc = "publish", !.latest = e]
        /\ tab' = [tab EXCEPT !.acknowledged = e.revision]
  /\ UNCHANGED <<daemonVars, outbox, dispatch, load, save, orphans, history>>

\* ... and shown once the outbox is listed again.
FlushPublish ==
  /\ flush.pc = "publish"
  /\ tab' = [Show(flush.latest, Replay(flush.latest.document, outbox), outbox)
               EXCEPT !.hydration = tab.hydration]
  /\ flush' = [flush EXCEPT !.pc = "check"]
  /\ UNCHANGED <<daemonVars, outbox, dispatch, load, save, orphans, history>>

Stuck == tab.status \in {"conflict", "error"}

\* #drainCommands: another round if an entry came in, or a flush was asked for.
FlushCheck ==
  /\ flush.pc = "check"
  /\ flush' = [flush EXCEPT !.pc = IF Stuck THEN "end" ELSE "more"]
  /\ UNCHANGED <<daemonVars, outbox, tab, dispatch, load, save, orphans, history>>

FlushMore ==
  /\ flush.pc = "more" /\ LockFree
  /\ flush' = IF outbox = <<>> /\ ~flush.again
              THEN [flush EXCEPT !.pc = "end"]
              ELSE NewFlush
  /\ UNCHANGED <<daemonVars, outbox, tab, dispatch, load, save, orphans, history>>

\* Mutant: a flush asked for while the last one ends is forgotten.
FlushEndForgets ==
  /\ flush.pc = "end"
  /\ flush' = NoFlush
  /\ load' = IF load.pc = "wait" THEN [load EXCEPT !.pc = "go"] ELSE load
  /\ UNCHANGED <<daemonVars, outbox, tab, dispatch, save, orphans, history>>

\* The promise settles: a reload that awaited it goes on, and a flush that was
\* asked for in the meantime starts.
FlushEnd ==
  /\ flush.pc = "end"
  /\ flush' = IF flush.again /\ ~Stuck THEN NewFlush ELSE NoFlush
  /\ load' = IF load.pc = "wait" THEN [load EXCEPT !.pc = "go"] ELSE load
  /\ UNCHANGED <<daemonVars, outbox, tab, dispatch, save, orphans, history>>

------------------------------------------------------------------------------
(***************************************************************************)
(* saveConflictAsBranch, and the page that goes away.                      *)
(***************************************************************************)
SaveStart ==
  /\ save.pc = "idle" /\ dispatch.pc = "idle" /\ flush.pc = "idle"
  /\ tab.status = "conflict" /\ tab.conflict
  /\ outbox # <<>>
  /\ save' = [pc |-> "posted", entries |-> outbox]
  /\ UNCHANGED <<daemonVars, outbox, tab, dispatch, flush, load, orphans, history>>

\* POST /canvas/conflicts: the journal replays over the archived revision its
\* first entry was dispatched on.
Recovers(entries) ==
  /\ entries[1].initial <= revision
  /\ ~Replay(archive[entries[1].initial + 1], entries).failed

SaveServe ==
  /\ save.pc = "posted"
  /\ Recovers(save.entries)
  /\ save' = [save EXCEPT !.pc = "replied"]
  /\ saved' = saved \cup {e.mutation : e \in ToSet(save.entries)}
  /\ UNCHANGED <<daemonVars, outbox, tab, dispatch, flush, load, orphans, dispatched>>

\* The daemon refuses, or a message is lost: outbox and conflict stay.
SaveFails ==
  /\ save.pc \in {"posted", "replied"}
  /\ save' = NoSave
  /\ UNCHANGED <<daemonVars, outbox, tab, dispatch, flush, load, orphans, history>>

Ids(entries) == [i \in DOMAIN entries |-> entries[i].mutation]

\* The entries are acknowledged if the outbox is still the one that was saved.
SaveCheck ==
  /\ save.pc = "replied" /\ LockFree
  /\ save' = IF Ids(outbox) = Ids(save.entries)
             THEN [save EXCEPT !.pc = "acking"] ELSE NoSave
  /\ UNCHANGED <<daemonVars, outbox, tab, dispatch, flush, load, orphans, history>>

SaveAck ==
  /\ save.pc = "acking" /\ outbox # <<>>
  /\ outbox' = Tail(outbox)
  /\ UNCHANGED <<daemonVars, tab, dispatch, flush, load, save, orphans, history>>

\* An acknowledgement that fails puts all of them back.
SaveAckFails ==
  /\ save.pc = "acking"
  /\ outbox' = save.entries
  /\ save' = NoSave
  /\ UNCHANGED <<daemonVars, tab, dispatch, flush, load, orphans, history>>

\* The memory of the page goes; a request it had sent may still be served.
ClosePage ==
  /\ tab' = NewTab
  /\ dispatch' = NoDispatch /\ flush' = NoFlush /\ load' = NoLoad /\ save' = NoSave
  /\ orphans' = orphans \/ Orphan(flush.sent)
  /\ UNCHANGED <<daemonVars, outbox, history>>

\* The branch is saved: the versioning panel leaves for the new branch.
SaveDone == save.pc = "acking" /\ outbox = <<>> /\ ClosePage

\* Reload of the page, crash of the browser, navigation to another canvas.
Crash == ClosePage
------------------------------------------------------------------------------
DaemonNext ==
  \/ Serve
  \/ SaveServe
  \/ \E q \in orphans : ServeOrphan(q)

FlushNext ==
  \/ FlushStart \/ FlushPost \/ FlushAck \/ FlushStale \/ FlushRejected
  \/ FlushRefetch \/ FlushRebase \/ FlushConflict \/ FlushFailed
  \/ FlushFinish \/ FlushPublish \/ FlushCheck \/ FlushMore \/ FlushEnd

DispatchNext == DispatchCompute \/ DispatchEnqueue \/ DispatchPublish

LoadNext == LoadStart \/ LoadFetch \/ LoadList \/ LoadSkip \/ LoadInstall

SaveNext == SaveCheck \/ SaveAck \/ SaveDone

Failures ==
  DispatchFails \/ LoadFails \/ FlushLost \/ SaveFails \/ SaveAckFails \/ Crash

Environment ==
  \/ \E m \in Mutations, c \in Commands : DispatchStart(m, c)
  \/ \E m \in ForeignMutations, c \in Commands : ForeignCommit(m, c)
  \/ Reload \/ FlushCommands \/ RetryCommands \/ SaveStart

Next ==
  \/ DaemonNext \/ FlushNext \/ DispatchNext \/ LoadNext \/ SaveNext
  \/ Failures \/ Environment

Spec == Init /\ [][Next]_vars
------------------------------------------------------------------------------
(***************************************************************************)
(* Properties.                                                             *)
(***************************************************************************)
Statuses == {"idle", "pending", "saving", "saved", "error", "conflict"}

\* The type invariant, and what the store relies on without a test: a hydrated
\* store has an envelope, and a flush that awaits a reply knows what it sent.
TypeOK ==
  /\ revision \in Nat /\ document \in Documents
  /\ receipts \subseteq [mutation : Mutations \cup ForeignMutations,
                         command : Commands, revision : Nat]
  /\ Len(archive) = revision + 1 /\ archive[revision + 1] = document
  /\ ToSet(outbox) \subseteq Entries
  /\ tab \in [hydration : {"idle", "loading", "ready", "error"},
              status : Statuses, conflict : BOOLEAN,
              fault : {"none", "lost", "rejected"},
              envelope : Envelopes \cup {None},
              shown : Documents, acknowledged : Nat]
  /\ tab.hydration = "ready" => tab.envelope # None
  /\ flush.pc \in {"posted", "replied"} => flush.sent \in Entries
  /\ orphans \subseteq Entries
  /\ ToSet(dispatched) \subseteq Mutations
  /\ saved \subseteq Mutations

\* No dispatched command is ever lost: it is in the outbox, in the branch or
\* in a conflict branch, whatever crashes, messages get lost or flushes,
\* reloads and saves race (docs/CANVAS-PERSISTENCE.md, save order 2 and 5).
NothingLost == ToSet(dispatched) \subseteq Queued \cup Spent \cup saved

RevisionOf(m) == (CHOOSE r \in receipts : r.mutation = m).revision

\* The outbox is a FIFO journal: of two commands dispatched in this order the
\* later one is committed only after the earlier one, unless the earlier one
\* went to a conflict branch (flushOutbox posts the head alone).
CommitOrder ==
  \A i, j \in DOMAIN dispatched :
    LET a == dispatched[i]  b == dispatched[j] IN
      i < j /\ b \in Spent /\ a \notin saved =>
        a \in Spent /\ RevisionOf(a) < RevisionOf(b)

Quiet == flush.pc = "idle" /\ load.pc = "idle" /\ dispatch.pc = "idle"
         /\ save.pc = "idle"

InConflict == Quiet /\ tab.status = "conflict" /\ tab.conflict

\* When nothing runs, nothing is queued and the store says saved, its envelope
\* is a revision the daemon has archived, holds every command of this browser
\* that was committed, and the next dispatch is not based on an older one
\* (the last envelope of a flush; the guard of #load against a late envelope).
SavedIsCurrent ==
  Quiet /\ tab.hydration = "ready" /\ tab.status = "saved" /\ outbox = <<>> =>
    /\ tab.envelope.document = archive[tab.envelope.revision + 1]
    /\ tab.acknowledged >= tab.envelope.revision
    /\ \A m \in (ToSet(dispatched) \cap Spent) \ saved : RevisionOf(m) <= tab.envelope.revision

\* A store that has come to rest with a command of its own in the outbox, and
\* shows neither an error nor a conflict.  While a dispatch is between its entry
\* and its flush the flush is still to come.
Forgotten ==
  /\ tab.hydration = "ready"
  /\ ~Stuck
  /\ dispatch.pc # "enqueued"
  /\ ~(Queued \subseteq saved)
  /\ flush.pc = "idle" \/ (flush.pc = "end" /\ ~flush.again)

\* No wake-up is lost: whichever way flushes, dispatches, reloads and conflict
\* branches interleave, no step forgets a command that is not sent yet, except
\* that a reload may show an older document over an error that was reported
\* (flushCommands, #drainCommands and #flushRequested).
Drained == [][Forgotten' => Forgotten \/ Stuck]_vars
==============================================================================
