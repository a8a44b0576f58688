---------------------------- MODULE ProjectCatalog ----------------------------
(***************************************************************************)
(* The registry of workspace projects and their directories                 *)
(* (daemon/projectCatalog.ts), with the one-time reset of a project of the  *)
(* old schema (daemon/canvasInitialization.ts) and the deletion of          *)
(* daemon/serverCore.ts:1118, under kills between any two file operations.  *)
(*                                                                          *)
(* One daemon at a time works here: every route that comes to the catalog   *)
(* takes the workspace lease first.  Inside it the operations are serialized *)
(* by #runExclusive, so one operation is under way at any time.  Titles,    *)
(* timestamps and summaries are left out.  A recursive removal is not       *)
(* atomic: it takes the identity marker away before the rest, or after it.  *)
(***************************************************************************)
EXTENDS Naturals, FiniteSets, Sequences, Nothing

CONSTANTS
    Projects    \* project ids; the random ids of the code do not repeat

\* A directory: its marker, its reset journal and the Canvas state in it.
Markers == {"schema1", "current", "gone"}
Directory == [marker : Markers, journal : BOOLEAN, state : {"none", "old", "work"}]

ASSUME CatalogAssumption == None \notin Projects \cup Directory

VARIABLES
    catalog,    \* projects.json: the projects it lists
    dir,        \* the directory of each project, or None
    tombstone,  \* .deleting-<id> of each project, or None
    staging,    \* projects whose .staging directory exists
    op,         \* the operation under way
    passed,     \* requests that requireReady has answered, by the project they are about
    open,       \* projects some page has open: POST /projects/:id/open was answered
    created,    \* history: ids that were ever given out
    answered,   \* history: projects whose creation was answered with success
    deleted     \* history: projects whose deletion was answered with success

vars == <<catalog, dir, tombstone, staging, op, passed, open, created, answered, deleted>>
files == <<catalog, dir, tombstone, staging>>
history == <<passed, open, created, answered, deleted>>

Blank == [marker |-> "current", journal |-> FALSE, state |-> "none"]
OldProject == [marker |-> "schema1", journal |-> FALSE, state |-> "old"]

NoOp == [kind |-> "idle", id |-> None, todo |-> <<>>]
Kinds == {"idle", "list", "create", "delete", "requireReady", "markOpened"}
Steps == {"read", "describe", "new", "stage", "publish", "add", "discard", "ready", "free", "quarantine",
    "remove", "rollback", "clean", "touch", "answer"}

\* #requireReadyManagedProjectDirectory: the marker is there and current.
HasMarker(directory) == directory # None /\ directory.marker = "current"

\* ensureCanvasReady returns at once, resets, or throws.
IsCurrent(directory) == HasMarker(directory) /\ ~directory.journal

\* Mutant: a directory of the current schema is reset too.
IsAnything(directory) == directory # None /\ directory.marker # "gone"

IsResettable(directory) ==
    directory # None /\ directory.marker # "gone" /\ (directory.journal \/ directory.marker = "schema1")

Init ==
    \E old \in SUBSET Projects :
        /\ catalog = old
        /\ dir = [p \in Projects |-> IF p \in old THEN OldProject ELSE None]
        /\ tombstone = [p \in Projects |-> None]
        /\ staging = {}
        /\ op = NoOp
        /\ passed = {}
        /\ open = {}
        /\ created = old
        /\ answered = old
        /\ deleted = {}
-----------------------------------------------------------------------------
(* Operations start when nothing else is under way. *)

Begin(kind, id, todo) == op.kind = "idle" /\ op' = [kind |-> kind, id |-> id, todo |-> todo]

List == Begin("list", None, <<"read", "describe", "answer">>) /\ UNCHANGED <<files, history>>

Create ==
    /\ Begin("create", None, <<"read", "new", "stage", "publish", "ready", "add", "answer">>)
    /\ UNCHANGED <<files, history>>

\* DELETE /projects/:id and POST /projects/:id/open ask requireReady first; what
\* follows is a second operation, before which others may come.
RequireReady(p) ==
    /\ Begin("requireReady", p, <<"read", "ready", "answer">>)
    /\ UNCHANGED <<files, history>>
MarkOpened(p) ==
    /\ p \in passed
    /\ Begin("markOpened", p, <<"read", "touch", "answer">>)
    /\ passed' = passed \ {p}
    /\ UNCHANGED <<files, open, created, answered, deleted>>

\* delete, under the fences of the project: pages that had it open are refused.
Delete(p) ==
    /\ p \in passed
    /\ Begin("delete", p, <<"read", "ready", "free", "quarantine", "remove", "clean", "answer">>)
    /\ passed' = passed \ {p}
    /\ open' = open \ {p}
    /\ UNCHANGED <<files, created, answered, deleted>>

Doing(step) == op.kind # "idle" /\ Head(op.todo) = step
Done == op' = [op EXCEPT !.todo = Tail(@)]
Fail == op' = NoOp
-----------------------------------------------------------------------------
(* #readDocument: tombstones are settled before the document is used. *)

Tombstones == {p \in Projects : tombstone[p] # None}

\* A tombstone without a marker, or beside the directory, makes every read throw.
ReadFails ==
    /\ Doing("read")
    /\ Fail
    /\ \E p \in Tombstones : HasMarker(tombstone[p]) => p \in catalog /\ dir[p] # None
    /\ UNCHANGED <<files, history>>

\* Mutant: the catalog is not asked.
RestoreAny(p) ==
    /\ Doing("read")
    /\ p \in Tombstones
    /\ HasMarker(tombstone[p])
    /\ dir[p] = None
    /\ dir' = [dir EXCEPT ![p] = tombstone[p]]
    /\ tombstone' = [tombstone EXCEPT ![p] = None]
    /\ UNCHANGED <<catalog, staging, op, history>>

\* An interrupted deletion of a project that is still listed is undone ...
Restore(p) ==
    /\ Doing("read")
    /\ p \in Tombstones \cap catalog
    /\ HasMarker(tombstone[p])
    /\ dir[p] = None
    /\ dir' = [dir EXCEPT ![p] = tombstone[p]]
    /\ tombstone' = [tombstone EXCEPT ![p] = None]
    /\ UNCHANGED <<catalog, staging, op, history>>

\* Mutant: every tombstone is removed.
FinishAny(p) ==
    /\ Doing("read")
    /\ p \in Tombstones
    /\ HasMarker(tombstone[p])
    /\ tombstone' = [tombstone EXCEPT ![p] = None]
    /\ UNCHANGED <<catalog, dir, staging, op, history>>

\* ... and that of a project that is not is finished.
FinishDeletion(p) ==
    /\ Doing("read")
    /\ p \in Tombstones \ catalog
    /\ HasMarker(tombstone[p])
    /\ \/ tombstone' = [tombstone EXCEPT ![p] = None] /\ UNCHANGED op
       \/ tombstone' = [tombstone EXCEPT ![p].marker = "gone"] /\ Fail
    /\ UNCHANGED <<catalog, dir, staging, history>>

\* requiredRecord: an operation on a project that is not listed throws.
Read ==
    /\ Doing("read")
    /\ Tombstones = {}
    /\ IF op.id # None /\ op.id \notin catalog THEN Fail ELSE Done
    /\ UNCHANGED <<files, history>>
-----------------------------------------------------------------------------
(* ensureCanvasReady: the reset of a project of the old schema, step by step. *)

Reset(p) ==
    /\ IsResettable(dir[p])
    /\ \/ /\ ~dir[p].journal
          /\ dir' = [dir EXCEPT ![p].journal = TRUE]
       \/ /\ dir[p].journal
          /\ dir[p].state # "none"
          /\ dir' = [dir EXCEPT ![p].state = "none"]
       \/ /\ dir[p].journal
          /\ dir[p].state = "none"
          /\ dir[p].marker = "schema1"
          /\ dir' = [dir EXCEPT ![p].marker = "current"]
       \/ /\ dir[p].journal
          /\ dir[p].state = "none"
          /\ dir[p].marker = "current"
          /\ dir' = [dir EXCEPT ![p].journal = FALSE]
    /\ UNCHANGED <<catalog, tombstone, staging, history>>

\* list describes every project, and shows one whose reset failed as unavailable.
DescribeResets(p) == Doing("describe") /\ p \in catalog /\ Reset(p) /\ op' = op
Describe == Doing("describe") /\ Done /\ UNCHANGED <<files, history>>

ReadyResets == Doing("ready") /\ Reset(op.id) /\ op' = op
Ready == Doing("ready") /\ IsCurrent(dir[op.id]) /\ Done /\ UNCHANGED <<files, history>>
NotReady ==
    /\ Doing("ready")
    /\ IF op.kind = "create" THEN op' = [op EXCEPT !.todo = <<"discard">>] ELSE Fail
    /\ UNCHANGED <<files, history>>
-----------------------------------------------------------------------------
(* create *)

New ==
    \E p \in Projects \ created :
        /\ Doing("new")
        /\ p \notin catalog
        /\ dir[p] = None
        /\ op' = [op EXCEPT !.id = p, !.todo = Tail(@)]
        /\ created' = created \cup {p}
        /\ UNCHANGED <<files, passed, open, answered, deleted>>

\* The directory is made with its marker beside the others; a failure removes it.
Stage ==
    /\ Doing("stage")
    /\ \/ staging' = staging \cup {op.id} /\ Done
       \/ staging' = staging /\ Fail
    /\ UNCHANGED <<catalog, dir, tombstone, history>>
Publish ==
    /\ Doing("publish")
    /\ staging' = staging \ {op.id}
    /\ \/ dir' = [dir EXCEPT ![op.id] = Blank] /\ Done
       \/ dir' = dir /\ Fail
    /\ UNCHANGED <<catalog, tombstone, history>>

\* #writeDocument fails before it replaced the file, or after, in the fsync of the
\* directory: the caller cannot tell.
Write(new, failed) ==
    \/ catalog' = new /\ Done
    \/ catalog' \in {catalog, new} /\ op' = [op EXCEPT !.todo = failed]

Add ==
    /\ Doing("add")
    /\ Write(catalog \cup {op.id}, <<"discard">>)
    /\ UNCHANGED <<dir, tombstone, staging, history>>
\* rm of what a failed creation has put in place, taken to remove all of it.
Discard ==
    /\ Doing("discard")
    /\ dir' = [dir EXCEPT ![op.id] = None]
    /\ Fail
    /\ UNCHANGED <<catalog, tombstone, staging, history>>
-----------------------------------------------------------------------------
(* delete, markOpened *)

\* assertPathMissing of the tombstone.
Free ==
    /\ Doing("free")
    /\ IF tombstone[op.id] = None THEN Done ELSE Fail
    /\ UNCHANGED <<files, history>>

Quarantine ==
    /\ Doing("quarantine")
    /\ \/ /\ tombstone' = [tombstone EXCEPT ![op.id] = dir[op.id]]
          /\ dir' = [dir EXCEPT ![op.id] = None]
          /\ Done
       \/ Fail /\ UNCHANGED <<dir, tombstone>>
    /\ UNCHANGED <<catalog, staging, history>>

Remove ==
    /\ Doing("remove")
    /\ Write(catalog \ {op.id}, <<"rollback">>)
    /\ UNCHANGED <<dir, tombstone, staging, history>>

\* The directory is moved back; when that fails the next read of the catalog does it.
Rollback ==
    /\ Doing("rollback")
    /\ Fail
    /\ \/ /\ dir[op.id] = None
          /\ dir' = [dir EXCEPT ![op.id] = tombstone[op.id]]
          /\ tombstone' = [tombstone EXCEPT ![op.id] = None]
       \/ UNCHANGED <<dir, tombstone>>
    /\ UNCHANGED <<catalog, staging, history>>

\* rm of the tombstone; that it fails half way is ignored.
Clean ==
    /\ Doing("clean")
    /\ \/ tombstone' = [tombstone EXCEPT ![op.id] = None] /\ Done
       \/ tombstone' = [tombstone EXCEPT ![op.id].marker = "gone"] /\ op' = op
       \/ tombstone' = tombstone /\ Done
    /\ UNCHANGED <<catalog, dir, staging, history>>

Touch ==
    /\ Doing("touch")
    /\ \/ Done
       \/ Fail
    /\ UNCHANGED <<files, history>>

\* The reply.  The page that opened a project works in it from then on.
Answer ==
    /\ Doing("answer")
    /\ op' = NoOp
    /\ passed' = IF op.kind = "requireReady" THEN passed \cup {op.id} ELSE passed
    /\ open' = IF op.kind = "markOpened" THEN open \cup {op.id} ELSE open
    /\ answered' = IF op.kind = "create" THEN answered \cup {op.id} ELSE answered
    /\ deleted' = IF op.kind = "delete" THEN deleted \cup {op.id} ELSE deleted
    /\ UNCHANGED <<files, created>>
-----------------------------------------------------------------------------
\* Canvas commands of a page, which do not come by the catalog.
Work(p) ==
    /\ p \in open
    /\ dir[p] # None
    /\ dir' = [dir EXCEPT ![p].state = "work"]
    /\ UNCHANGED <<catalog, tombstone, staging, op, history>>

\* The daemon is killed and started again; pages stay.
Crash == op' = NoOp /\ passed' = {} /\ UNCHANGED <<files, open, created, answered, deleted>>

Settle == \E p \in Projects : Restore(p) \/ FinishDeletion(p) \/ DescribeResets(p)
Step ==
    \/ Settle \/ ReadFails \/ Read \/ Describe \/ ReadyResets \/ Ready \/ NotReady
    \/ New \/ Stage \/ Publish \/ Add \/ Discard
    \/ Free \/ Quarantine \/ Remove \/ Rollback \/ Clean \/ Touch \/ Answer

Next ==
    \/ List \/ Create
    \/ \E p \in Projects : RequireReady(p) \/ MarkOpened(p) \/ Delete(p) \/ Work(p)
    \/ Step
    \/ Crash

Spec == Init /\ [][Next]_vars
-----------------------------------------------------------------------------
\* The shape of the state.
TypeOK ==
    /\ catalog \subseteq Projects
    /\ dir \in [Projects -> Directory \cup {None}]
    /\ tombstone \in [Projects -> Directory \cup {None}]
    /\ staging \subseteq Projects
    /\ op.kind \in Kinds /\ op.id \in Projects \cup {None} /\ op.todo \in Seq(Steps)
    /\ passed \subseteq Projects /\ open \subseteq Projects
    /\ created \subseteq Projects /\ answered \subseteq Projects /\ deleted \subseteq Projects

\* A project that was created and is listed is never gone: wherever a deletion or a
\* reset was interrupted or failed, its directory is in place or in a tombstone that
\* can be moved back.  (A creation that fails after the catalog was replaced removes
\* the directory of what it listed: its caller was told that it failed.)
ListedIsThere ==
    \A p \in catalog \cap answered :
        \/ dir[p] # None /\ dir[p].marker # "gone"
        \/ dir[p] = None /\ HasMarker(tombstone[p])

\* A deletion that was answered is never undone by a recovery or an older operation.
DeletedStaysDeleted == \A p \in deleted : p \notin catalog /\ dir[p] = None

\* Work done in a page is lost only to a deletion that is in the catalog: a reset
\* that is resumed after a crash, a rollback or a restore never takes it.
HasWork(p) == \/ dir[p] # None /\ dir[p].state = "work"
              \/ tombstone[p] # None /\ tombstone[p].state = "work"
WorkKept == [][\A p \in Projects : HasWork(p) /\ ~HasWork(p)' => p \notin catalog]_vars
=============================================================================
