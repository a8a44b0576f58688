--------------------------- MODULE FilesystemSync ---------------------------
(***************************************************************************)
(* FilesystemService: text files of one workspace root bound to nodes.  A  *)
(* binding is a row of the metadata store with the digests both sides had  *)
(* when they last agreed; watcher events are hints that start a reconcile, *)
(* and a save writes the node's text to the file with compare and swap.    *)
(*                                                                         *)
(* An activity is one call of the service (or of the route around it); its *)
(* steps are what happens between two awaits at which another program, the *)
(* user or another activity can matter.  A digest is the text itself.  The *)
(* service does not serialize its activities: at most as many run at once  *)
(* as there are Activities.                                                *)
(*                                                                         *)
(* Left out: directories and files that are not text, which only copy the  *)
(* digest, the tree listing, path and symlink checks, a file that changes  *)
(* while it is read (the reconcile is given up; the change is an event of  *)
(* its own), several parents (all paths lie in one directory), and         *)
(* commands that delete or rebind a node. Of a row, the two digests that   *)
(* are only shown to clients are left out.                                 *)
(* The canvas is read and changed in one step, as CanvasLedger says of it; *)
(* passes over the root that nobody has begun yet are one.                 *)
(***************************************************************************)
EXTENDS Naturals, FiniteSets, Functions, Nothing

CONSTANTS
  Nodes,
  Texts,
  Paths,
  Inodes,
  Bindings,    \* binding ids, in the order of their creation
  Modes,
  Activities,
  Start,       \* what the paths may hold at the start
  MaxInputs    \* bound: requests, edits, changes by other programs and faults

ASSUME FilesAssumption ==
  /\ IsFiniteSet(Bindings) /\ Bindings = 1..Cardinality(Bindings)
  /\ Start \subseteq [Paths -> Texts \cup {None}]
  /\ MaxInputs \in Nat
  /\ Modes \subseteq {"fs-authoritative", "canvas-authoritative", "bidirectional"}
  /\ None \notin Nodes \cup Texts \cup Bindings

\* The columns of a row.
States == {"clean", "disk-dirty", "canvas-dirty", "conflict", "missing"}
Rows == [node : Nodes, path : Paths, mode : Modes, base : Texts, state : States,
         identity : Inodes, echo : Texts \cup {None}, first : Texts]

\* A binding without a row has none.
ASSUME NothingAssumption == None \notin Rows

VARIABLES
  canvas,      \* of each node: its text, which stands for its content, and its binding
  spent,       \* mutation ids of the receipts commitLatest has left
  past,        \* history: the texts each node has had
  files,       \* what each path holds: a text and an inode
  rows,        \* node_bindings
  made,        \* bindings created so far
  conflicts,   \* sync_conflicts, all of them open
  act,         \* the activities of the service
  watching,    \* is the root's watcher ready?
  hints,       \* paths with an event still to come
  sweep,       \* bindings the delayed pass over the root still has to look at
  missed,      \* history: the service could not hear of a change, or failed at it
  inputs       \* inputs so far

canvasVars == <<canvas, spent, past>>
storeVars == <<rows, made, conflicts>>
watchVars == <<watching, hints, sweep, missed>>
vars == <<canvasVars, files, storeVars, act, watchVars, inputs>>

Idle == [pc |-> "idle", b |-> None, row |-> None, text |-> None,
         disk |-> None, patch |-> None, slipped |-> FALSE]

Init ==
  /\ \E t \in Texts : /\ canvas = [n \in Nodes |-> [text |-> t, binding |-> None]]
                      /\ past = [n \in Nodes |-> {t}]
  /\ spent = {}
  /\ inputs = 0
  /\ \E start \in Start, inode \in Injection(Paths, Inodes) :
       files = [p \in Paths |-> IF start[p] = None THEN None
                                ELSE [text |-> start[p], inode |-> inode[p]]]
  /\ rows = [b \in Bindings |-> None]
  /\ made = 0
  /\ conflicts = {}
  /\ act = [w \in Activities |-> Idle]
  /\ watching = FALSE
  /\ hints = {} /\ sweep = {}
  /\ missed = FALSE

Bound == {b \in Bindings : rows[b] # None}
Exists(p) == files[p] # None
Holds(p, inode) == Exists(p) /\ files[p].inode = inode
FreeInodes == {i \in Inodes : \A p \in Paths : ~Holds(p, i)}

Busy(w, pc) == act[w].pc = pc
Go(w, next) == act' = [act EXCEPT ![w] = next]
Return(w) == Go(w, Idle)
-----------------------------------------------------------------------------
(* The canvas *)

Input == inputs < MaxInputs /\ inputs' = inputs + 1

SetText(n, t) ==
  /\ canvas' = [canvas EXCEPT ![n].text = t]
  /\ past' = [past EXCEPT ![n] = @ \cup {t}]

\* Any command of the user that changes the content of a node.
Edit(n, t) ==
  /\ Input
  /\ canvas[n].text # t
  /\ SetText(n, t)
  /\ UNCHANGED <<spent, files, storeVars, act, watchVars>>

\* UpdateNodeContent under a mutation id of the service: once per id.
CommitLatest(id, n, t) ==
  IF id \in spent
    THEN UNCHANGED canvasVars
    ELSE SetText(n, t) /\ spent' = spent \cup {id}

\* BindNodeToFilesystem names an id; the reducer looks nothing up.
BindNode(n, b) ==
  /\ canvas' = [canvas EXCEPT ![n].binding = b]
  /\ UNCHANGED <<spent, past>>
-----------------------------------------------------------------------------
(* Other programs *)

\* Changes reach the service as events if it watches.
Changed(ps) ==
  /\ hints' = IF watching THEN hints \cup ps ELSE hints
  /\ missed' = (missed \/ (~watching /\ Bound # {}))
  /\ UNCHANGED <<watching, sweep>>

\* A save between its last check and its rename does not see what is written
\* meanwhile, be it by another program or for another node (slipped).
Unaware(w, ps) == Busy(w, "rename") /\ act[w].row.path \in ps
Slip(w) == [act[w] EXCEPT !.slipped = TRUE]

\* bound: only what happens to the file of a binding, made or in the making.
Named(p) == \/ \E b \in Bound : rows[b].path = p
            \/ \E w \in Activities : Busy(w, "insert") /\ act[w].row.path = p

ByOthers(ps) ==
  /\ Input
  /\ \E p \in ps : Named(p)
  /\ Changed(ps)
  /\ act' = [w \in Activities |-> IF Unaware(w, ps) THEN Slip(w) ELSE act[w]]
  /\ UNCHANGED <<canvasVars, storeVars>>

\* Written in place, or replaced by a new file as editors do.
Overwrite(p, t) ==
  /\ Exists(p) /\ files[p].text # t
  /\ files' = [files EXCEPT ![p].text = t]
  /\ ByOthers({p})

Replace(p, t) ==
  /\ Exists(p) => files[p].text # t
  /\ \E i \in FreeInodes : files' = [files EXCEPT ![p] = [text |-> t, inode |-> i]]
  /\ ByOthers({p})

Unlink(p) ==
  /\ Exists(p)
  /\ files' = [files EXCEPT ![p] = None]
  /\ ByOthers({p})

Move(p, q) ==
  /\ p # q /\ Exists(p)
  /\ files' = [files EXCEPT ![p] = None, ![q] = files[p]]
  /\ ByOthers({p, q})
-----------------------------------------------------------------------------
(* The watcher *)

\* listRoots and createRoot: #ensureWatcher, with ignoreInitial.
Watch ==
  /\ ~watching
  /\ watching' = TRUE
  /\ UNCHANGED <<canvasVars, inputs, files, storeVars, act, hints, sweep, missed>>

\* The columns an activity uses of the row it has read.
ReadColumns == {"node", "path", "mode", "base", "echo", "first"}

\* #reconcileBinding starts with the row its caller has just read.
Reconcile(w, b, row) ==
  Go(w, [Idle EXCEPT !.pc = "read", !.b = b, !.row = Restrict(row, ReadColumns)])

\* UNIQUE of node_bindings: a statement that gives a row this path fails.
Taken(p) == \E b \in Bound : rows[b].path = p

\* A row follows its file to another path and is reconciled there, unless the
\* statement fails, and the call with it.
FollowFile(w, b, p) ==
  IF Taken(p) THEN UNCHANGED <<rows, act>> /\ missed' = TRUE
  ELSE /\ rows' = [rows EXCEPT ![b].path = p]
       /\ Reconcile(w, b, rows'[b])
       /\ UNCHANGED missed

\* #onFilesystemEvent, and the delayed pass it asks for.  One of the bindings
\* that had the file elsewhere (find) goes with it, unless its old path is there.
Elsewhere(p) == {b \in Bound : Exists(p) /\ rows[b].identity = files[p].inode /\ rows[b].path # p}

Notice(w, p) ==
  /\ Busy(w, "idle")
  /\ p \in hints
  /\ hints' = hints \ {p}
  /\ sweep' = Bindings
  /\ \/ \E b \in Elsewhere(p) : ~Exists(rows[b].path) /\ FollowFile(w, b, p)
     \/ /\ Elsewhere(p) = {} \/ \E b \in Elsewhere(p) : Exists(rows[b].path)
        /\ \/ \E b \in Bound : rows[b].path = p /\ Reconcile(w, b, rows[b])
           \/ (\A b \in Bound : rows[b].path # p) /\ UNCHANGED act
        /\ UNCHANGED <<rows, missed>>
  /\ UNCHANGED <<canvasVars, inputs, files, made, conflicts, watching>>

\* #reconcileKnownBindings, which a failure ends; another pass may be due.
SweepOne(w, b) ==
  /\ Busy(w, "idle")
  /\ b \in sweep
  /\ IF b \notin Bound THEN UNCHANGED <<rows, act, missed>> /\ sweep' = sweep \ {b} ELSE
     \/ \E p \in Paths :
          /\ Holds(p, rows[b].identity) /\ rows[b].path # p
          /\ FollowFile(w, b, p)
          /\ sweep' \in {sweep \ {b}, IF Taken(p) THEN {} ELSE sweep \ {b}}
     \/ /\ \A p \in Paths : Holds(p, rows[b].identity) => rows[b].path = p
        /\ IF Exists(rows[b].path) => Holds(rows[b].path, rows[b].identity)
             THEN Reconcile(w, b, rows[b]) ELSE UNCHANGED act
        /\ sweep' = sweep \ {b}
        /\ UNCHANGED <<rows, missed>>
  /\ UNCHANGED <<canvasVars, inputs, files, made, conflicts, watching, hints>>
-----------------------------------------------------------------------------
(* #reconcileBinding *)

\* A row is changed column by column; what the activity did not name stays.
Patched(row, patch) ==
  [c \in DOMAIN row |-> IF c \in DOMAIN patch THEN patch[c] ELSE row[c]]

Then(w, patch) == Go(w, [Idle EXCEPT !.pc = "update", !.b = act[w].b, !.patch = patch])

\* #applyDiskText: a commit if the texts differ, and the row follows the disk.
Follow(w, disk) == Then(w, [echo |-> None, base |-> disk, state |-> "clean"])
Adopt(w, t, disk) ==
  IF t = disk THEN Follow(w, disk)
  ELSE Go(w, [act[w] EXCEPT !.pc = "commit", !.disk = disk])

\* #recordConflict
Dispute(w, t, disk) == Go(w, [Idle EXCEPT !.pc = "conflict", !.b = act[w].b, !.text = t, !.disk = disk])

\* The node's text is compared with the file and with the base of the row that
\* the activity read when it started.
Compare(w, t, file) ==
  LET row == act[w].row  disk == file.text
      agreed == [identity |-> file.inode, base |-> disk, state |-> "clean"]
      ahead == [identity |-> file.inode, state |-> IF t = disk THEN "clean" ELSE "canvas-dirty"] IN
  CASE row.mode = "fs-authoritative" -> Adopt(w, t, disk)
    [] row.mode = "canvas-authoritative" ->
         IF t = disk THEN Then(w, agreed)
         ELSE IF disk = row.base THEN Then(w, ahead) ELSE Dispute(w, t, disk)
    [] row.mode = "bidirectional" ->
         IF t = row.base THEN Adopt(w, t, disk)
         ELSE IF disk = row.base THEN Then(w, ahead)
         ELSE IF t = disk THEN Then(w, agreed) ELSE Dispute(w, t, disk)

\* Mutant: any event after a save is taken for its echo.
ReadAnyEcho(w) ==
  /\ Busy(w, "read")
  /\ LET row == act[w].row  file == files[row.path] IN
     IF ~Exists(row.path) THEN
       Then(w, [echo |-> None, state |-> "missing"])
     ELSE IF row.echo # None THEN
       Then(w, [identity |-> file.inode, echo |-> None, base |-> file.text, state |-> "clean"])
     ELSE IF canvas[row.node].binding # act[w].b THEN Return(w)
     ELSE Compare(w, canvas[row.node].text, file)
  /\ UNCHANGED <<canvasVars, inputs, files, storeVars, watchVars>>

\* The file is gone, is the echo of a save, belongs to a node that does not
\* refer to the binding, or is compared.  One step: only where both file and
\* node change between the reading of the one and of the other do two steps
\* see more, and then the change of the file is still to be noticed.
Read(w) ==
  /\ Busy(w, "read")
  /\ LET row == act[w].row  file == files[row.path] IN
     IF ~Exists(row.path) THEN
       Then(w, [echo |-> None, state |-> "missing"])
     ELSE IF row.echo = file.text THEN
       Then(w, [identity |-> file.inode, echo |-> None, base |-> file.text, state |-> "clean"])
     ELSE IF canvas[row.node].binding # act[w].b THEN Return(w)
     ELSE Compare(w, canvas[row.node].text, file)
  /\ UNCHANGED <<canvasVars, inputs, files, storeVars, watchVars>>

\* commitLatest under the id fs-sync-<binding>-<digest>.
Commit(w) ==
  /\ Busy(w, "commit")
  /\ CommitLatest(<<act[w].b, act[w].disk>>, act[w].row.node, act[w].disk)
  /\ Follow(w, act[w].disk)
  /\ UNCHANGED <<inputs, files, storeVars, watchVars>>

\* An open conflict of the same two digests is not recorded twice, hence a set.
\* Nobody reads the conflicts between its insertion and the update of the row.
Conflict(b, t, disk) == [b |-> b, canvas |-> t, disk |-> disk]

\* Mutant: the row follows the disk although nobody has agreed to it.
RecordConflictAndFollow(w) ==
  /\ Busy(w, "conflict")
  /\ LET b == act[w].b  t == act[w].text  disk == act[w].disk IN
     /\ b \in Bound
     /\ conflicts' = conflicts \cup {Conflict(b, t, disk)}
     /\ rows' = [rows EXCEPT ![b] = Patched(@, [base |-> disk, echo |-> None, state |-> "conflict"])]
  /\ Return(w)
  /\ UNCHANGED <<canvasVars, inputs, files, made, watchVars>>

RecordConflict(w) ==
  /\ Busy(w, "conflict")
  /\ LET b == act[w].b  t == act[w].text  disk == act[w].disk IN
     /\ b \in Bound
     /\ conflicts' = conflicts \cup {Conflict(b, t, disk)}
     /\ rows' = [rows EXCEPT ![b] = Patched(@, [echo |-> None, state |-> "conflict"])]
  /\ Return(w)
  /\ UNCHANGED <<canvasVars, inputs, files, made, watchVars>>

\* The last statement of an activity; it throws if the row is gone.
Update(w) ==
  /\ Busy(w, "update")
  /\ act[w].b \in Bound
  /\ rows' = [rows EXCEPT ![act[w].b] = Patched(@, act[w].patch)]
  /\ Return(w)
  /\ UNCHANGED <<canvasVars, inputs, files, made, conflicts, watchVars>>
-----------------------------------------------------------------------------
(* POST /filesystem/bindings *)

\* createBinding reads the document and the file, and writes the row after it.
Bind(w, n, p, mode) ==
  /\ Busy(w, "idle")
  /\ made < Cardinality(Bindings)
  /\ Exists(p)
  /\ LET t == canvas[n].text  disk == files[p].text IN
     Go(w, [Idle EXCEPT !.pc = "insert", !.b = made + 1, !.row =
       [node |-> n, path |-> p, mode |-> mode, base |-> disk,
        state |-> IF t = disk THEN "clean"
                  ELSE IF mode = "fs-authoritative" THEN "disk-dirty" ELSE "canvas-dirty",
        identity |-> files[p].inode, echo |-> None, first |-> disk]])
  /\ made' = made + 1
  /\ UNCHANGED <<canvasVars, inputs, files, rows, conflicts, watchVars>>

\* One binding per node and per path; then the watcher.
Insert(w) ==
  /\ Busy(w, "insert")
  /\ IF \E b \in Bound : rows[b].node = act[w].row.node \/ rows[b].path = act[w].row.path
       THEN Return(w) /\ UNCHANGED <<rows, watching>>
       ELSE /\ rows' = [rows EXCEPT ![act[w].b] = act[w].row]
            /\ watching' = TRUE
            /\ Go(w, [act[w] EXCEPT !.pc = "attach"])
  /\ UNCHANGED <<canvasVars, inputs, files, made, conflicts, hints, sweep, missed>>

\* commitCanvas: the node refers to the binding, and its file is reconciled; or
\* it is refused because the browser's base is stale, and the row is deleted with
\* its conflicts, unless the watcher or that deletion fails.
Attach(w) ==
  /\ Busy(w, "attach")
  /\ \/ /\ BindNode(act[w].row.node, act[w].b)
        /\ Reconcile(w, act[w].b, rows[act[w].b])
        /\ UNCHANGED <<inputs, rows, conflicts>>
     \/ /\ Return(w)
        /\ \/ /\ rows' = [rows EXCEPT ![act[w].b] = None]
              /\ conflicts' = {c \in conflicts : c.b # act[w].b}
              /\ UNCHANGED inputs
           \/ Input /\ UNCHANGED <<rows, conflicts>>
        /\ UNCHANGED canvasVars
  /\ UNCHANGED <<files, made, watchVars>>
-----------------------------------------------------------------------------
(* POST /filesystem/bindings/:id/save *)

\* The route reads the document, save the row and then the file: an edit of the
\* node in between is one after the save has begun.
Save(w, b) ==
  /\ Input
  /\ Busy(w, "idle")
  /\ b \in Bound /\ rows[b].mode # "fs-authoritative"
  /\ canvas[rows[b].node].binding = b
  /\ Exists(rows[b].path)
  /\ LET t == canvas[rows[b].node].text  disk == files[rows[b].path].text IN
     Go(w, [Idle EXCEPT !.b = b, !.row = Restrict(rows[b], ReadColumns), !.text = t, !.disk = disk,
              !.pc = IF disk \in {rows[b].base, t} THEN "announce" ELSE "conflict"])
  /\ UNCHANGED <<canvasVars, files, storeVars, watchVars>>

\* The echo token is written before the file.
Announce(w) ==
  /\ Busy(w, "announce")
  /\ LET b == act[w].b  t == act[w].text IN
     IF b \notin Bound THEN Return(w) /\ UNCHANGED rows ELSE
     /\ rows' = [rows EXCEPT ![b].echo = t, ![b].state = "canvas-dirty"]
     /\ Go(w, [act[w] EXCEPT !.pc = "check"])
  /\ UNCHANGED <<canvasVars, inputs, files, made, conflicts, watchVars>>

\* atomicCasWriteText: the digest once more, with the new text beside the file.
Check(w) ==
  /\ Busy(w, "check")
  /\ LET p == act[w].row.path IN
     Go(w, [act[w] EXCEPT !.pc =
              IF Exists(p) /\ files[p].text = act[w].disk THEN "rename" ELSE "failed"])
  /\ UNCHANGED <<canvasVars, inputs, files, storeVars, watchVars>>

\* rename(2), and the fsync of the directory, which may fail after it.
Rename(w) ==
  /\ Busy(w, "rename")
  /\ LET p == act[w].row.path IN
     /\ \E i \in FreeInodes : files' = [files EXCEPT ![p] = [text |-> act[w].text, inode |-> i]]
     /\ Changed({p})
     /\ \E next \in {"settle", "failed"} :
          /\ act' = [v \in Activities |->
                       IF v = w THEN [act[w] EXCEPT !.pc = next]
                       ELSE IF Unaware(v, {p}) /\ act[v].row.node # act[w].row.node THEN Slip(v)
                       ELSE act[v]]
          /\ IF next = "failed" THEN Input ELSE UNCHANGED inputs
  /\ UNCHANGED <<canvasVars, storeVars>>

Settle(w) ==
  /\ Busy(w, "settle")
  /\ LET b == act[w].b  t == act[w].text  p == act[w].row.path IN
     IF b \in Bound /\ Exists(p) THEN
       /\ rows' = [rows EXCEPT ![b].base = t, ![b].echo = t, ![b].identity = files[p].inode, ![b].state = "clean"]
       /\ Return(w)
     ELSE UNCHANGED rows /\ Go(w, [act[w] EXCEPT !.pc = "failed"])
  /\ UNCHANGED <<canvasVars, inputs, files, made, conflicts, watchVars>>

\* The catch of save.
SaveFailed(w) ==
  /\ Busy(w, "failed")
  /\ rows' = IF act[w].b \in Bound
               THEN [rows EXCEPT ![act[w].b].echo = None, ![act[w].b].state = "conflict"]
               ELSE rows
  /\ Return(w)
  /\ UNCHANGED <<canvasVars, inputs, files, made, conflicts, watchVars>>
-----------------------------------------------------------------------------
(* Failures *)

\* A call of the store, the canvas or the disk fails: the activity ends, but for
\* a save that has announced itself and a bind whose commit failed.
ActivityFails(w) ==
  /\ act[w].pc \notin {"idle", "attach"}
  /\ \/ Input
     \/ act[w].pc \in {"conflict", "update"} /\ act[w].b \notin Bound /\ UNCHANGED inputs
  /\ IF act[w].pc \in {"check", "rename", "settle"}
       THEN Go(w, [act[w] EXCEPT !.pc = "failed"]) ELSE Return(w)
  /\ missed' = TRUE
  /\ UNCHANGED <<canvasVars, files, storeVars, watching, hints, sweep>>

\* The daemon ends.  Rows, conflicts and files stay.
Crash ==
  /\ Input
  /\ act' = [w \in Activities |-> Idle]
  /\ watching' = FALSE
  /\ hints' = {} /\ sweep' = {}
  /\ missed' = (missed \/ hints # {} \/ sweep # {} \/ \E w \in Activities : ~Busy(w, "idle"))
  /\ UNCHANGED <<canvasVars, files, storeVars>>

Next ==
  \/ \E n \in Nodes, t \in Texts : Edit(n, t)
  \/ \E p \in Paths : \/ \E t \in Texts : Overwrite(p, t) \/ Replace(p, t)
                      \/ Unlink(p)
                      \/ \E q \in Paths : Move(p, q)
  \/ Watch
  \/ \E w \in Activities :
       \/ \E p \in Paths : Notice(w, p)
       \/ \E b \in Bindings : SweepOne(w, b) \/ Save(w, b)
       \/ Read(w) \/ Commit(w) \/ RecordConflict(w) \/ Update(w)
       \/ \E n \in Nodes, p \in Paths, mode \in Modes : Bind(w, n, p, mode)
       \/ Insert(w) \/ Attach(w)
       \/ Announce(w) \/ Check(w) \/ Rename(w) \/ Settle(w) \/ SaveFailed(w)
       \/ ActivityFails(w)
  \/ Crash

Spec == Init /\ [][Next]_vars
-----------------------------------------------------------------------------
\* The texts of a bound file that the canvas side knows: what the node has had,
\* and what the user saw in the file when they bound it.
Known(row) == past[row.node] \cup {row.first}

\* A save replaces no text that its node has never had, unless another program
\* or another node wrote it between the last digest check and the rename: a text
\* under an open conflict stays on disk however base and echo were rewritten in
\* between.
NothingUnseen ==
  [][\A w \in Activities :
       (Busy(w, "rename") /\ act'[w].pc \in {"settle", "failed"} /\ files' # files) =>
         LET p == act[w].row.path IN
         \/ ~Exists(p)
         \/ files[p].text \in Known(act[w].row)
         \/ act[w].slipped]_<<act, files>>

\* No edit on disk goes unnoticed: when the service has nothing left to do, has
\* watched all along and met no failure, the text of a bound file is one the
\* node has had, or it is under an open conflict.
Quiet ==
  /\ ~missed
  /\ watching /\ hints = {} /\ sweep = {}
  /\ \A w \in Activities : Busy(w, "idle")

NoSilentEdit ==
  Quiet => \A b \in Bound :
    LET row == rows[b] IN
    Exists(row.path) /\ canvas[row.node].binding = b =>
      \/ files[row.path].text \in Known(row)
      \/ \E c \in conflicts : c.b = b /\ c.disk = files[row.path].text
=============================================================================
