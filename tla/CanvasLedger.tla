----------------------------- MODULE CanvasLedger -----------------------------
(***************************************************************************)
(* What one Canvas branch promises, as a reader of docs/CANVAS-PERSISTENCE *)
(* would state it: a single durable register whose revision advances by    *)
(* one with every semantic change, and a ledger that lets every mutation   *)
(* id take effect at most once, atomically with its receipt.               *)
(* CanvasCommandStore implements this module.                              *)
(***************************************************************************)
EXTENDS Naturals, CanvasReducer

CONSTANTS
  Mutations,        \* mutation ids
  Checkpoints,      \* Git object ids of canvas checkpoints
  NoCheckpoint      \* lastCheckpoint = null

VARIABLES
  revision,         \* the semantic revision
  document,         \* the document of that revision
  checkpoint,       \* the Git anchor
  receipts          \* the exactly-once ledger

vars == <<revision, document, checkpoint, receipts>>

Init ==
  /\ revision = 0
  /\ document = EmptyDocument
  /\ checkpoint = NoCheckpoint
  /\ receipts = {}

Spent == {r.mutation : r \in receipts}

\* A new mutation takes effect: one revision, one receipt.
Mutate(m, c) ==
  /\ m \notin Spent
  /\ Apply(document, c) # Rejected
  /\ document' = Apply(document, c)
  /\ revision' = revision + 1
  /\ receipts' = receipts \cup
       {[mutation |-> m, command |-> c, revision |-> revision + 1]}
  /\ UNCHANGED checkpoint

\* A trusted command finds its receipt in the document: the mutation id is
\* spent and the revision stands.
Acknowledge(m, c) ==
  /\ m \notin Spent
  /\ IsReplay(document, c)
  /\ receipts' = receipts \cup
       {[mutation |-> m, command |-> c, revision |-> revision]}
  /\ UNCHANGED <<revision, document, checkpoint>>

\* A Git commit now names the current document.
Anchor(k) ==
  /\ checkpoint' = k
  /\ UNCHANGED <<revision, document, receipts>>

\* A restore, a merge or the first materialization replaces the document and
\* keeps every receipt.
Replace(d, k) ==
  /\ document' = d
  /\ checkpoint' = k
  /\ revision' = revision + 1
  /\ UNCHANGED receipts

Next ==
  \/ \E m \in Mutations, c \in Commands : Mutate(m, c) \/ Acknowledge(m, c)
  \/ \E k \in Checkpoints : Anchor(k)
  \/ \E d \in Documents, k \in Checkpoints : Replace(d, k)

Spec == Init /\ [][Next]_vars
==============================================================================
