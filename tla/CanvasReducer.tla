---------------------------- MODULE CanvasReducer ----------------------------
(***************************************************************************)
(* The data every Canvas module shares: documents, commands and the shared *)
(* reducer applyCanvasCommand (src/src/canvas/commands.ts), which browser  *)
(* and daemon run alike.  A document and a command are opaque; what the    *)
(* other modules rely on is that the reducer either throws or returns a    *)
(* document, and that a trusted plan command whose receipt the document    *)
(* already carries returns the very same document (isIdempotentReplay).    *)
(***************************************************************************)
CONSTANTS
  Documents,        \* the canvas documents
  EmptyDocument,    \* emptyCanvasDocument()
  Commands,         \* the canvas commands; equal commands have equal digests
  Rejected,         \* the reducer threw a CanvasCommandError
  Reducer,          \* [Documents \X Commands -> Documents \cup {Rejected}]
  Receipted         \* pairs whose plan receipt the document already carries

ASSUME ReducerAssumption ==
  /\ EmptyDocument \in Documents
  /\ Rejected \notin Documents
  /\ Reducer \in [Documents \X Commands -> Documents \cup {Rejected}]

\* Only a document that carries a receipt can replay one: the empty document
\* carries none, and a replay leaves the document as it is.
ASSUME ReceiptedAssumption ==
  /\ Receipted \subseteq Documents \X Commands
  /\ \A c \in Commands : <<EmptyDocument, c>> \notin Receipted
  /\ \A p \in Receipted : Reducer[p] = p[1]

\* applyCanvasCommand: Rejected when it throws.
Apply(document, command) == Reducer[document, command]

\* isIdempotentReplay: applyCanvasCommand returns its argument itself.
IsReplay(document, command) == <<document, command>> \in Receipted
==============================================================================
