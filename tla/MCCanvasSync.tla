----------------------------- MODULE MCCanvasSync -----------------------------
(***************************************************************************)
(* A small instance of CanvasSync: a document is what is known of one task, *)
(* absent, created, or created and moved.                                  *)
(***************************************************************************)
EXTENDS CanvasSync

MCDocuments == {"absent", "created", "moved"}

\* The one command takes the task a step further, and is refused at the end.
MCReduce(d, c) ==
  CASE d = "absent" -> "created" [] d = "created" -> "moved" [] d = "moved" -> Rejected

MCReducer == [p \in Documents \X Commands |-> MCReduce(p[1], p[2])]

Symmetry == Permutations(Mutations) \cup Permutations(ForeignMutations)
==============================================================================
