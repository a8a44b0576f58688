------------------------- MODULE MCCanvasCommandStore -------------------------
(***************************************************************************)
(* A small instance of CanvasCommandStore: a document is the set of tasks  *)
(* it holds plus, perhaps, the receipt of one trusted plan.                *)
(***************************************************************************)
EXTENDS CanvasCommandStore, TLC

\* MCCommands: create a task, delete it, materialize a plan.
MCCommands == {"create", "delete", "plan"}
MCDocuments == {{}, {"task"}, {"receipt"}, {"task", "receipt"}}
MCEmpty == {}

\* createTask throws on an existing id, deleteTask on a missing one, a plan
\* is replayed once its receipt is in the document.
MCReduce(d, c) ==
  CASE c = "create" -> IF "task" \in d THEN Rejected ELSE d \cup {"task"}
    [] c = "delete" -> IF "task" \in d THEN d \ {"task"} ELSE Rejected
    [] c = "plan"   -> d \cup {"receipt"}

MCReducer == [p \in MCDocuments \X MCCommands |-> MCReduce(p[1], p[2])]
MCReceipted == {p \in MCDocuments \X MCCommands :
                  p[2] = "plan" /\ "receipt" \in p[1]}

\* The liveness instance: one command, and the documents it makes.
FewCommands == {"create"}
FewDocuments == {{}, {"task"}}
FewReducer == [p \in FewDocuments \X FewCommands |-> MCReduce(p[1], p[2])]
FewReceipted == {}

Symmetry == Permutations(Callers) \cup Permutations(Mutations)
==============================================================================
