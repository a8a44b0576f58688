------------------------ MODULE MCWorkspaceVersioning ------------------------
(***************************************************************************)
(* A small instance of WorkspaceVersioning: a canvas that is empty, drafted *)
(* or final, one command that goes on and one that deletes.                *)
(***************************************************************************)
EXTENDS WorkspaceVersioning

MCDocuments == {"empty", "draft", "final"}
MCCommands == {"write", "delete"}
MCDestructive == {"delete"}

MCReduce(d, c) ==
  CASE c = "write" /\ d = "empty" -> "draft"
    [] c = "write" /\ d = "draft" -> "final"
    [] c = "delete" /\ d # "empty" -> "empty"
    [] OTHER -> Rejected

MCReducer == [p \in MCDocuments \X MCCommands |-> MCReduce(p[1], p[2])]

\* A three-way merge takes the side that changed; two changes conflict.
MCMerge(base, target, source) ==
  IF source \in {base, target} THEN target
  ELSE IF target = base THEN source ELSE Conflicting

\* A command on main and two revisions of the other branch, or two of each.
OneOnMain == [b \in Branches |-> IF b = Main THEN 1 ELSE 2]
TwoOnEach == [b \in Branches |-> 2]

MCMerged == [p \in MCDocuments \X MCDocuments \X MCDocuments |-> MCMerge(p[1], p[2], p[3])]
==============================================================================
