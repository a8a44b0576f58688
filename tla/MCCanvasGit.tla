----------------------------- MODULE MCCanvasGit -----------------------------
(***************************************************************************)
(* Two branches, three documents that a checkpoint can bring, and every    *)
(* outcome of a merge: the change of one side, of both, no change,         *)
(* conflicts and an invalid document.                                      *)
(***************************************************************************)
EXTENDS CanvasGit

MCGiven == {"left", "right", "neither"}
MCDocuments == {"left", "right", "both", "neither"}

MCMerge(base, target, source) ==
  IF source \in {base, target} THEN target
  ELSE IF target = base THEN source
  ELSE IF base = "neither" THEN "both"
  ELSE IF base = "left" THEN Invalid ELSE Conflicting

MCMerging ==
  [m \in MCDocuments \X MCDocuments \X MCDocuments |-> MCMerge(m[1], m[2], m[3])]
==============================================================================
