-------------------------- MODULE MCFilesystemSync --------------------------
(* Instances of FilesystemSync with two paths: the first holds a file, or both *)
(* hold files of different texts. *)
EXTENDS FilesystemSync, TLC

CONSTANTS path1, path2

OneFile == {path1 :> t @@ path2 :> None : t \in Texts}
TwoFiles == {path1 :> t @@ path2 :> u : t, u \in Texts} \ {path1 :> t @@ path2 :> t : t \in Texts}
Symmetry == Permutations(Activities) \cup Permutations(Texts) \cup Permutations(Inodes) \cup Permutations(Nodes)
=============================================================================
