-------------------------- MODULE MCProjectCatalog --------------------------
EXTENDS ProjectCatalog, TLC
Symmetry == Permutations(Projects)
=============================================================================
