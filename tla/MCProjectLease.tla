--------------------------- MODULE MCProjectLease ---------------------------
EXTENDS ProjectLease, TLC
Symmetry == Permutations(Daemons) \cup Permutations(Requests)
=============================================================================
