--------------------------- MODULE MCRemoteWorker ---------------------------
EXTENDS RemoteWorker, TLC

CONSTANTS p1, p2, o1

MCProcs     == {p1, p2}
MCOperators == {o1}
Symmetry    == Permutations(MCProcs)
=============================================================================
