--------------------------- MODULE MCRaftElection ---------------------------
EXTENDS RaftElection, TLC

CONSTANTS n1, n2, n3

MCNode == {n1, n2, n3}
MCSymmetry == Permutations(MCNode)
=============================================================================
