------------------------------ MODULE MCRaftLog ------------------------------
EXTENDS RaftLog, TLC

CONSTANTS n1, n2, n3, k1, v1, v2

MCNode == {n1, n2, n3}
MCKey == {k1}
MCVal == {v1, v2}
MCVal1 == {v1}
MCSymmetry == Permutations(MCNode)
====
