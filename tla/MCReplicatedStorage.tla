------------------------- MODULE MCReplicatedStorage -------------------------
EXTENDS ReplicatedStorage

CONSTANTS k1, v1, v2

MCKey == {k1}
MCVal == {v1, v2}
MCAddr == 1..2
====
