----------------------------- MODULE MCNetworkKV -----------------------------
EXTENDS NetworkKV

CONSTANTS k1, v1, v2

MCKey == {k1}
MCVal == {v1, v2}
====
