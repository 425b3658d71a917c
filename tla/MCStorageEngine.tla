--------------------------- MODULE MCStorageEngine ---------------------------
EXTENDS StorageEngine

CONSTANTS k1, k2, v1

MCKey == {k1, k2}
MCVal == {v1}
====
