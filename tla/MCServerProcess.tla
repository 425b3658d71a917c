--------------------------- MODULE MCServerProcess ---------------------------
EXTENDS ServerProcess

CONSTANTS r1

\* One gRPC handler.  Delete takes Put's path through RaftStorage, so a
\* Put and a Get cover both.
MCReq == {r1}

MCCalls == {[r \in MCReq |-> "put"], [r \in MCReq |-> "get"]}
====
