\* One server with peers whose elections never win: a gRPC call racing
\* the election timer, the peers, the monitor, the info printer and
\* shutdown.
CONSTANTS
    r1 = r1
    Req <- MCReq
    Calls <- MCCalls
    HasPeers = TRUE
    Wins = FALSE
SPECIFICATION Spec
INVARIANT TypeOK
PROPERTY  ShutdownCompletes
