\* One server with a peer that grants its vote: the election is won.
CONSTANTS
    r1 = r1
    Req <- MCReq
    Calls <- MCCalls
    HasPeers = TRUE
    Wins = TRUE
SPECIFICATION Spec
PROPERTY ShutdownCompletes
CHECK_DEADLOCK FALSE
