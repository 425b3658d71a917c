\* Three replicas, up to three terms and one restart: every vote cast,
\* term adoption and restart interleaving of the election code.
CONSTANTS
    n1 = n1
    n2 = n2
    n3 = n3
    Node <- MCNode
    Nil = Nil
    MaxTerm = 2
    MaxElections = 2
    MaxRestarts = 1
    MaxRequests = 1
    ChanCap = 1
SPECIFICATION Spec
SYMMETRY MCSymmetry
INVARIANT TypeOK
PROPERTY VoteOncePerTerm
PROPERTY TermMonotonic
CHECK_DEADLOCK FALSE
