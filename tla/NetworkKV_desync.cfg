\* One key, two values, two connections, three calls; the Storage's
\* errors may be longer than the 1KB ReadResponse accepts.
CONSTANTS
    k1 = k1
    v1 = v1
    v2 = v2
    NoVal = NoVal
    Key <- MCKey
    Val <- MCVal
    ErrLens = {"short", "long"}
    MaxCalls = 3
    MaxConns = 2

SPECIFICATION Spec
INVARIANT CallsSeeTheirResponses
CHECK_DEADLOCK FALSE
