\* Two keys, one value, reliable disk: do acknowledged writes survive a
\* process restart?
CONSTANTS
    k1 = k1
    k2 = k2
    v1 = v1
    NoVal = NoVal
    Key <- MCKey
    Val <- MCVal
    IOErrors = FALSE
    MaxOps = 3
    MaxCrashes = 1
SPECIFICATION Spec
INVARIANT StoreHoldsAcknowledgedWrites
CHECK_DEADLOCK FALSE
