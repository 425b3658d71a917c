CONSTANTS k1 = k1 v1 = v1 v2 = v2 NoVal = NoVal
  Key <- MCKey Val <- MCVal Addr <- MCAddr
  Modes = {FALSE, TRUE} Reliabilities = {FALSE, TRUE} MaxWrites = 3 MaxGets = 2
SPECIFICATION Spec
INVARIANT TypeOK SyncPrimaryHoldsLastWrite
PROPERTY ReplicasConverge
CHECK_DEADLOCK FALSE
