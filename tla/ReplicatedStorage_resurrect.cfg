CONSTANTS k1 = k1 v1 = v1 v2 = v2 NoVal = NoVal
  Key <- MCKey Val <- MCVal Addr <- MCAddr
  Modes = {TRUE} Reliabilities = {FALSE} MaxWrites = 3 MaxGets = 2
SPECIFICATION Spec
INVARIANT PrimaryHoldsLastWrite
CHECK_DEADLOCK FALSE
