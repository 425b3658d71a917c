CONSTANTS n1 = n1 n2 = n2 n3 = n3 k1 = k1 v1 = v1 v2 = v2 NoVal = NoVal
  Node <- MCNode Key <- MCKey Val <- MCVal1 MaxTerm = 2 MaxRequests = 2
SPECIFICATION Spec
SYMMETRY MCSymmetry
INVARIANT TypeOK
CHECK_DEADLOCK FALSE
