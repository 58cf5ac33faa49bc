SPECIFICATION Spec
CONSTANTS
  NConnections = 2
  Sessions = {s1, s2}
  NULL = NULL
SYMMETRY SessionSymmetry
INVARIANT CapacityMeansBusy
CHECK_DEADLOCK FALSE
