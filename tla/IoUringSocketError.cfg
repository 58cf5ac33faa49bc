SPECIFICATION Spec
CONSTANTS
  NConnections = 2
  Sessions = {s1, s2}
  NULL = NULL
SYMMETRY SessionSymmetry
INVARIANT SocketErrorIsAnswered
CHECK_DEADLOCK FALSE
