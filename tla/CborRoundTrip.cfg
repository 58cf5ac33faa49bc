SPECIFICATION Spec
CONSTANT Vectors <- MCVectors
INVARIANT
  RoundTrip
CHECK_DEADLOCK FALSE
