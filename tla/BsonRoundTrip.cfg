SPECIFICATION Spec
CONSTANTS
  Vectors <- MCVectors
  Texts <- MCTexts
  Buffers <- MCBuffers
  W = 3
INVARIANTS
  RoundTrip
  NothingAborts
  ArrayHoldsAPrefix
CHECK_DEADLOCK FALSE
