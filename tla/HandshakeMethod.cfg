SPECIFICATION Spec
CONSTANTS
  Streams <- MCStreams
  HALF_BUFFER_SIZE = 32
INVARIANT NoAcceptableMethodIsSaid
CHECK_DEADLOCK FALSE
