SPECIFICATION FairSpec
CONSTANTS
  Streams <- MCStreams
  HALF_BUFFER_SIZE = 32
INVARIANTS
  TypeOK
  BufferIsTheUnparsedStream
  NeverWaitsForWhatItHas
  ConnectsWhereAsked
  AnswersFitTheStream
PROPERTY HandshakeEnds
CHECK_DEADLOCK FALSE
