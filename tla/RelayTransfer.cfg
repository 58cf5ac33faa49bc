SPECIFICATION FairSpec
CONSTANTS
  HALF_BUFFER_SIZE = 3
  Stream <- MCStream
  m_is_root = TRUE
  EarlyBytes = {0, 2}
INVARIANTS
  TypeOK
  DeliveredInOrder
  HalvesAreSeparate
  CountsBalance
PROPERTY ReadBytesArrive
CHECK_DEADLOCK FALSE
