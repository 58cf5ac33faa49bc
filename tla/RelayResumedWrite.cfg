SPECIFICATION Spec
CONSTANTS
  HALF_BUFFER_SIZE = 3
  Stream <- MCStream
  m_is_root = TRUE
  EarlyBytes = {0, 2}
INVARIANT WriteHoldsTheRest
CHECK_DEADLOCK FALSE
