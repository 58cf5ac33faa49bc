SPECIFICATION Spec
CONSTANTS
  HALF_BUFFER_SIZE = 2
  Stream <- MCStream
  m_is_root = FALSE
  EarlyBytes = {0, 2}
INVARIANT HalvesAreSeparate
CHECK_DEADLOCK FALSE
