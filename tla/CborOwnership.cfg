SPECIFICATION BufferSpec
CONSTANTS
  Objects = {root, text, temporary, copied}
  Cells = {c1, c2, c3, c4}
  Size = 2
  nullptr = nullptr
  BufferObjects = {encoded, duplicate, moved}
  Blocks = {k1, k2}
  MaxSize = 2
  ItemsBesideBuffers = 1
SYMMETRY ItemSymmetry
INVARIANTS
  TypeOK
  CountsAreOwners
  NoUseAfterFree
  NoLeak
  BuffersOwnTheirMemory
CHECK_DEADLOCK FALSE
