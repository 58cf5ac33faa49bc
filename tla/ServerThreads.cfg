SPECIFICATION Spec
CONSTANTS
  max_connections = 3
  Arguments = {0, 1, 2, 4}
  Hardware = {0, 2}
  MaxThreads = 4
  Inherited = 0
  Names4 = {four}
  Names6 = {six}
  NULL = NULL
INVARIANTS
  TypeOK
  DescriptorsBalance
PROPERTIES
  ConnectsToOwnName
  NoClientIsLeftWaiting
  ImplementsLifecycle
CHECK_DEADLOCK FALSE
