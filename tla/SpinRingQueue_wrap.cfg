SPECIFICATION Spec
CONSTANTS
  Producers = {p1, p2}
  Consumers = {c1, c2}
  NULL = NULL
  kCapacity = 2
  IndexModulus = 4
  MAX_PUSH_MSG_COUNT = 3
  MAX_POP_MSG_COUNT = 3
  FuncTypes <- ExclusiveTypes
INVARIANTS
  Inv
  MutualExclusion
  OccupancyBound
  ReleaseFindsLocked
PROPERTIES
  RefinesBoundedQueue
