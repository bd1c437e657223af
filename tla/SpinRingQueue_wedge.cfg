SPECIFICATION Spec
CONSTANTS
  Producers = {p1}
  Consumers = {c1}
  NULL = NULL
  kCapacity = 2
  IndexModulus = 4
  MAX_PUSH_MSG_COUNT = 6
  MAX_POP_MSG_COUNT = 6
  FuncTypes <- ExclusiveTypes
INVARIANTS
  NotWedged
