SPECIFICATION Spec
CONSTANTS
  Producers = {p1, p2}
  Consumers = {c1, c2}
  NULL = NULL
  STALE = STALE
  kCapacity = 4
  IndexModulus = 8
  StartIndex = 6
  MAX_PUSH_MSG_COUNT = 3
  MAX_POP_MSG_COUNT = 3
INVARIANTS
  Inv
  NoSlotRace
PROPERTIES
  RefinesBoundedQueue
  HonestRefusals
