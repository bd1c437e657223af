SPECIFICATION SpecOld
CONSTANTS
  Producers = {p1, p2}
  kConsumers = 2
  NULL = NULL
  kCapacity = 2
  MAX_PUSH_MSG_COUNT = 2
  MAX_POP_MSG_COUNT = 2
  MAX_VALUE = 100
  UnsetFlags = {0}
SYMMETRY ProducerSymmetry
INVARIANTS
  Inv
  NoOverwrite
  LaterLapsSound
  PopListCorrectIfMarked
