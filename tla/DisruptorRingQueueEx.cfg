SPECIFICATION SpecExFair
CONSTANTS
  Producers = {p1}
  kConsumers = 2
  NULL = NULL
  kCapacity = 4
  MAX_PUSH_MSG_COUNT = 6
  MAX_POP_MSG_COUNT = 3
  MAX_VALUE = 100
  kIndexLineSize = 2
  kEntryLineSize = 4
  MIN_BOXES = 2
PROPERTIES
  RefinesRing
  AllDelivered
