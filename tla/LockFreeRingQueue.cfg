SPECIFICATION MCSpecFair
CONSTANTS
  Producers = {p1, p2}
  Consumers = {c1, c2}
  Observers = {o1}
  NULL = NULL
  kCapacity = 2
  IndexModulus = 8
  MAX_PUSH_MSG_COUNT = 2
  MAX_POP_MSG_COUNT = 3
INVARIANTS
  Inv
  VerifiedUnlessRaced
PROPERTIES
  AnswersForCause
  ProducersFinish
