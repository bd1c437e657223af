SPECIFICATION MCSpec
CONSTANTS
  p1 = p1
  p2 = p2
  c1 = c1
  c2 = c2
  NULL = NULL
  STALE = STALE
INVARIANTS
  TypeOK
  OnePlace
  OrderKept
PROPERTIES
  FaultsForCause
  RefinesBoundedQueue
  AllDelivered
