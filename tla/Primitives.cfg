SPECIFICATION PrimitivesSpec
CONSTANTS
  Uses <- CheckedUses
  Nothing = Nothing
INVARIANTS
  PrimitivesInv
  ReadFresh
  NoWriteLost
PROPERTIES
  BoundedGap
  CallsReturn
