SPECIFICATION Spec
CONSTANTS
  Segment = 9
  Sizes = {0, 1, 3}
INVARIANTS
  TypeOK
  Tiled
  Linked
  LongEnough
PROPERTIES
  KeepsBlocks
CHECK_DEADLOCK FALSE
