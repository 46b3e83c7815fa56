SPECIFICATION FairLimitSpec
CONSTANTS
  b1 = b1
  b2 = b2
  Bucket = {b1, b2}
  Limit = 2
  Window = 3
  MaxLost = 1
INVARIANTS
  BurstBounded
  RefusedOnlyWhenSpent
PROPERTY RefusalEnds
