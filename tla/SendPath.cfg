SPECIFICATION FairSpec
CONSTANTS
  Senders = {s1}
  Batchers = {b1}
  Closers = {c1}
  BatchLen = 3
  WrapAt = 1
  IntMax = 3
  MaxTurns = 1
INVARIANTS IdsPositive ChainIntact BatchContiguous
PROPERTY CallsReturn
