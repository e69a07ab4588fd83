CONSTANTS
  Workers = {w1, w2}
  w1 = w1
  w2 = w2
  MaxRetries = 1
  Pools = {0, 2}
  RotateAfter = 2
  Limit = 1
SPECIFICATION FetchSpec
INVARIANTS
  PoolMovesOn
PROPERTY
  FetchEnds
