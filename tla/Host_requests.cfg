CONSTANTS
  Workers = {w1, w2}
  w1 = w1
  w2 = w2
  Threshold = 2
  BaseCooldown = 1
  MaxCooldown = 1
  MaxRetries = 1
  Pools = {0}
  RotateAfter = 2
  Limit = 1
  PerHost = 1
SPECIFICATION HostSpec
SYMMETRY WorkerSymmetry
INVARIANTS
  OpenHostLeftAlone
  ForbiddenLeftAlone
  MissedOnce
