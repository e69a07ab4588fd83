CONSTANTS
  w1 = w1
  w2 = w2
  w3 = w3
  Workers = {w1, w2, w3}
  Delays = {0, 3}
  Intervals = {0, 2, 4}
  Bursts = {0, 2}
  Lateness = 2
  MaxCalls = 3
  MaxTime = 7
SYMMETRY WorkerSymmetry
SPECIFICATION Spec
INVARIANTS
  SendsSpaced
  RateBound
  QueueIsShort
CHECK_DEADLOCK FALSE
