CONSTANTS
  a = a
  b = b
  c = c
  d = d
  Workers = {w1, w2}
  Main = Main
  Urls = {a, b, c, d}
  Seed = a
  Links <- MCLinks
  NoItem = NoItem
  MaxDepth = 2
  Durable = FALSE
  WriteErrors = FALSE
  MaxRestarts = 0
SPECIFICATION FairSpec
INVARIANTS AtMostOnce PendingExact NoEarlyExit NoLostWakeup
PROPERTIES Termination QueuedIsServed ImplementsPool
