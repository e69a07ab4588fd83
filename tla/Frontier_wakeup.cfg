CONSTANTS
  a = a
  b = b
  c = c
  d = d
  Workers = {w1, w2, w3}
  Main = Main
  Urls = {a, b, c, d}
  Seed = a
  Links <- MCLinks
  NoItem = NoItem
  MaxDepth = 2
  Durable = FALSE
  WriteErrors = FALSE
  MaxRestarts = 0
SPECIFICATION Spec
INVARIANT NoMissedWakeup
