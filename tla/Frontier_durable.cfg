CONSTANTS
  a = a
  b = b
  c = c
  d = d
  Workers = {w1, w2}
  Main = Main
  Urls = {a, b, c, d}
  Seed = a
  Links <- MCLinks
  NoItem = NoItem
  MaxDepth = 2
  Durable = TRUE
  WriteErrors = FALSE
  MaxRestarts = 2
SPECIFICATION Spec
INVARIANTS IndInv FileRebuildsFrontier LinksRecoverable
PROPERTY ImplementsDurablePool
