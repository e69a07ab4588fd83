CONSTANTS
  a = a
  b = b
  c = c
  d = d
  Workers = {w1, w2}
  Main = Main
  Urls = {a, b, c}
  Seed = a
  Links <- MCLinks3
  NoItem = NoItem
  MaxDepth = 2
  Durable = TRUE
  WriteErrors = FALSE
  MaxRestarts = 1
SPECIFICATION Spec
INVARIANT ResumeLosesNothing
