CONSTANTS
  a = a
  b = b
  c = c
  d = d
  e = e
  h1 = h1
  h2 = h2
  Workers = {w1}
  Main = Main
  Urls = {a, b, c, d, e}
  Seed = a
  Hrefs <- Shortcut
  Links <- ScopedLinks
  NoItem = NoItem
  MaxDepth = 3
  Durable = TRUE
  WriteErrors = FALSE
  MaxRestarts = 1
  Hosts = {h1, h2}
  NoHost = NoHost
  HostOf <- AllOnH1
  FinalHost <- AllOnH1
  SameDomain = TRUE
  PerHost = 1
  MaxUrls = NoLimit
  NoLimit = NoLimit
  HasDeadline = TRUE
  MaySkip = {b, e}
  MayFail = {c, d}
SPECIFICATION CrawlSpec
INVARIANT DepthIsDistance
