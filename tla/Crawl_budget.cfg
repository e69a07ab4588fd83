CONSTANTS
  a = a
  b = b
  c = c
  d = d
  e = e
  h1 = h1
  h2 = h2
  Workers = {w1, w2}
  Main = Main
  Urls = {a, b, c, d}
  Seed = a
  Hrefs <- Redirect
  Links <- ScopedLinks
  NoItem = NoItem
  MaxDepth = 1
  Durable = TRUE
  WriteErrors = TRUE
  MaxRestarts = 0
  Hosts = {h1, h2}
  NoHost = NoHost
  HostOf <- ADOnH1
  FinalHost <- AllOnH2
  SameDomain = TRUE
  PerHost = 1
  MaxUrls = 2
  NoLimit = NoLimit
  HasDeadline = FALSE
  MaySkip = {b}
  MayFail = {a, c}
SPECIFICATION CrawlFairSpec
INVARIANTS BudgetExact StatsAddUp SeedResolvesScope
PROPERTIES CrawlEnds EngineIsClient
