SPECIFICATION FairCrawl
CONSTANTS
  w1 = w1  w2 = w2  s = s  n = n  p = p  x = x  r1 = r1  r2 = r2  r3 = r3  r4 = r4  NoWorker = NoWorker
  Worker = {w1, w2}
  Url = {s, n, p, x}
  Seed = s
  Content = {s, n, p, x}
  Record = {r1, r2, r3, r4}
  Unmatched = {r4}
  Skippable = {x}
  Sites <- SomeSites
  SlicePages = 2
  TargetPages = 4
  MaxDepth = 1
  MaxFailures = 2
  MaxFruitless = 2
  MaxRetries = 1
  MaxAttempts = 2
INVARIANTS NothingStranded CleanMeansWhole
PROPERTY CrawlEnds
CHECK_DEADLOCK FALSE
