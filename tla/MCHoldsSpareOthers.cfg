SPECIFICATION SpecOperator
CONSTANTS
  p1 = p1  b1 = b1  b2 = b2  t1 = t1  t2 = t2  o1 = o1  o2 = o2
  d1 = d1  d2 = d2  w1 = w1  w2 = w2  NoJob = NoJob  NoWorker = NoWorker
  Project = {p1}
  Batch = {b1}
  Target = {t1, t2}
  Org = {o1}
  Domain = {d1, d2}
  Worker = {w1}
  ProjectOf <- OneProject
  DomainOf <- OwnDomain
  PublishedBy <- AllSites
  PageLimit = 1
  ErrorLimit = 2
  TargetPages = 1
  MaxAttempts = 2
INVARIANT HoldsSpareOthers
CHECK_DEADLOCK FALSE
