SPECIFICATION Spec
CONSTANTS
  s1 = s1  s2 = s2
  t1 = t1  t2 = t2
  u1 = u1  u2 = u2
  Sweeps <- TwoSweeps
  Topics <- TwoTopics
  Urls <- TwoUrls
  Watchlists <- BothLists
  Host <- Hosts
  Excludes <- Domains
INVARIANTS
  OneEntryPerUrl
  SeenIsReported
  NoRepeat
PROPERTY KeepsLedger
