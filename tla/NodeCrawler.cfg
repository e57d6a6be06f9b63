CONSTANTS
  Peer = {0, 1, 2, 3, 4}
  Capacity = 2
  Alpha = {1, 2}
SPECIFICATION FairSpec
INVARIANTS
  RoundAccounting
  AskedAtMostOnce
  ReturnsOnlyLivePeers
  NothingReadIsMissed
PROPERTY CrawlEnds
CHECK_DEADLOCK FALSE
