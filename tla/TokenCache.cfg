SPECIFICATION FairSpec
CONSTANTS
  Subscribers = {s1, s2}
  Dialers = {d1}
  NoCaller = NoCaller
  Margin = 2
  HandshakeTimeout = 3
  Validities = {1, 4}
  MaxLatency = 1
  MaxTime = 6
  MaxIssues = 3
INVARIANTS TypeOK CachedTokenLives NoNeedlessFetch
PROPERTIES TokenReturns
CHECK_DEADLOCK FALSE
