SPECIFICATION FairSpec
CONSTANTS
  Calls = {c1, c2}
  Keeper = Keeper
  Verdicts = {"ok"}
  NoCall = NoCall
  MaxPings = 0
  MaxReplies = 1

PROPERTIES CloseReleases DeathReleases CloseStopsGoroutines
CHECK_DEADLOCK FALSE
