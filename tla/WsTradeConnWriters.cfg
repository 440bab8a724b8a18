SPECIFICATION Spec
CONSTANTS
  Calls = {c1, c2}
  Keeper = Keeper
  Verdicts = {"ok"}
  NoCall = NoCall
  MaxPings = 0
  MaxReplies = 1
INVARIANTS ConcurrentCallsServed
CHECK_DEADLOCK FALSE
