SPECIFICATION Spec
CONSTANTS
  Requests = {r1, r2, r3}
  Clients = {rest}
  NoClient = NoClient
  MaxTime = 2
  MaxRestarts = 1
INVARIANTS IncreasingAcrossRestarts
CHECK_DEADLOCK FALSE
