SPECIFICATION FairSpec
CONSTANTS
  Requests = {r1, r2, r3}
  Clients = {rest, hidden}
  NoClient = NoClient
  MaxTime = 2
  MaxRestarts = 1
INVARIANTS TypeOK LoneRequestAccepted
PROPERTIES ImplementsSource DrawReturns
CHECK_DEADLOCK FALSE
