SPECIFICATION Spec
CONSTANTS
  Subscribers = {s1}
  Dialers = {d1}
  NoCaller = NoCaller
  Margin = 6
  HandshakeTimeout = 9
  Validities = {12}
  MaxLatency = 1
  MaxTime = 16
  MaxIssues = 2
INVARIANTS SingleUse
CHECK_DEADLOCK FALSE
