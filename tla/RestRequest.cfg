SPECIFICATION Spec
CONSTANTS
  Requests = {r1, r2}
  Keys = {k1}
  Values = {v1}
  Kinds <- MCKinds
  Empty = Empty
  MaxNonce = 2
INVARIANTS TypeOK SignatureHolds SaysWhatWasSet ResultsReal TypedErrorsMeanRefused
PROPERTIES FreshNonces
CHECK_DEADLOCK FALSE
