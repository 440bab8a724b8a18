SPECIFICATION MCSpec
CONSTANTS
  Given = {v1, v2}
  Zero = Zero
  Catalog <- MCCatalog
  Empty = Empty
  Unset = Unset
  Default = v1
  Args = {v1, Empty}
  NoRequest = NoRequest
  Legs <- MCLegs
  MaxCalls = 2
  MaxLegs = 2
  Symbol = Symbol
  Second = 1000
  Word = 1048576
  ZeroTime = ZeroTime
  Nil = Nil
  NetworkURL = NetworkURL
  DefaultNonce = DefaultNonce
  Environment = Environment
  Shared = Shared
  Numbers = {0, 1, 10, 999, 1000, 524287, 524288, 1048575, 104857}
  Nanoseconds = {0, 1, 10, 100, 999}
  Fractions <- MCFractions
  Told = Told
  MaxEdits = 2
  MaxDigits = 3
  MaxFields = 2
  MaxOptions = 4
  MaxClients = 2
  AskPrices = {4}
  BidPrices = {1, 2, 3}
  MaxQty = 2
  Top = 1
  Depth = 2
  EvictionsSent = TRUE
INVARIANTS TypeOK ClOrdIDForms TimesRoundTrip TextsExact StructsReadBack GoesWhereTold TokenFollowsStream
  BookTypeOK InStep NoFalseAlarm
PROPERTIES SaysWhatWasSaid CarriesItsLegs RepeatsItself
CHECK_DEADLOCK FALSE
