SPECIFICATION BookSpec
CONSTANTS
  AskPrices = {4, 5, 6}
  BidPrices = {3}
  MaxQty = 2
  Top = 2
  Depth = 2
  EvictionsSent = FALSE
INVARIANTS NoFalseAlarm
CHECK_DEADLOCK FALSE
