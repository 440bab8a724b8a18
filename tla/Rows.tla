-------------------------------- MODULE Rows --------------------------------
(***************************************************************************)
(* Rows of market data (market.go): Kraken sends a candle, a level or a    *)
(* trade as an array whose elements count by position.  Numbers and texts  *)
(* stand for themselves, a time goes through module UnixTime.              *)
(***************************************************************************)
EXTENDS UnixTime

\* A row: how many columns it must have, which field each is read into, and which is written there.
Row(want, read, written) == [want |-> want, read |-> read, written |-> written]

FeeTier == Row(2, <<"Volume", "Percent">>, <<"Volume", "Percent">>)
TickerLevel == Row(3, <<"Price", "WholeLotVolume", "LotVolume">>,
                      <<"Price", "WholeLotVolume", "LotVolume">>)
TickerLastTrade == Row(2, <<"Price", "LotVolume">>, <<"Price", "LotVolume">>)
TickerWindow == Row(2, <<"Today", "Last24Hours">>, <<"Today", "Last24Hours">>)
TickerCountWindow == Row(2, <<"Today", "Last24Hours">>, <<"Today", "Last24Hours">>)

\* Mutation: two prices of the candle are read in the wrong order.
Candle_highLow == Row(8,
  <<"Time", "Open", "Low", "High", "Close", "VWAP", "Volume", "Count">>,
  <<"Time", "Open", "High", "Low", "Close", "VWAP", "Volume", "Count">>)

Candle == Row(8,
  <<"Time", "Open", "High", "Low", "Close", "VWAP", "Volume", "Count">>,
  <<"Time", "Open", "High", "Low", "Close", "VWAP", "Volume", "Count">>)
BookEntry == Row(3, <<"Price", "Volume", "Timestamp">>, <<"Price", "Volume", "Timestamp">>)
Trade == Row(7, <<"Price", "Volume", "Time", "Side", "OrderType", "Misc", "TradeID">>,
                <<"Price", "Volume", "Time", "Side", "OrderType", "Misc", "TradeID">>)
Spread == Row(3, <<"Time", "Bid", "Ask">>, <<"Time", "Bid", "Ask">>)

Rows == {FeeTier, TickerLevel, TickerLastTrade, TickerWindow, TickerCountWindow, Candle, BookEntry,
         Trade, Spread}

\* The fields of type time.Time.
TimeFields == {"Time", "Timestamp"}

RowFields(row) == {row.read[i] : i \in DOMAIN row.read}

EncodeColumns(row, v) ==
  [i \in DOMAIN row.written |->
     IF row.written[i] \in TimeFields THEN MarshalUnixTime(v[row.written[i]])
     ELSE v[row.written[i]]]

\* {} is an error: too few or too many columns, or one that is no time.
DecodeColumns(row, array) ==
  LET Column(f)  == array[CHOOSE i \in DOMAIN row.read : row.read[i] = f]
      Decoded(f) == IF f \in TimeFields THEN UnmarshalUnixTime(Column(f)) ELSE {Column(f)}
  IN  IF Len(array) # row.want \/ (\E f \in RowFields(row) : Decoded(f) = {}) THEN {}
      ELSE {[f \in RowFields(row) |-> CHOOSE x \in Decoded(f) : TRUE]}

---------------------------------------------------------------------------
\* Rows come under their pair's name, beside a cursor: {pair: rows, "last": cursor}.

\* Of several pairs any one may be taken: the map is in no order.
SplitResultLast(object, absent) ==
  LET last  == IF "last" \in DOMAIN object THEN object["last"] ELSE absent
      pairs == DOMAIN object \ {"last"}
  IN  IF pairs = {} THEN {[pair |-> "", payload |-> absent, last |-> last]}
      ELSE {[pair |-> p, payload |-> object[p], last |-> last] : p \in pairs}

\* The limit of a deposit or withdrawal method: JSON's false, null or true, or an amount.
DecodeLimit(json, zero) ==
  CASE json \in {"false", "null"} -> [HasLimit |-> FALSE, Amount |-> zero]
    [] json = "true"              -> [HasLimit |-> TRUE, Amount |-> zero]
    [] OTHER                      -> [HasLimit |-> TRUE, Amount |-> json]

EncodeLimit(m, zero) ==
  IF ~m.HasLimit THEN "false"
  ELSE IF m.Amount = zero THEN "true" ELSE m.Amount
=============================================================================
