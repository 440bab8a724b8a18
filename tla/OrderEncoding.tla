--------------------------- MODULE OrderEncoding ---------------------------
(***************************************************************************)
(* How orders travel (trade.go, ws_trade.go): a Go struct becomes a map of *)
(* parameters that leaves zero values out, and a batch one map for all of  *)
(* its legs (REST) or a list of maps (WebSocket).  The exchange reads a    *)
(* parameter that is absent as not given.                                  *)
(***************************************************************************)
EXTENDS Naturals, Sequences, Functions

CONSTANTS
  Given,          \* what a field may say
  Zero            \* the zero value of its type: "", 0, false, nil

ASSUME GivenAssumption == Zero \notin Given

\* A struct: the fields always written and the others, each with its parameter.
Shape(required, optional) ==
  [required |-> required,
   keys |-> [f \in DOMAIN required \cup DOMAIN optional |->
               IF f \in DOMAIN required THEN required[f] ELSE optional[f]]]

Fields(shape) == DOMAIN shape.keys
Structs(shape) == [Fields(shape) -> Given \cup {Zero}]

\* toParams: the fields in the order of the struct; none shares its parameter with another.
Params(shape, o) ==
  LET written == DOMAIN shape.required \cup {f \in Fields(shape) : o[f] # Zero}
  IN  [k \in {shape.keys[f] : f \in written} |-> o[CHOOSE f \in written : shape.keys[f] = k]]

\* What the exchange makes of the parameters.
Read(shape, p) ==
  [f \in Fields(shape) |->
     IF shape.keys[f] \in DOMAIN p THEN p[shape.keys[f]] ELSE Zero]

---------------------------------------------------------------------------
\* Over REST.

BatchOrder == Shape(
  [OrderType |-> "ordertype", Side |-> "type", Volume |-> "volume"],
  [Price |-> "price", Price2 |-> "price2", OrderFlags |-> "oflags",
   TimeInForce |-> "timeinforce", Trigger |-> "trigger", STPType |-> "stptype",
   ReduceOnly |-> "reduce_only", DisplayVolume |-> "displayvol", UserRef |-> "userref",
   ClientOrderID |-> "cl_ord_id", StartTime |-> "starttm", ExpireTime |-> "expiretm"])

\* Mutation: every leg is written at the first index.
BatchParams_oneIndex(orders) ==
  [ik \in UNION {{0} \X DOMAIN Params(BatchOrder, orders[i]) : i \in DOMAIN orders} |->
     LET n == CHOOSE i \in DOMAIN orders :
                /\ ik[2] \in DOMAIN Params(BatchOrder, orders[i])
                /\ \A j \in DOMAIN orders : ik[2] \in DOMAIN Params(BatchOrder, orders[j]) => j <= i
     IN  Params(BatchOrder, orders[n])[ik[2]]]

\* orders[i][key], in the one map AddOrderBatchService.Do sends.
BatchParams(orders) ==
  [ik \in UNION {{i - 1} \X DOMAIN Params(BatchOrder, orders[i]) : i \in DOMAIN orders} |->
     Params(BatchOrder, orders[ik[1] + 1])[ik[2]]]

\* The exchange reads the legs from index 0 on, as far as there are any.
ReadBatch(p, n) ==
  [i \in 1 .. n |->
     Read(BatchOrder, [k \in {ik[2] : ik \in {x \in DOMAIN p : x[1] = i - 1}} |-> p[<<i - 1, k>>]])]

\* orders[i], in the one map CancelOrderBatchService.Do sends.
BatchIds(ids) == [ik \in {<<i - 1, "">> : i \in DOMAIN ids} |-> ids[ik[1] + 1]]

---------------------------------------------------------------------------
\* Over the trading connection.

WsAddOrder == Shape(
  [Symbol |-> "symbol", Side |-> "side", OrderType |-> "order_type", OrderQty |-> "order_qty"],
  [LimitPrice |-> "limit_price", TimeInForce |-> "time_in_force", PostOnly |-> "post_only",
   ReduceOnly |-> "reduce_only", Margin |-> "margin", Validate |-> "validate",
   DisplayQty |-> "display_qty", ClientOrderID |-> "cl_ord_id",
   OrderUserRef |-> "order_userref", FeePreference |-> "fee_preference", StpType |-> "stp_type"])

\* PostOnly is a pointer: false is not its zero value, nil is.
WsAmendOrder == Shape(<<>>,
  [OrderID |-> "order_id", ClientOrderID |-> "cl_ord_id", OrderQty |-> "order_qty",
   DisplayQty |-> "display_qty", LimitPrice |-> "limit_price", TriggerPrice |-> "trigger_price",
   PostOnly |-> "post_only"])

WsEditOrder == Shape([OrderID |-> "order_id", Symbol |-> "symbol"],
  [OrderQty |-> "order_qty", LimitPrice |-> "limit_price", DisplayQty |-> "display_qty",
   OrderUserRef |-> "order_userref", PostOnly |-> "post_only"])

\* A leg keeps no symbol: the batch's counts for all of them.
BatchAdd(symbol, orders) ==
  [symbol |-> symbol,
   orders |-> [i \in DOMAIN orders |->
                 LET p == Params(WsAddOrder, orders[i]) IN Restrict(p, DOMAIN p \ {"symbol"})]]

ReadBatchAdd(p) ==
  [i \in DOMAIN p.orders |->
     [Read(WsAddOrder, p.orders[i]) EXCEPT !.Symbol = p.symbol]]
=============================================================================
