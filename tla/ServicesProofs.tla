--------------------------- MODULE ServicesProofs ---------------------------
(***************************************************************************)
(* Proofs about the parts of the SDK one goroutine runs by itself.         *)
(* Services, for any catalog, any arguments and any number of calls: a     *)
(* request says what was said last, a batch carries its legs, and a Do     *)
(* that is repeated repeats itself.  ClientOptions, for any number of      *)
(* clients and options: a client goes where it is told.  Algorithms, for   *)
(* inputs of any length: what is checked is documented, what is written    *)
(* reads back.                                                             *)
(***************************************************************************)
EXTENDS Services, Algorithms, ClientOptions, UnixTimeProofs, TLAPS

\* A shape whose fields have a parameter each.
Apart(shape) ==
  /\ DOMAIN shape.required \subseteq Fields(shape)
  /\ \A f, g \in Fields(shape) : shape.keys[f] = shape.keys[g] => f = g

LEMMA ReadParams ==
  ASSUME NEW shape, Apart(shape), NEW o \in Structs(shape)
  PROVE  Read(shape, Params(shape, o)) = o
<1> DEFINE written == DOMAIN shape.required \cup {f \in Fields(shape) : o[f] # Zero}
<1> DEFINE p == Params(shape, o)
<1>1. written \subseteq Fields(shape)
  BY DEF Apart
<1>2. /\ DOMAIN p = {shape.keys[f] : f \in written}
      /\ \A k \in DOMAIN p : p[k] = o[CHOOSE f \in written : shape.keys[f] = k]
  BY DEF Params
<1>3. \A f \in written : p[shape.keys[f]] = o[f]
  <2> TAKE f \in written
  <2>1. \A g \in written : shape.keys[g] = shape.keys[f] => g = f
    BY <1>1 DEF Apart
  <2> QED
    BY <1>2, <2>1
<1>4. \A f \in Fields(shape) : shape.keys[f] \in DOMAIN p => f \in written
  BY <1>1, <1>2 DEF Apart
<1>5. ASSUME NEW f \in Fields(shape)
      PROVE  (IF shape.keys[f] \in DOMAIN p THEN p[shape.keys[f]] ELSE Zero) = o[f]
  <2>1. CASE f \in written
    BY <2>1, <1>2, <1>3
  <2>2. CASE f \notin written
    BY <2>2, <1>4
  <2> QED
    BY <2>1, <2>2
<1>6. o = [f \in Fields(shape) |-> o[f]]
  BY DEF Structs
<1> HIDE DEF p
<1>7. [f \in Fields(shape) |-> IF shape.keys[f] \in DOMAIN p THEN p[shape.keys[f]] ELSE Zero]
        = [f \in Fields(shape) |-> o[f]]
  BY <1>5
<1> QED
  BY <1>6, <1>7 DEF Read, p

LEMMA BatchOrderApart == Apart(BatchOrder)
<1> DEFINE req == [OrderType |-> "ordertype", Side |-> "type", Volume |-> "volume"]
<1> DEFINE opt ==
      [Price |-> "price", Price2 |-> "price2", OrderFlags |-> "oflags",
       TimeInForce |-> "timeinforce", Trigger |-> "trigger", STPType |-> "stptype",
       ReduceOnly |-> "reduce_only", DisplayVolume |-> "displayvol", UserRef |-> "userref",
       ClientOrderID |-> "cl_ord_id", StartTime |-> "starttm", ExpireTime |-> "expiretm"]
<1>1. /\ DOMAIN BatchOrder.required = DOMAIN req
      /\ DOMAIN BatchOrder.keys = DOMAIN req \cup DOMAIN opt
      /\ \A f \in DOMAIN BatchOrder.keys :
           BatchOrder.keys[f] = IF f \in DOMAIN req THEN req[f] ELSE opt[f]
  BY DEF BatchOrder, Shape
<1>2. \A f \in DOMAIN req, g \in DOMAIN opt : req[f] # opt[g]
  OBVIOUS
<1>3. \A f, g \in DOMAIN req : req[f] = req[g] => f = g
  OBVIOUS
<1>4. \A f, g \in DOMAIN opt : opt[f] = opt[g] => f = g
  OBVIOUS
<1> HIDE DEF req, opt
<1> QED
  BY <1>1, <1>2, <1>3, <1>4 DEF Apart, Fields

\* The same of the orders of the trading connection.
LEMMA WsOrdersApart == Apart(WsAddOrder) /\ Apart(WsAmendOrder) /\ Apart(WsEditOrder)
<1>1. Apart(WsAddOrder)
  <2> DEFINE req == [Symbol |-> "symbol", Side |-> "side", OrderType |-> "order_type",
                     OrderQty |-> "order_qty"]
             opt ==
        [LimitPrice |-> "limit_price", TimeInForce |-> "time_in_force", PostOnly |-> "post_only",
         ReduceOnly |-> "reduce_only", Margin |-> "margin", Validate |-> "validate",
         DisplayQty |-> "display_qty", ClientOrderID |-> "cl_ord_id",
         OrderUserRef |-> "order_userref", FeePreference |-> "fee_preference",
         StpType |-> "stp_type"]
  <2>1. /\ DOMAIN WsAddOrder.required = DOMAIN req
        /\ DOMAIN WsAddOrder.keys = DOMAIN req \cup DOMAIN opt
        /\ \A f \in DOMAIN WsAddOrder.keys :
             WsAddOrder.keys[f] = IF f \in DOMAIN req THEN req[f] ELSE opt[f]
    BY DEF WsAddOrder, Shape
  <2>2. \A f \in DOMAIN req, g \in DOMAIN opt : req[f] # opt[g]
    OBVIOUS
  <2>3. \A f, g \in DOMAIN req : req[f] = req[g] => f = g
    OBVIOUS
  <2>4. \A f, g \in DOMAIN opt : opt[f] = opt[g] => f = g
    OBVIOUS
  <2> HIDE DEF req, opt
  <2> QED
    BY <2>1, <2>2, <2>3, <2>4 DEF Apart, Fields
<1>2. Apart(WsAmendOrder)
  <2> DEFINE opt ==
        [OrderID |-> "order_id", ClientOrderID |-> "cl_ord_id", OrderQty |-> "order_qty",
         DisplayQty |-> "display_qty", LimitPrice |-> "limit_price",
         TriggerPrice |-> "trigger_price", PostOnly |-> "post_only"]
  <2>1. /\ DOMAIN WsAmendOrder.required = {} /\ DOMAIN WsAmendOrder.keys = DOMAIN opt
        /\ \A f \in DOMAIN WsAmendOrder.keys : WsAmendOrder.keys[f] = opt[f]
    BY DEF WsAmendOrder, Shape
  <2>2. \A f, g \in DOMAIN opt : opt[f] = opt[g] => f = g
    OBVIOUS
  <2> HIDE DEF opt
  <2> QED
    BY <2>1, <2>2 DEF Apart, Fields
<1>3. Apart(WsEditOrder)
  <2> DEFINE req == [OrderID |-> "order_id", Symbol |-> "symbol"]
             opt ==
        [OrderQty |-> "order_qty", LimitPrice |-> "limit_price", DisplayQty |-> "display_qty",
         OrderUserRef |-> "order_userref", PostOnly |-> "post_only"]
  <2>1. /\ DOMAIN WsEditOrder.required = DOMAIN req
        /\ DOMAIN WsEditOrder.keys = DOMAIN req \cup DOMAIN opt
        /\ \A f \in DOMAIN WsEditOrder.keys :
             WsEditOrder.keys[f] = IF f \in DOMAIN req THEN req[f] ELSE opt[f]
    BY DEF WsEditOrder, Shape
  <2>2. \A f, g \in DOMAIN req \cup DOMAIN opt :
          (IF f \in DOMAIN req THEN req[f] ELSE opt[f])
            = (IF g \in DOMAIN req THEN req[g] ELSE opt[g]) => f = g
    OBVIOUS
  <2> HIDE DEF req, opt
  <2> QED
    BY <2>1, <2>2 DEF Apart, Fields
<1> QED
  BY <1>1, <1>2, <1>3

\* A batch's map gives each leg back.
LEMMA ReadBatchParams ==
  ASSUME NEW orders \in Seq(Structs(BatchOrder))
  PROVE  ReadBatch(BatchParams(orders), Len(orders)) = orders
<1> DEFINE P(i) == Params(BatchOrder, orders[i])
           B == BatchParams(orders)
           leg(i) == [k \in {ik[2] : ik \in {x \in DOMAIN B : x[1] = i - 1}} |-> B[<<i - 1, k>>]]
<1>1. DOMAIN B = UNION {{i - 1} \X DOMAIN P(i) : i \in DOMAIN orders}
  BY DEF BatchParams
<1>2. \A ik \in DOMAIN B : B[ik] = P(ik[1] + 1)[ik[2]]
  BY DEF BatchParams
<1>3. ASSUME NEW i \in DOMAIN orders
      PROVE  leg(i) = P(i)
  <2>1. i \in Nat
    OBVIOUS
  <2> HIDE DEF B, P
  <2>2. \A k \in DOMAIN P(i) : <<i - 1, k>> \in DOMAIN B
    BY <1>1
  <2>3. \A x \in DOMAIN B : x[1] = i - 1 => x[2] \in DOMAIN P(i)
    <3> TAKE x \in DOMAIN B
    <3> HAVE x[1] = i - 1
    <3>1. PICK j \in DOMAIN orders : x \in {j - 1} \X DOMAIN P(j)
      BY <1>1
    <3>2. j = i
      BY <2>1, <3>1
    <3> QED
      BY <3>1, <3>2
  <2> DEFINE D == DOMAIN B
             K == {ik[2] : ik \in {x \in D : x[1] = i - 1}}
  <2> HIDE DEF D
  <2>4. K = DOMAIN P(i)
    <3>1. ASSUME NEW k \in DOMAIN P(i)
          PROVE  k \in K
      <4>1. <<i - 1, k>> \in {x \in D : x[1] = i - 1}
        BY <2>2 DEF D
      <4>2. <<i - 1, k>>[2] = k
        OBVIOUS
      <4> QED
        BY <4>1, <4>2
    <3>2. ASSUME NEW k \in K
          PROVE  k \in DOMAIN P(i)
      BY <2>3 DEF D
    <3> QED
      BY <3>1, <3>2
  <2>5. \A k \in DOMAIN P(i) : B[<<i - 1, k>>] = P(i)[k]
    <3> TAKE k \in DOMAIN P(i)
    <3>1. B[<<i - 1, k>>] = P((i - 1) + 1)[k]
      BY <1>2, <2>2
    <3>2. (i - 1) + 1 = i
      BY <2>1
    <3> QED
      BY <3>1, <3>2
  <2>6. P(i) = [k \in DOMAIN P(i) |-> P(i)[k]]
    BY DEF P, Params
  <2> HIDE DEF K, leg
  <2>7. leg(i) = [k \in K |-> B[<<i - 1, k>>]]
    BY DEF D, K, leg
  <2>8. [k \in K |-> B[<<i - 1, k>>]] = [k \in DOMAIN P(i) |-> P(i)[k]]
    BY <2>4, <2>5
  <2> QED
    BY <2>6, <2>7, <2>8
<1> HIDE DEF B, P, leg
<1>4. ASSUME NEW i \in 1 .. Len(orders)
      PROVE  Read(BatchOrder, leg(i)) = orders[i]
  <2>1. orders[i] \in Structs(BatchOrder)
    OBVIOUS
  <2>2. leg(i) = P(i)
    BY <1>3
  <2> QED
    BY <2>1, <2>2, ReadParams, BatchOrderApart DEF P
<1>5. ReadBatch(B, Len(orders)) = [i \in 1 .. Len(orders) |-> Read(BatchOrder, leg(i))]
  BY DEF ReadBatch, leg
<1>6. orders = [i \in 1 .. Len(orders) |-> orders[i]]
  OBVIOUS
<1> QED
  BY <1>4, <1>5, <1>6 DEF B

\* An order, an amendment or an edit is read as what the program gave, and a batch's legs with the
\* symbol of the batch in place of their own, for any orders and any number of legs (ws_trade.go,
\* lines 56-188, 203-232).
THEOREM WsOrdersReadBack ==
  /\ \A o \in Structs(WsAddOrder) : Read(WsAddOrder, Params(WsAddOrder, o)) = o
  /\ \A o \in Structs(WsAmendOrder) : Read(WsAmendOrder, Params(WsAmendOrder, o)) = o
  /\ \A o \in Structs(WsEditOrder) : Read(WsEditOrder, Params(WsEditOrder, o)) = o
  /\ \A orders \in Seq(Structs(WsAddOrder)) : \A symbol :
       ReadBatchAdd(BatchAdd(symbol, orders)) =
         [i \in DOMAIN orders |-> [orders[i] EXCEPT !.Symbol = symbol]]
<1>1. \A o \in Structs(WsAddOrder) : Read(WsAddOrder, Params(WsAddOrder, o)) = o
  BY ReadParams, WsOrdersApart
<1>2. \A o \in Structs(WsAmendOrder) : Read(WsAmendOrder, Params(WsAmendOrder, o)) = o
  BY ReadParams, WsOrdersApart
<1>3. \A o \in Structs(WsEditOrder) : Read(WsEditOrder, Params(WsEditOrder, o)) = o
  BY ReadParams, WsOrdersApart
<1>4. ASSUME NEW symbol, NEW orders \in Seq(Structs(WsAddOrder))
      PROVE  ReadBatchAdd(BatchAdd(symbol, orders)) =
               [i \in DOMAIN orders |-> [orders[i] EXCEPT !.Symbol = symbol]]
  <2> DEFINE p(i) == Params(WsAddOrder, orders[i])
             leg(i) == Restrict(p(i), DOMAIN p(i) \ {"symbol"})
  <2>1. ReadBatchAdd(BatchAdd(symbol, orders)) =
          [i \in DOMAIN orders |-> [Read(WsAddOrder, leg(i)) EXCEPT !.Symbol = symbol]]
    BY DEF ReadBatchAdd, BatchAdd
  <2>2. ASSUME NEW i \in DOMAIN orders
        PROVE  [Read(WsAddOrder, leg(i)) EXCEPT !.Symbol = symbol]
                 = [orders[i] EXCEPT !.Symbol = symbol]
    <3>1. orders[i] \in Structs(WsAddOrder) /\ Read(WsAddOrder, p(i)) = orders[i]
      BY <1>1
    <3>2. "Symbol" \in Fields(WsAddOrder) /\ WsAddOrder.keys["Symbol"] = "symbol"
      BY DEF WsAddOrder, Shape, Fields
    <3>3. \A f \in Fields(WsAddOrder) : f # "Symbol" => WsAddOrder.keys[f] # "symbol"
      BY <3>2, WsOrdersApart DEF Apart
    <3> HIDE DEF p
    <3>4. /\ DOMAIN leg(i) = DOMAIN p(i) \ {"symbol"}
          /\ \A k \in DOMAIN leg(i) : leg(i)[k] = p(i)[k]
      BY DEF Restrict
    <3> HIDE DEF leg
    <3>5. /\ DOMAIN Read(WsAddOrder, leg(i)) = Fields(WsAddOrder)
          /\ DOMAIN Read(WsAddOrder, p(i)) = Fields(WsAddOrder)
      BY DEF Read
    <3>6. \A f \in Fields(WsAddOrder) :
            f # "Symbol" => Read(WsAddOrder, leg(i))[f] = Read(WsAddOrder, p(i))[f]
      BY <3>3, <3>4 DEF Read
    <3> HIDE DEF Read
    <3>7. [Read(WsAddOrder, leg(i)) EXCEPT !.Symbol = symbol]
            = [f \in Fields(WsAddOrder) |-> IF f = "Symbol" THEN symbol
                                            ELSE Read(WsAddOrder, leg(i))[f]]
      BY <3>5
    <3>8. [Read(WsAddOrder, p(i)) EXCEPT !.Symbol = symbol]
            = [f \in Fields(WsAddOrder) |-> IF f = "Symbol" THEN symbol
                                            ELSE Read(WsAddOrder, p(i))[f]]
      BY <3>5
    <3> QED
      BY <3>1, <3>6, <3>7, <3>8
  <2> HIDE DEF leg
  <2> QED
    BY <2>1, <2>2
<1> QED
  BY <1>1, <1>2, <1>3, <1>4

---------------------------------------------------------------------------
\* The inductive invariant.

\* What was said last, of a service, what its constructor and what its setters were told.
LastOf(e, m, s, k) ==
  IF \E n \in Setters(e) : Key(e, n) = k /\ s[n] # Unset
  THEN s[CHOOSE n \in Setters(e) : Key(e, n) = k /\ s[n] # Unset]
  ELSE IF k \in GivenKeys(e) THEN m[k] ELSE Unset

\* The map holds what was said last, but where an operation left something behind.
Said == \A k \in Keys(endpoint) \ left : params[k] = LastOf(endpoint, made, said, k)

\* While nothing more is said the last request is the next one.
Steady == wire # NoRequest /\ wire.calls = calls => wire = Request(params)

IInv == TypeOK /\ Said /\ Steady

LEMMA LastOfSetter ==
  ASSUME NEW e, KeysApart(e), NEW m, NEW s, NEW n \in Setters(e)
  PROVE  LastOf(e, m, s, Key(e, n)) =
           IF s[n] # Unset THEN s[n]
           ELSE IF Key(e, n) \in GivenKeys(e) THEN m[Key(e, n)] ELSE Unset
<1>1. \A i \in Setters(e) : Key(e, i) = Key(e, n) => i = n
  BY DEF KeysApart
<1> QED
  BY <1>1 DEF LastOf

LEMMA LastOfOther ==
  ASSUME NEW e, NEW m, NEW s, NEW k, \A n \in Setters(e) : Key(e, n) # k
  PROVE  LastOf(e, m, s, k) = IF k \in GivenKeys(e) THEN m[k] ELSE Unset
BY DEF LastOf

LEMMA Arguments ==
  ASSUME TypeOK, NEW n \in Setters(endpoint)
  PROVE  /\ Key(endpoint, n) \in Keys(endpoint)
         /\ ArgValues(endpoint.setters[n]) \subseteq Given \cup {Empty}
<1>1. Key(endpoint, n) \in Keys(endpoint)
  BY DEF Keys
<1>2. endpoint.setters[n].kind \in {"text", "value", "fixed"}
  BY CatalogAssumption DEF TypeOK
<1>3. ArgValues(endpoint.setters[n]) \subseteq Given \cup {Empty}
  BY <1>2, MarkersAssumption DEF ArgValues
<1> QED
  BY <1>1, <1>3

LEMMA RequestTyped ==
  ASSUME TypeOK, NEW p
  PROVE  DOMAIN Request(p).params \subseteq Keys(endpoint) /\ Request(p).calls = calls
BY DEF Request, Sent

---------------------------------------------------------------------------

LEMMA InitIInv == Init => IInv
<1> SUFFICES ASSUME Init PROVE IInv
  OBVIOUS
<1>1. endpoint \in Catalog /\ left = {} /\ calls = 0 /\ wire = NoRequest
  BY DEF Init
<1>2. made \in [GivenKeys(endpoint) -> Values]
  BY MarkersAssumption DEF Init, Values
<1>3. params \in [Keys(endpoint) -> Values]
  BY <1>2 DEF Init, Values
<1>4. said \in [Setters(endpoint) -> Values]
  BY DEF Init, Values
<1>5. legs \in Seq(LegsOf(endpoint))
  <2>1. CASE endpoint.extra = "ids"
    <3>1. PICK n \in 0 .. MaxLegs : legs \in [1 .. n -> Given \cup {Empty}]
      BY <2>1 DEF Init
    <3>2. n \in Nat /\ LegsOf(endpoint) = Given \cup {Empty}
      BY <2>1, BoundsAssumption DEF LegsOf
    <3> QED
      BY <3>1, <3>2
  <2>2. CASE endpoint.extra # "ids"
    BY <2>2 DEF Init
  <2> QED
    BY <2>1, <2>2
<1>6. TypeOK
  BY <1>1, <1>2, <1>3, <1>4, <1>5, BoundsAssumption DEF TypeOK
<1>7. Said
  <2> SUFFICES ASSUME NEW k \in Keys(endpoint)
               PROVE  params[k] = LastOf(endpoint, made, said, k)
    BY DEF Said
  <2>1. \A n \in Setters(endpoint) : said[n] = Unset
    BY DEF Init
  <2> QED
    BY <2>1 DEF Init, LastOf
<1>8. Steady
  BY <1>1 DEF Steady
<1> QED
  BY <1>6, <1>7, <1>8 DEF IInv

LEMMA SetIInv ==
  ASSUME IInv, NEW n \in Setters(endpoint) \ Close, Set(n)
  PROVE  IInv'
<1> DEFINE key == Key(endpoint, n)
<1>1. PICK v \in ArgValues(endpoint.setters[n]) :
        /\ params' = [params EXCEPT ![key] = v]
        /\ said' = [said EXCEPT ![n] = v]
  BY DEF Set
<1>2. /\ calls < MaxCalls /\ calls' = calls + 1 /\ left' = left \ {key}
      /\ UNCHANGED <<endpoint, legs, wire, made>>
  BY DEF Set
<1>3. TypeOK /\ Said /\ key \in Keys(endpoint) /\ v \in Given \cup {Empty}
  BY Arguments DEF IInv
<1>4. v \in Values /\ v # Unset
  BY <1>3, MarkersAssumption DEF Values
<1>5. calls \in Nat /\ calls' \in 0 .. MaxCalls
  BY <1>2, <1>3, BoundsAssumption DEF TypeOK
<1>6. TypeOK'
  <2>1. params' \in [Keys(endpoint') -> Values] /\ said' \in [Setters(endpoint') -> Values]
    BY <1>1, <1>2, <1>3, <1>4 DEF TypeOK
  <2>2. left' \subseteq Keys(endpoint') \cap (CloseKeys \cup {"consolidation"})
    BY <1>2, <1>3 DEF TypeOK
  <2>3. wire' # NoRequest => /\ DOMAIN wire'.params \subseteq Keys(endpoint')
                            /\ wire'.calls \in 0 .. calls'
    BY <1>2, <1>3, <1>5 DEF TypeOK
  <2> QED
    BY <1>2, <1>3, <1>5, <2>1, <2>2, <2>3 DEF TypeOK
<1>7. Said'
  <2> SUFFICES ASSUME NEW k \in Keys(endpoint), k \notin left'
               PROVE  params'[k] = LastOf(endpoint, made, said', k)
    BY <1>2 DEF Said
  <2>a. KeysApart(endpoint)
    BY <1>3, CatalogAssumption DEF TypeOK
  <2>b. params \in [Keys(endpoint) -> Values] /\ said \in [Setters(endpoint) -> Values]
    BY <1>3 DEF TypeOK
  <2>1. CASE k = key
    <3>1. said'[n] = v /\ params'[k] = v
      BY <1>1, <1>3, <2>1, <2>b
    <3> QED
      BY <1>4, <2>1, <2>a, <3>1, LastOfSetter
  <2>2. CASE k # key
    <3>1. params'[k] = LastOf(endpoint, made, said, k)
      BY <1>1, <1>2, <1>3, <2>2, <2>b DEF Said
    <3>2. CASE \E i \in Setters(endpoint) : Key(endpoint, i) = k
      <4>1. PICK i \in Setters(endpoint) : Key(endpoint, i) = k
        BY <3>2
      <4>2. said'[i] = said[i]
        BY <1>1, <2>2, <2>b, <4>1
      <4> QED
        BY <2>a, <3>1, <4>1, <4>2, LastOfSetter
    <3>3. CASE \A i \in Setters(endpoint) : Key(endpoint, i) # k
      BY <3>1, <3>3, LastOfOther
    <3> QED
      BY <3>2, <3>3
  <2> QED
    BY <2>1, <2>2
<1>8. Steady'
  BY <1>2, <1>3, <1>5 DEF Steady, TypeOK
<1> QED
  BY <1>6, <1>7, <1>8 DEF IInv

LEMMA CloseIInv ==
  ASSUME IInv, SetCloseOrder
  PROVE  IInv'
<1>1. PICK type \in Given \cup {Empty}, price \in Given \cup {Unset},
           price2 \in Given \cup {Unset} :
        LET new == [CloseType |-> type, ClosePrice |-> price, ClosePrice2 |-> price2]
        IN  /\ said' = [n \in Setters(endpoint) |-> IF n \in Close THEN new[n] ELSE said[n]]
            /\ params' = [k \in Keys(endpoint) |->
                 IF \E n \in Close : Key(endpoint, n) = k /\ new[n] # Unset
                 THEN new[CHOOSE n \in Close : Key(endpoint, n) = k] ELSE params[k]]
            /\ left' = (left \ CloseKeys) \cup {k \in CloseKeys : \E n \in Close :
                 Key(endpoint, n) = k /\ new[n] = Unset /\ params[k] # Unset}
  BY DEF SetCloseOrder
<1> DEFINE new == [CloseType |-> type, ClosePrice |-> price, ClosePrice2 |-> price2]
<1>2. /\ endpoint.extra = "close" /\ calls < MaxCalls /\ calls' = calls + 1
      /\ UNCHANGED <<endpoint, legs, wire, made>>
  BY DEF SetCloseOrder
<1>3. TypeOK /\ Said /\ KeysApart(endpoint) /\ ClosesOrders(endpoint)
  BY <1>2, CatalogAssumption DEF IInv, TypeOK
<1>4. /\ DOMAIN new = Close
      /\ \A n \in Close : new[n] \in Values
      /\ new["CloseType"] # Unset
  BY MarkersAssumption DEF Close, Values
<1> HIDE DEF new
<1>5. /\ said' = [n \in Setters(endpoint) |-> IF n \in Close THEN new[n] ELSE said[n]]
      /\ params' = [k \in Keys(endpoint) |->
           IF \E n \in Close : Key(endpoint, n) = k /\ new[n] # Unset
           THEN new[CHOOSE n \in Close : Key(endpoint, n) = k] ELSE params[k]]
      /\ left' = (left \ CloseKeys) \cup {k \in CloseKeys : \E n \in Close :
           Key(endpoint, n) = k /\ new[n] = Unset /\ params[k] # Unset}
  BY <1>1 DEF new
<1>6. calls \in Nat /\ calls' \in 0 .. MaxCalls
  BY <1>2, <1>3, BoundsAssumption DEF TypeOK
<1>7. \A n \in Close : n \in Setters(endpoint) /\ Key(endpoint, n) \in Keys(endpoint)
  BY <1>3 DEF ClosesOrders, Keys
<1>8. CloseKeys \subseteq Keys(endpoint)
  BY <1>3, <1>7 DEF ClosesOrders, CloseKeys, Close
<1>9. TypeOK'
  <2>1. said' \in [Setters(endpoint') -> Values]
    BY <1>2, <1>3, <1>4, <1>5 DEF TypeOK
  <2>2. params' \in [Keys(endpoint') -> Values]
    BY <1>2, <1>3, <1>4, <1>5 DEF TypeOK
  <2>3. left' \subseteq Keys(endpoint') \cap (CloseKeys \cup {"consolidation"})
    BY <1>2, <1>3, <1>5, <1>8 DEF TypeOK
  <2>4. wire' # NoRequest => /\ DOMAIN wire'.params \subseteq Keys(endpoint')
                            /\ wire'.calls \in 0 .. calls'
    BY <1>2, <1>3, <1>6 DEF TypeOK
  <2> QED
    BY <1>2, <1>3, <1>6, <2>1, <2>2, <2>3, <2>4 DEF TypeOK
<1>10. Said'
  <2> SUFFICES ASSUME NEW k \in Keys(endpoint), k \notin left'
               PROVE  params'[k] = LastOf(endpoint, made, said', k)
    BY <1>2 DEF Said
  <2>1. CASE \E n \in Close : Key(endpoint, n) = k
    <3>1. PICK n \in Close : Key(endpoint, n) = k
      BY <2>1
    <3>2. \A i \in Close : Key(endpoint, i) = k => i = n
      BY <1>3, <1>7, <3>1 DEF KeysApart
    <3>3. said'[n] = new[n] /\ k \notin GivenKeys(endpoint)
      BY <1>3, <1>5, <1>7, <3>1 DEF ClosesOrders
    <3>4. LastOf(endpoint, made, said', k) = new[n]
      BY <1>3, <1>7, <3>1, <3>3, LastOfSetter
    <3>5. CASE new[n] # Unset
      BY <1>5, <3>1, <3>2, <3>4, <3>5
    <3>6. CASE new[n] = Unset
      <4>1. n \in {"ClosePrice", "ClosePrice2"}
        BY <1>4, <3>6 DEF Close
      <4>2. k \in CloseKeys
        BY <1>3, <3>1, <4>1 DEF ClosesOrders, CloseKeys
      <4>3. params[k] = Unset
        BY <1>5, <3>1, <3>6, <4>2
      <4>4. params'[k] = params[k]
        BY <1>5, <3>2, <3>6
      <4> QED
        BY <3>4, <3>6, <4>3, <4>4
    <3> QED
      BY <3>5, <3>6
  <2>2. CASE \A n \in Close : Key(endpoint, n) # k
    <3>1. k \notin CloseKeys
      BY <1>3, <2>2 DEF ClosesOrders, CloseKeys, Close
    <3>2. params'[k] = LastOf(endpoint, made, said, k)
      BY <1>3, <1>5, <2>2, <3>1 DEF Said
    <3>3. CASE \E i \in Setters(endpoint) : Key(endpoint, i) = k
      <4>1. PICK i \in Setters(endpoint) : Key(endpoint, i) = k
        BY <3>3
      <4>2. said'[i] = said[i]
        BY <1>5, <2>2, <4>1
      <4> QED
        BY <1>3, <3>2, <4>1, <4>2, LastOfSetter
    <3>4. CASE \A i \in Setters(endpoint) : Key(endpoint, i) # k
      BY <3>2, <3>4, LastOfOther
    <3> QED
      BY <3>3, <3>4
  <2> QED
    BY <2>1, <2>2
<1>11. Steady'
  BY <1>2, <1>3, <1>6 DEF Steady, TypeOK
<1> QED
  BY <1>9, <1>10, <1>11 DEF IInv

LEMMA AddLegIInv ==
  ASSUME IInv, AddLeg
  PROVE  IInv'
<1>1. /\ calls < MaxCalls /\ calls' = calls + 1 /\ endpoint.extra = "orders"
      /\ UNCHANGED <<endpoint, params, wire, made, said, left>>
  BY DEF AddLeg
<1>2. PICK o \in Legs : legs' = Append(legs, o)
  BY DEF AddLeg
<1>3. TypeOK /\ calls \in Nat /\ calls' \in 0 .. MaxCalls
  BY <1>1, BoundsAssumption DEF IInv, TypeOK
<1>4. legs' \in Seq(LegsOf(endpoint'))
  BY <1>1, <1>2, <1>3 DEF TypeOK, LegsOf
<1>5. TypeOK'
  BY <1>1, <1>3, <1>4 DEF TypeOK
<1>6. Said' /\ Steady'
  BY <1>1, <1>3 DEF IInv, Said, Steady, TypeOK
<1> QED
  BY <1>5, <1>6 DEF IInv

LEMMA DoIInv ==
  ASSUME IInv, Do
  PROVE  IInv'
<1>1. wire' = Request(params) /\ UNCHANGED <<endpoint, params, legs, made, said, left, calls>>
  BY DEF Do
<1>2. TypeOK /\ calls \in Nat
  BY DEF IInv, TypeOK
<1>3. TypeOK'
  BY <1>1, <1>2, RequestTyped DEF TypeOK
<1>4. Request(params)' = Request(params)
  BY <1>1 DEF Request, Sent, SentLegs, Dropped
<1>5. Said' /\ Steady'
  BY <1>1, <1>4 DEF IInv, Said, Steady
<1> QED
  BY <1>3, <1>5 DEF IInv

LEMMA DoConsolidatedIInv ==
  ASSUME IInv, DoConsolidated
  PROVE  IInv'
<1>1. /\ endpoint.extra = "consolidated"
      /\ params' = [params EXCEPT !["consolidation"] = Default]
      /\ left' = left \cup {"consolidation"} /\ wire' = Request(params')
      /\ UNCHANGED <<endpoint, legs, made, said, calls>>
  BY DEF DoConsolidated
<1>2. TypeOK /\ calls \in Nat /\ "consolidation" \in Keys(endpoint)
  <2>1. TypeOK /\ calls \in Nat /\ endpoint \in Catalog
    BY DEF IInv, TypeOK
  <2>2. endpoint.extra = "consolidated" => "consolidation" \in Keys(endpoint)
    BY <2>1, CatalogAssumption
  <2> QED
    BY <1>1, <2>1, <2>2
<1>3. TypeOK'
  <2>1. params' \in [Keys(endpoint') -> Values]
    BY <1>1, <1>2, MarkersAssumption DEF TypeOK, Values
  <2>2. DOMAIN wire'.params \subseteq Keys(endpoint') /\ wire'.calls \in 0 .. calls'
    BY <1>1, <1>2, RequestTyped
  <2> QED
    BY <1>1, <1>2, <2>1, <2>2 DEF TypeOK
<1>4. Said'
  BY <1>1, <1>2 DEF IInv, Said, TypeOK
<1>5. Steady'
  <2>1. Request(params)' = Request(params')
    BY <1>1 DEF Request, Sent, SentLegs, Dropped
  <2> QED
    BY <1>1, <2>1 DEF Steady
<1> QED
  BY <1>3, <1>4, <1>5 DEF IInv

LEMMA StutterIInv ==
  ASSUME IInv, UNCHANGED vars
  PROVE  IInv'
<1>1. Request(params)' = Request(params)
  BY DEF vars, Request, Sent, SentLegs, Dropped
<1>2. TypeOK' /\ Said' /\ Steady'
  BY <1>1 DEF IInv, TypeOK, Said, Steady, vars
<1> QED
  BY <1>2 DEF IInv

\* The invariant is inductive.
THEOREM Invariance == Spec => []IInv
<1>1. IInv /\ [Next]_vars => IInv'
  BY SetIInv, CloseIInv, AddLegIInv, DoIInv, DoConsolidatedIInv, StutterIInv DEF Next
<1> QED
  BY InitIInv, <1>1, PTL DEF Spec

\* The service, its map and its last request have their types.
THEOREM TypeCorrect == Spec => []TypeOK
<1>1. IInv => TypeOK
  BY DEF IInv
<1> QED
  BY Invariance, <1>1, PTL

---------------------------------------------------------------------------
\* What the requests say.

\* Only the two ways to Do send a request.
LEMMA Sends ==
  ASSUME Next, wire' # wire
  PROVE  /\ wire' = Request(params') /\ UNCHANGED <<endpoint, legs, made, said>>
         /\ \/ UNCHANGED <<params, left>>
            \/ /\ params' = [params EXCEPT !["consolidation"] = Default]
               /\ left' = left \cup {"consolidation"}
<1>1. Do \/ DoConsolidated
  BY DEF Next, Set, SetCloseOrder, AddLeg
<1> QED
  BY <1>1 DEF Do, DoConsolidated

\* A request over HTTP or WebSocket says of each parameter what the program said of it last, for
\* any service whose setters write different parameters (account.go, trade.go and the others).
THEOREM RequestsSay == Spec => SaysWhatWasSaid
<1>1. ASSUME IInv, Next, wire' # wire, NEW k \in Keys(endpoint) \ left'
      PROVE  IF Dropped(LastSaid(k)) THEN k \notin DOMAIN wire'.params
             ELSE k \in DOMAIN wire'.params /\ wire'.params[k] = LastSaid(k)
  <2>1. params \in [Keys(endpoint) -> Values] /\ Said
    BY <1>1 DEF IInv, TypeOK
  <2>2. k \notin left /\ params'[k] = params[k]
    BY <1>1, <2>1, Sends
  <2>3. LastSaid(k) = LastOf(endpoint, made, said, k)
    BY DEF LastSaid, LastOf
  <2>4. params'[k] = LastSaid(k)
    BY <2>1, <2>2, <2>3 DEF Said
  <2>5. wire'.params = Sent(params')
    BY <1>1, Sends DEF Request
  <2> QED
    BY <2>4, <2>5 DEF Sent
<1>2. IInv /\ [Next]_vars =>
        [wire' # wire =>
           \A k \in Keys(endpoint) \ left' :
             IF Dropped(LastSaid(k)) THEN k \notin DOMAIN wire'.params
             ELSE k \in DOMAIN wire'.params /\ wire'.params[k] = LastSaid(k)]_vars
  BY <1>1 DEF vars
<1> QED
  BY Invariance, <1>2, PTL DEF Spec, SaysWhatWasSaid

\* A batch of orders carries each leg with its own parameters, in order, and a batch of ids each
\* id at its place, for any number of legs (trade.go, lines 258-270, 548-554).
THEOREM LegsCarried == Spec => CarriesItsLegs
<1>1. ASSUME IInv, Next, wire' # wire
      PROVE  CASE endpoint.extra = "orders" -> ReadBatch(wire'.legs, Len(legs)) = legs
               [] endpoint.extra = "ids" ->
                    \A i \in DOMAIN legs :
                      IF legs[i] = Empty THEN <<i - 1, "">> \notin DOMAIN wire'.legs
                      ELSE wire'.legs[<<i - 1, "">>] = legs[i]
               [] OTHER -> wire'.legs = <<>>
  <2>1. wire'.legs = SentLegs
    BY <1>1, Sends DEF Request, SentLegs
  <2>2. legs \in Seq(LegsOf(endpoint)) /\ endpoint \in Catalog
    BY <1>1 DEF IInv, TypeOK
  <2>3. CASE endpoint.extra = "orders"
    <3>1. legs \in Seq(Structs(BatchOrder))
      BY <2>2, <2>3, LegsAssumption DEF LegsOf
    <3> QED
      BY <2>1, <2>3, <3>1, ReadBatchParams DEF SentLegs
  <2>4. CASE endpoint.extra = "ids"
    <3>1. endpoint.area # "channel" /\ legs \in Seq(Given \cup {Empty})
      BY <2>2, <2>4, CatalogAssumption DEF LegsOf
    <3>2. wire'.legs = [ik \in {x \in DOMAIN BatchIds(legs) : ~Dropped(BatchIds(legs)[x])} |->
                          BatchIds(legs)[ik]]
      BY <2>1, <2>4 DEF SentLegs, Restrict
    <3>3. ASSUME NEW i \in DOMAIN legs
          PROVE  /\ <<i - 1, "">> \in DOMAIN BatchIds(legs)
                 /\ BatchIds(legs)[<<i - 1, "">>] = legs[i]
      <4>1. i \in Nat /\ (i - 1) + 1 = i
        BY <3>1
      <4>2. /\ <<i - 1, "">> \in DOMAIN BatchIds(legs)
            /\ BatchIds(legs)[<<i - 1, "">>] = legs[(i - 1) + 1]
        BY DEF BatchIds
      <4> QED
        BY <4>1, <4>2
    <3>4. ASSUME NEW i \in DOMAIN legs
          PROVE  Dropped(legs[i]) <=> legs[i] = Empty
      BY <3>1, MarkersAssumption DEF Dropped
    <3> QED
      BY <2>4, <3>2, <3>3, <3>4
  <2>5. CASE endpoint.extra \notin {"orders", "ids"}
    BY <2>1, <2>5 DEF SentLegs
  <2> QED
    BY <2>3, <2>4, <2>5
<1>2. IInv /\ [Next]_vars =>
        [wire' # wire =>
           CASE endpoint.extra = "orders" -> ReadBatch(wire'.legs, Len(legs)) = legs
             [] endpoint.extra = "ids" ->
                  \A i \in DOMAIN legs :
                    IF legs[i] = Empty THEN <<i - 1, "">> \notin DOMAIN wire'.legs
                    ELSE wire'.legs[<<i - 1, "">>] = legs[i]
             [] OTHER -> wire'.legs = <<>>]_vars
  BY <1>1 DEF vars
<1> QED
  BY Invariance, <1>2, PTL DEF Spec, CarriesItsLegs

\* A Do that is called again sends the same request again (request/request.go, lines 53-71).
THEOREM DoRepeats == Spec => RepeatsItself
<1>1. IInv /\ [Next]_vars => [Do /\ wire # NoRequest /\ wire.calls = calls => wire' = wire]_vars
  BY DEF IInv, Steady, Do
<1> QED
  BY Invariance, <1>1, PTL DEF Spec, RepeatsItself

---------------------------------------------------------------------------
\* Client order ids.

\* Where the groups of the documented lengths end.
Grouped(s, pos) ==
  /\ pos[0] = 0 /\ pos[5] = Len(s) + 1
  /\ \A g \in 1 .. 4 : pos[g] \in 1 .. Len(s) /\ s[pos[g]] = "hyphen"
  /\ \A g \in 1 .. 5 :
       /\ pos[g] - pos[g - 1] - 1 = GroupLengths[g]
       /\ \A i \in pos[g - 1] + 1 .. pos[g] - 1 : s[i] \in HexDigits

\* They end where the check looks for hyphens.
LEMMA GroupsEnd ==
  ASSUME NEW s \in Seq(Chars), NEW pos, Grouped(s, pos)
  PROVE  IsClOrdUUID(s)
<1>1. /\ pos[1] - pos[0] - 1 = 8 /\ pos[2] - pos[1] - 1 = 4 /\ pos[3] - pos[2] - 1 = 4
      /\ pos[4] - pos[3] - 1 = 4 /\ pos[5] - pos[4] - 1 = 12
  <2>1. \A g \in 1 .. 5 : pos[g] - pos[g - 1] - 1 = GroupLengths[g]
    BY DEF Grouped
  <2> QED
    BY <2>1 DEF GroupLengths
<1>7. \A g \in 1 .. 4 : pos[g] \in 1 .. Len(s) /\ s[pos[g]] = "hyphen"
  BY DEF Grouped
<1>8. pos[0] = 0 /\ pos[5] = Len(s) + 1
  BY DEF Grouped
<1>2. pos[1] \in Nat /\ pos[2] \in Nat /\ pos[3] \in Nat /\ pos[4] \in Nat /\ Len(s) \in Nat
  BY <1>7
<1>3. pos[1] = 9 /\ pos[2] = 14 /\ pos[3] = 19 /\ pos[4] = 24 /\ pos[5] = 37 /\ Len(s) = 36
  <2>1. pos[1] = 9
    BY <1>1, <1>2, <1>8
  <2>2. pos[2] = 14
    BY <1>1, <1>2, <2>1
  <2>3. pos[3] = 19
    BY <1>1, <1>2, <2>2
  <2>4. pos[4] = 24
    BY <1>1, <1>2, <2>3
  <2>5. Len(s) = 36
    BY <1>1, <1>2, <1>8, <2>4
  <2> QED
    BY <1>8, <2>1, <2>2, <2>3, <2>4, <2>5
<1>4. /\ \A i \in pos[0] + 1 .. pos[1] - 1 : s[i] \in HexDigits
      /\ \A i \in pos[1] + 1 .. pos[2] - 1 : s[i] \in HexDigits
      /\ \A i \in pos[2] + 1 .. pos[3] - 1 : s[i] \in HexDigits
      /\ \A i \in pos[3] + 1 .. pos[4] - 1 : s[i] \in HexDigits
      /\ \A i \in pos[4] + 1 .. pos[5] - 1 : s[i] \in HexDigits
  <2>1. \A g \in 1 .. 5 : \A i \in pos[g - 1] + 1 .. pos[g] - 1 : s[i] \in HexDigits
    BY DEF Grouped
  <2>2. /\ \A i \in pos[1 - 1] + 1 .. pos[1] - 1 : s[i] \in HexDigits
        /\ \A i \in pos[2 - 1] + 1 .. pos[2] - 1 : s[i] \in HexDigits
        /\ \A i \in pos[3 - 1] + 1 .. pos[3] - 1 : s[i] \in HexDigits
        /\ \A i \in pos[4 - 1] + 1 .. pos[4] - 1 : s[i] \in HexDigits
        /\ \A i \in pos[5 - 1] + 1 .. pos[5] - 1 : s[i] \in HexDigits
    BY <2>1
  <2> QED
    BY <2>2
<1>5. /\ \A i \in 1 .. 8 : s[i] \in HexDigits
      /\ \A i \in 10 .. 13 : s[i] \in HexDigits
      /\ \A i \in 15 .. 18 : s[i] \in HexDigits
      /\ \A i \in 20 .. 23 : s[i] \in HexDigits
      /\ \A i \in 25 .. 36 : s[i] \in HexDigits
  BY <1>3, <1>4, <1>8
<1>6. s[9] = "hyphen" /\ s[14] = "hyphen" /\ s[19] = "hyphen" /\ s[24] = "hyphen"
  BY <1>3, <1>7
<1> QED
  BY <1>3, <1>5, <1>6 DEF IsClOrdUUID

\* So a UUID of the documented form passes the check.
LEMMA StandardIsUUID ==
  ASSUME NEW s \in Seq(Chars), StandardUUID(s)
  PROVE  IsClOrdUUID(s)
<1> DEFINE Pos(h) == [g \in 0 .. 5 |-> IF g = 0 THEN 0 ELSE IF g = 5 THEN Len(s) + 1 ELSE h[g]]
<1>1. PICK h \in [1 .. 4 -> {i \in DOMAIN s : s[i] = "hyphen"}] :
        \A g \in 1 .. 5 :
          /\ Pos(h)[g] - Pos(h)[g - 1] - 1 = GroupLengths[g]
          /\ \A i \in Pos(h)[g - 1] + 1 .. Pos(h)[g] - 1 : s[i] \in HexDigits
  BY DEF StandardUUID
<1>2. /\ Pos(h)[0] = 0 /\ Pos(h)[5] = Len(s) + 1
      /\ \A g \in 1 .. 4 : Pos(h)[g] \in DOMAIN s /\ s[Pos(h)[g]] = "hyphen"
  OBVIOUS
<1> HIDE DEF Pos
<1>3. Grouped(s, Pos(h))
  <2>1. DOMAIN s = 1 .. Len(s)
    OBVIOUS
  <2> QED
    BY <1>1, <1>2, <2>1 DEF Grouped
<1> QED
  BY <1>3, GroupsEnd

\* And a text the check takes for a UUID is one.
LEMMA UUIDIsStandard ==
  ASSUME NEW s \in Seq(Chars), IsClOrdUUID(s)
  PROVE  StandardUUID(s)
<1> DEFINE h == [g \in 1 .. 4 |-> 4 + 5 * g]
           pos == [g \in 0 .. 5 |-> IF g = 0 THEN 0 ELSE IF g = 5 THEN Len(s) + 1 ELSE h[g]]
<1>1. /\ Len(s) = 36 /\ DOMAIN s = 1 .. 36
      /\ \A i \in 1 .. 36 :
           IF i - 1 \in {8, 13, 18, 23} THEN s[i] = "hyphen" ELSE s[i] \in HexDigits
  BY DEF IsClOrdUUID
<1>2. h[1] = 9 /\ h[2] = 14 /\ h[3] = 19 /\ h[4] = 24
  OBVIOUS
<1>3. h \in [1 .. 4 -> {i \in DOMAIN s : s[i] = "hyphen"}]
  <2>1. \A g \in 1 .. 4 : g = 1 \/ g = 2 \/ g = 3 \/ g = 4
    OBVIOUS
  <2>2. s[9] = "hyphen" /\ s[14] = "hyphen" /\ s[19] = "hyphen" /\ s[24] = "hyphen"
    BY <1>1
  <2>3. \A g \in 1 .. 4 : h[g] \in 1 .. 36 /\ s[h[g]] = "hyphen"
    BY <1>2, <2>1, <2>2
  <2> QED
    BY <1>1, <2>3
<1>4. pos[0] = 0 /\ pos[1] = 9 /\ pos[2] = 14 /\ pos[3] = 19 /\ pos[4] = 24 /\ pos[5] = 37
  BY <1>1, <1>2
<1> HIDE DEF h, pos
<1>5. ASSUME NEW g \in 1 .. 5
      PROVE  /\ pos[g] - pos[g - 1] - 1 = GroupLengths[g]
             /\ \A i \in pos[g - 1] + 1 .. pos[g] - 1 : s[i] \in HexDigits
  <2>1. g = 1 \/ g = 2 \/ g = 3 \/ g = 4 \/ g = 5
    OBVIOUS
  <2>2. pos[g] - pos[g - 1] - 1 = GroupLengths[g]
    BY <1>4, <2>1 DEF GroupLengths
  <2>3. \A i \in pos[g - 1] + 1 .. pos[g] - 1 : i \in 1 .. 36 /\ i - 1 \notin {8, 13, 18, 23}
    BY <1>4, <2>1
  <2> QED
    BY <1>1, <2>2, <2>3
<1> QED
  BY <1>3, <1>5 DEF StandardUUID, pos

\* The check of a client order id accepts a text exactly when it has one of the documented forms,
\* of any length (clordid.go, lines 8-14, 27-79).
THEOREM ValidExactly ==
  ASSUME NEW s \in Seq(Chars)
  PROVE  ValidateClOrdID(s) <=> DocumentedForm(s)
<1>1. IsClOrdUUID(s) <=> StandardUUID(s)
  BY StandardIsUUID, UUIDIsStandard
<1>2. CASE s = <<>>
  BY <1>2 DEF ValidateClOrdID, DocumentedForm
<1>3. CASE s # <<>>
  <2>1. Len(s) \in Nat /\ (Len(s) = 0 => s = <<>>)
    OBVIOUS
  <2>2. Len(s) \in Nat /\ Len(s) # 0
    BY <1>3, <2>1
  <2>3. Len(s) <= 18 <=> Len(s) \in 1 .. 18
    <3>1. \A n \in Nat : n # 0 => (n <= 18 <=> n \in 1 .. 18)
      OBVIOUS
    <3> QED
      BY <2>2, <3>1
  <2>4. IsHexString(s) <=> All(s, HexDigits)
    BY <1>3 DEF IsHexString
  <2>5. IsLowerAlphanumeric(s) <=> All(s, {"digit", "a-f", "g-z"})
    BY <1>3 DEF IsLowerAlphanumeric
  <2> QED
    BY <1>1, <1>3, <2>3, <2>4, <2>5 DEF ValidateClOrdID, DocumentedForm, MaxClOrdIDLen
<1> QED
  BY <1>2, <1>3

---------------------------------------------------------------------------
\* The clients a program builds.

\* The latest of a set of numbers.
LEMMA LatestIs ==
  ASSUME NEW S, S \subseteq Nat, NEW n \in S, \A m \in S : m <= n
  PROVE  Latest(S) = n
<1>1. \A x \in S : (\A m \in S : m <= x) => x = n
  OBVIOUS
<1> QED
  BY <1>1 DEF Latest

\* A set of options given so far has a latest.
LEMMA LatestExists ==
  ASSUME NEW k \in Nat, NEW S, S \subseteq 1 .. k, S # {}
  PROVE  Latest(S) \in S /\ \A m \in S : m <= Latest(S)
<1> DEFINE T == {k - x : x \in S}
<1>1. T \subseteq Nat /\ T # {}
  <2>1. \A x \in S : k - x \in Nat
    OBVIOUS
  <2> QED
    BY <2>1
<1> HIDE DEF T
<1>2. PICK t \in T : \A y \in T : t <= y
  BY <1>1, Least
<1>3. PICK x \in S : t = k - x
  BY <1>2 DEF T
<1>4. \A m \in S : m <= x
  <2> TAKE m \in S
  <2>1. t <= k - m
    BY <1>2 DEF T
  <2> QED
    BY <1>3, <2>1
<1> QED
  BY <1>4, LatestIs DEF Latest

Building == IF option = NoOption THEN 0 ELSE 1

\* What clients say.
Entries ==
  LET By == 1 .. Len(clients) + Building
  IN  [by : By, field : {"client"}, to : {Nil} \cup DOMAIN http]
        \cup [by : By, field : {"proxy"}, to : Proxies]
        \cup [by : By, field : {"baseURL", "auth", "nonceFn"}, to : {Nil, Told}]

\* The ways there are, and the clients.
Ways ==
  [baseURL : {Nil, Told, NetworkURL}, proxy : Proxies \cup {NoProxy, Direct.proxy},
   dial : {p \in Proxies : p.scheme = "socks5"} \cup {NoProxy}]
RestClients == [http : DOMAIN http, auth : {Nil, Told}, nonceFn : {DefaultNonce, Told}]

\* The types, and who may have said what.
OptionTypes ==
  /\ DOMAIN http = {Shared} \cup 1 .. Len(clients) + Building
  /\ http \in [DOMAIN http -> Ways]
  /\ clients \in Seq(RestClients)
  /\ option \in {NoOption} \cup
       [client : DOMAIN http, baseURL : {Nil, Told}, auth : {Nil, Told},
        nonceFn : {DefaultNonce, Told}]
  /\ optionLog \in Seq(Entries)

\* What the record holds of the address: whatever was given last, empty or not.
URLSaid(log, c) == ToldLast(log, Says(log, c, "baseURL", Len(log)), Nil)

\* The record under construction holds what its client's options said last.
UnderWay ==
  option # NoOption =>
    /\ option.client = ClientTold(optionLog, Own).http
    /\ option.auth = ClientTold(optionLog, Own).auth
    /\ option.nonceFn = ClientTold(optionLog, Own).nonceFn
    /\ option.baseURL = URLSaid(optionLog, Own)

\* So does each client built.
Built == \A c \in DOMAIN clients : clients[c] = ClientTold(optionLog, c)

\* An HTTP client has the address of the last client built to send on it,
Addressed ==
  \A h \in DOMAIN http :
    Senders(optionLog, Len(clients), h) # {} =>
      http[h].baseURL =
        OrElse(URLSaid(optionLog, Latest(Senders(optionLog, Len(clients), h))), NetworkURL)

\* and the proxy named last while it was in place.
Proxied ==
  \A h \in DOMAIN http :
    IF Names(optionLog, h) = {} THEN Route(http[h]) = Route(Direct)
    ELSE /\ ToldLast(optionLog, Names(optionLog, h), NoProxy) \in {http[h].dial, http[h].proxy}
         /\ ToldLast(optionLog, Names(optionLog, h), NoProxy) \in Proxies
         /\ http[h].proxy # Direct.proxy

OptionsInv == OptionTypes /\ UnderWay /\ Built /\ Addressed /\ Proxied

\* A log of n options and one more.
Extends(after, log, n, e) ==
  n \in Nat /\ after[n + 1] = e /\ \A m \in 1 .. n : after[m] = log[m]

\* What was said before another option is still what was said.
LEMMA ToldKept ==
  ASSUME NEW log, NEW after, NEW n, NEW e, Extends(after, log, n, e),
         NEW S \in SUBSET (1 .. n), NEW d
  PROVE  ToldLast(after, S, d) = ToldLast(log, S, d)
<1>1. n \in Nat /\ \A m \in 1 .. n : after[m] = log[m]
  BY DEF Extends
<1>2. S # {} => Latest(S) \in 1 .. n
  BY <1>1, LatestExists
<1> QED
  BY <1>1, <1>2 DEF ToldLast

\* Nor does the HTTP client in place change, for the options before.
LEMMA InPlaceKept ==
  ASSUME NEW log, NEW after, NEW n, NEW e, Extends(after, log, n, e), NEW c, NEW k \in 0 .. n
  PROVE  InPlace(after, c, k) = InPlace(log, c, k)
<1>1. n \in Nat /\ \A m \in 1 .. n : after[m] = log[m]
  BY DEF Extends
<1>2. Says(after, c, "client", k) = Says(log, c, "client", k)
  BY <1>1 DEF Says
<1>3. Says(log, c, "client", k) \in SUBSET (1 .. n)
  BY <1>1 DEF Says
<1>4. Gives(after, c, "client", k) = Gives(log, c, "client", k)
  BY <1>1, <1>2, <1>3 DEF Gives
<1>5. Gives(log, c, "client", k) \in SUBSET (1 .. n)
  BY <1>3 DEF Gives
<1> QED
  BY <1>4, <1>5, ToldKept DEF InPlace

\* The options a client was given for a field grow by the one just given, if it is one.
LEMMA LogGrows ==
  ASSUME NEW log, NEW after, NEW n, NEW e, Extends(after, log, n, e), NEW c, NEW f
  PROVE  /\ c = e.by /\ f = e.field => Says(after, c, f, n + 1) = Says(log, c, f, n) \cup {n + 1}
         /\ ~(c = e.by /\ f = e.field) => Says(after, c, f, n + 1) = Says(log, c, f, n)
         /\ c = e.by /\ f = e.field /\ e.to # Nil =>
              Gives(after, c, f, n + 1) = Gives(log, c, f, n) \cup {n + 1}
         /\ ~(c = e.by /\ f = e.field /\ e.to # Nil) =>
              Gives(after, c, f, n + 1) = Gives(log, c, f, n)
<1>1. n \in Nat /\ after[n + 1] = e /\ \A m \in 1 .. n : after[m] = log[m]
  BY DEF Extends
<1>2. c = e.by /\ f = e.field => Says(after, c, f, n + 1) = Says(log, c, f, n) \cup {n + 1}
  BY <1>1 DEF Says
<1>3. ~(c = e.by /\ f = e.field) => Says(after, c, f, n + 1) = Says(log, c, f, n)
  BY <1>1 DEF Says
<1>4. Says(log, c, f, n) \in SUBSET (1 .. n)
  BY DEF Says
<1>5. c = e.by /\ f = e.field /\ e.to # Nil =>
        Gives(after, c, f, n + 1) = Gives(log, c, f, n) \cup {n + 1}
  BY <1>1, <1>2, <1>4 DEF Gives
<1>6. ~(c = e.by /\ f = e.field /\ e.to # Nil) => Gives(after, c, f, n + 1) = Gives(log, c, f, n)
  <2>1. CASE c = e.by /\ f = e.field
    BY <1>1, <1>2, <1>4, <2>1 DEF Gives
  <2>2. CASE ~(c = e.by /\ f = e.field)
    BY <1>1, <1>3, <1>4, <2>2 DEF Gives
  <2> QED
    BY <2>1, <2>2
<1> QED
  BY <1>2, <1>3, <1>5, <1>6

\* So what is said last is what was just given, or what was said last before.
LEMMA LogSays ==
  ASSUME NEW log, NEW after, NEW n, NEW e, Extends(after, log, n, e), NEW c, NEW f, NEW d
  PROVE  /\ c = e.by /\ f = e.field => ToldLast(after, Says(after, c, f, n + 1), d) = e.to
         /\ ~(c = e.by /\ f = e.field) =>
              ToldLast(after, Says(after, c, f, n + 1), d) = ToldLast(log, Says(log, c, f, n), d)
         /\ c = e.by /\ f = e.field =>
              ToldLast(after, Gives(after, c, f, n + 1), d) =
                OrElse(e.to, ToldLast(log, Gives(log, c, f, n), d))
         /\ ~(c = e.by /\ f = e.field) =>
              ToldLast(after, Gives(after, c, f, n + 1), d) = ToldLast(log, Gives(log, c, f, n), d)
<1>1. n \in Nat /\ after[n + 1] = e
  BY DEF Extends
<1>2. \A S \in SUBSET (1 .. n) : ToldLast(after, S, d) = ToldLast(log, S, d)
  BY ToldKept
<1>7. Says(log, c, f, n) \in SUBSET (1 .. n) /\ Gives(log, c, f, n) \in SUBSET (1 .. n)
  BY <1>1 DEF Says, Gives
<1>3. \A S \in SUBSET (1 .. n) : ToldLast(after, S \cup {n + 1}, d) = e.to
  <2> TAKE S \in SUBSET (1 .. n)
  <2>1. S \cup {n + 1} \subseteq Nat /\ \A m \in S \cup {n + 1} : m <= n + 1
    BY <1>1
  <2>2. Latest(S \cup {n + 1}) = n + 1
    BY <2>1, LatestIs
  <2> QED
    BY <1>1, <2>2 DEF ToldLast
<1>4. CASE c = e.by /\ f = e.field /\ e.to # Nil
  BY <1>2, <1>3, <1>7, <1>4, LogGrows DEF OrElse
<1>5. CASE c = e.by /\ f = e.field /\ e.to = Nil
  BY <1>2, <1>3, <1>7, <1>5, LogGrows DEF OrElse
<1>6. CASE ~(c = e.by /\ f = e.field)
  BY <1>2, <1>7, <1>6, LogGrows
<1> QED
  BY <1>4, <1>5, <1>6

\* The HTTP client in place is the client's own or one there is.
LEMMA InPlaceThere ==
  ASSUME OptionTypes, NEW c, NEW n \in 0 .. Len(optionLog)
  PROVE  InPlace(optionLog, c, n) \in {c} \cup DOMAIN http
<1>1. Len(optionLog) \in Nat /\ Gives(optionLog, c, "client", n) \subseteq 1 .. n
  BY DEF OptionTypes, Gives, Says
<1>2. ASSUME NEW m \in Gives(optionLog, c, "client", n)
      PROVE  optionLog[m].to \in DOMAIN http
  <2>1. optionLog[m] \in Entries /\ optionLog[m].field = "client" /\ optionLog[m].to # Nil
    BY <1>1, <1>2 DEF OptionTypes, Gives, Says
  <2> QED
    BY <2>1 DEF Entries
<1>3. Gives(optionLog, c, "client", n) # {} =>
        Latest(Gives(optionLog, c, "client", n)) \in Gives(optionLog, c, "client", n)
  BY <1>1, LatestExists
<1> QED
  BY <1>2, <1>3 DEF InPlace, ToldLast

\* At first there are no clients.
LEMMA OptionsStart == OptionsInit => OptionsInv
<1> SUFFICES ASSUME OptionsInit
             PROVE  OptionsInv
  OBVIOUS
<1> USE DEF OptionsInit
<1>1. Len(clients) = 0 /\ Len(optionLog) = 0 /\ Building = 0
  BY DEF Building
<1>2. OptionTypes
  <2>1. http \in [DOMAIN http -> Ways]
    BY DEF Ways, HTTPClient, Direct
  <2> QED
    BY <1>1, <2>1 DEF OptionTypes
<1>3. UnderWay /\ Built
  BY DEF UnderWay, Built
<1>4. Addressed
  BY <1>1 DEF Addressed, Senders
<1>5. Proxied
  BY <1>1 DEF Proxied, Names, Route, HTTPClient, Direct
<1> QED
  BY <1>2, <1>3, <1>4, <1>5 DEF OptionsInv

\* A client that is begun has been given nothing, and nobody else has its HTTP client.
LEMMA BeginClientStep ==
  ASSUME OptionsInv, BeginClient
  PROVE  OptionsInv'
<1> USE DEF BeginClient
<1>1. /\ Len(clients) \in Nat /\ Own = Len(clients) + 1 /\ Building = 0 /\ Building' = 1
      /\ DOMAIN http = {Shared} \cup 1 .. Len(clients) /\ DOMAIN http' = DOMAIN http \cup {Own}
      /\ Own \notin DOMAIN http /\ optionLog \in Seq(Entries) /\ Len(optionLog) \in Nat
  <2>1. Len(clients) \in Nat /\ Own = Len(clients) + 1 /\ Building = 0
    BY DEF OptionsInv, OptionTypes, Own, Building
  <2>2. option' # NoOption
    BY DEF NoOption
  <2> QED
    BY <2>1, <2>2, OptionsAssumption DEF OptionsInv, OptionTypes, Building
<1>2. \A m \in DOMAIN optionLog : optionLog[m].by \in 1 .. Len(clients)
  BY <1>1 DEF Entries
<1>3. OptionTypes'
  <2>1. Entries \subseteq Entries'
    BY <1>1 DEF Entries
  <2>2. optionLog' \in Seq(Entries')
    BY <1>1, <2>1
  <2>3. http' \in [DOMAIN http' -> Ways]
    BY <1>1 DEF OptionsInv, OptionTypes, Ways, HTTPClient, Direct
  <2>5. RestClients \subseteq RestClients'
    BY <1>1 DEF RestClients
  <2>4. clients' \in Seq(RestClients')
    BY <2>5 DEF OptionsInv, OptionTypes
  <2> QED
    BY <1>1, <2>2, <2>3, <2>4 DEF OptionTypes
<1>4. UnderWay'
  <2>1. \A f : /\ Says(optionLog, Own, f, Len(optionLog)) = {}
               /\ Gives(optionLog, Own, f, Len(optionLog)) = {}
    BY <1>1, <1>2 DEF Says, Gives
  <2>2. Own' = Own
    BY DEF Own
  <2> QED
    BY <2>1, <2>2 DEF UnderWay, ClientTold, URLSaid, InPlace, ToldLast
<1>5. Built'
  BY DEF OptionsInv, Built
<1>6. Addressed'
  <2>1. Senders(optionLog, Len(clients), Own) = {}
    <3> SUFFICES ASSUME NEW c \in 1 .. Len(clients)
                 PROVE  InPlace(optionLog, c, Len(optionLog)) # Own
      BY DEF Senders
    <3> QED
      BY <1>1, InPlaceThere DEF OptionsInv
  <2> QED
    BY <1>1, <2>1 DEF OptionsInv, Addressed
<1>7. Proxied'
  <2>1. Names(optionLog, Own) = {}
    <3> SUFFICES ASSUME NEW m \in DOMAIN optionLog
                 PROVE  InPlace(optionLog, optionLog[m].by, m) # Own
      BY DEF Names
    <3> QED
      BY <1>1, <1>2, InPlaceThere DEF OptionsInv
  <2>2. Route(HTTPClient) = Route(Direct)
    BY DEF Route, HTTPClient, Direct
  <2> QED
    BY <1>1, <2>1, <2>2 DEF OptionsInv, Proxied
<1> QED
  BY <1>3, <1>4, <1>5, <1>6, <1>7 DEF OptionsInv

\* A client that is built sets the address of the HTTP client it sends on.
LEMMA BuildClientStep ==
  ASSUME OptionsInv, BuildClient
  PROVE  OptionsInv'
<1> USE DEF BuildClient
<1> DEFINE L == Len(clients)
<1>1. /\ L \in Nat /\ Own = L + 1 /\ Building = 1 /\ Building' = 0 /\ Len(clients') = L + 1
      /\ clients'[L + 1] =
           [http |-> option.client, auth |-> option.auth, nonceFn |-> option.nonceFn]
      /\ \A c \in 1 .. L : clients'[c] = clients[c]
      /\ DOMAIN http' = DOMAIN http /\ option.client \in DOMAIN http
      /\ option.baseURL \in {Nil, Told}
  BY DEF OptionsInv, OptionTypes, Own, Building
<1>2. \A h \in DOMAIN http :
        /\ http'[h].proxy = http[h].proxy /\ http'[h].dial = http[h].dial
        /\ http'[h].baseURL = IF h = option.client THEN OrElse(option.baseURL, NetworkURL)
                              ELSE http[h].baseURL
  BY <1>1 DEF OptionsInv, OptionTypes, SetBaseURL, Ways
<1>3. OptionTypes'
  <2>1. http' \in [DOMAIN http' -> Ways]
    <3>1. SetBaseURL(http[option.client], option.baseURL) \in Ways
      BY <1>1 DEF OptionsInv, OptionTypes, SetBaseURL, OrElse, Ways
    <3> QED
      BY <1>1, <3>1 DEF OptionsInv, OptionTypes
  <2>2. clients' \in Seq(RestClients')
    <3>1. RestClients' = RestClients
      BY <1>1 DEF RestClients
    <3>2. [http |-> option.client, auth |-> option.auth, nonceFn |-> option.nonceFn] \in RestClients
      BY <1>1 DEF OptionsInv, OptionTypes, RestClients
    <3> QED
      BY <3>1, <3>2 DEF OptionsInv, OptionTypes
  <2>3. Entries' = Entries
    BY <1>1 DEF Entries
  <2> QED
    BY <1>1, <2>1, <2>2, <2>3 DEF OptionsInv, OptionTypes
<1>4. UnderWay'
  BY DEF UnderWay
<1>5. Built'
  <2>1. clients'[L + 1] = ClientTold(optionLog, L + 1)
    BY <1>1 DEF OptionsInv, UnderWay, ClientTold
  <2> QED
    BY <1>1, <2>1 DEF OptionsInv, Built
<1>6. Addressed'
  <2> SUFFICES ASSUME NEW h \in DOMAIN http, Senders(optionLog, L + 1, h) # {}
               PROVE  http'[h].baseURL =
                        OrElse(URLSaid(optionLog, Latest(Senders(optionLog, L + 1, h))), NetworkURL)
    BY <1>1 DEF Addressed
  <2>0. /\ InPlace(optionLog, L + 1, Len(optionLog)) = option.client
        /\ option.baseURL = URLSaid(optionLog, L + 1)
    BY <1>1 DEF OptionsInv, UnderWay, ClientTold
  <2>1. CASE h = option.client
    <3>1. /\ L + 1 \in Senders(optionLog, L + 1, h) /\ Senders(optionLog, L + 1, h) \subseteq Nat
          /\ \A c \in Senders(optionLog, L + 1, h) : c <= L + 1
      BY <1>1, <2>0, <2>1 DEF Senders
    <3>2. Latest(Senders(optionLog, L + 1, h)) = L + 1
      BY <3>1, LatestIs
    <3> QED
      BY <1>2, <2>0, <2>1, <3>2
  <2>2. CASE h # option.client
    <3>1. Senders(optionLog, L + 1, h) = Senders(optionLog, L, h)
      BY <1>1, <2>0, <2>2 DEF Senders
    <3> QED
      BY <1>2, <2>2, <3>1 DEF OptionsInv, Addressed
  <2> QED
    BY <2>1, <2>2
<1>7. Proxied'
  BY <1>1, <1>2 DEF OptionsInv, Proxied, Route
<1> QED
  BY <1>3, <1>4, <1>5, <1>6, <1>7 DEF OptionsInv

\* An option changes what its client is told last, or the way of the HTTP client in place.
LEMMA GiveOptionStep ==
  ASSUME OptionsInv, GiveOption
  PROVE  OptionsInv'
<1> DEFINE L == Len(clients)
           N == Len(optionLog)
<1>1. PICK o \in RestOptions :
        /\ optionLog' = Append(optionLog, [by |-> Own, field |-> o.field, to |-> o.to])
        /\ IF o.field = "proxy"
           THEN http' = [http EXCEPT ![option.client] = WithProxy(@, o.to)] /\ option' = option
           ELSE option' = Store(option, o.field, o.to) /\ http' = http
  BY DEF GiveOption
<1>2. clients' = clients /\ option # NoOption
  BY DEF GiveOption
<1>3. /\ L \in Nat /\ N \in Nat /\ Own = L + 1 /\ Own' = L + 1 /\ Building = 1
      /\ DOMAIN http' = DOMAIN http /\ option.client \in DOMAIN http
      /\ option \in [client : DOMAIN http, baseURL : {Nil, Told}, auth : {Nil, Told},
                     nonceFn : {DefaultNonce, Told}]
      /\ optionLog \in Seq(Entries) /\ http \in [DOMAIN http -> Ways]
  BY <1>1, <1>2 DEF OptionsInv, OptionTypes, Own, Building
<1>4. /\ o.field \in {"client", "proxy", "baseURL", "auth", "nonceFn"}
      /\ o.field = "client" => o.to \in {Nil} \cup DOMAIN http
      /\ o.field = "proxy" => o.to \in Proxies
      /\ o.field \in {"baseURL", "auth", "nonceFn"} => o.to \in {Nil, Told}
  <2>1. Shared \in DOMAIN http /\ \A c \in DOMAIN clients : clients[c].http \in DOMAIN http
    <3>1. \A c \in DOMAIN clients : clients[c] \in RestClients
      BY DEF OptionsInv, OptionTypes
    <3> QED
      BY <3>1 DEF OptionsInv, OptionTypes, RestClients
  <2> QED
    BY <2>1 DEF RestOptions, Option
<1>5. PICK e \in Entries : e = [by |-> L + 1, field |-> o.field, to |-> o.to]
  <2>1. [by |-> L + 1, field |-> o.field, to |-> o.to] \in Entries
    BY <1>3, <1>4 DEF Entries
  <2> QED
    BY <2>1
<1>6. optionLog' = Append(optionLog, e) /\ Len(optionLog') = N + 1 /\ optionLog'[N + 1] = e
  BY <1>1, <1>3, <1>5
<1>e. Extends(optionLog', optionLog, N, e)
  BY <1>3, <1>6 DEF Extends
<1>7. option' \in [client : DOMAIN http, baseURL : {Nil, Told}, auth : {Nil, Told},
                   nonceFn : {DefaultNonce, Told}] /\ option' # NoOption
  <2>1. CASE o.field = "proxy"
    BY <1>1, <1>2, <1>3, <2>1
  <2>2. CASE o.field \in {"client", "baseURL", "auth", "nonceFn"}
    BY <1>1, <1>2, <1>3, <1>4, <2>2 DEF Store, OrElse, NoOption
  <2> QED
    BY <1>4, <2>1, <2>2
<1>8. \A h \in DOMAIN http :
        /\ http'[h].baseURL = http[h].baseURL
        /\ o.field # "proxy" \/ h # option.client => http'[h] = http[h]
        /\ o.field = "proxy" /\ h = option.client => http'[h] = WithProxy(http[h], o.to)
  <2> SUFFICES ASSUME NEW h \in DOMAIN http
               PROVE  /\ http'[h].baseURL = http[h].baseURL
                      /\ o.field # "proxy" \/ h # option.client => http'[h] = http[h]
                      /\ o.field = "proxy" /\ h = option.client =>
                           http'[h] = WithProxy(http[h], o.to)
    OBVIOUS
  <2>1. http[h] \in Ways
    BY <1>3
  <2>2. o.field = "proxy" => WithProxy(http[h], o.to).baseURL = http[h].baseURL
    BY <1>4, <2>1 DEF WithProxy, Ways
  <2>3. CASE o.field = "proxy"
    <3>1. http' = [http EXCEPT ![option.client] = WithProxy(http[option.client], o.to)]
      BY <1>1, <2>3
    <3> QED
      BY <1>3, <2>2, <2>3, <3>1
  <2>4. CASE o.field # "proxy"
    BY <1>1, <2>4
  <2> QED
    BY <2>3, <2>4
<1>9. OptionTypes'
  <2>1. Building' = 1
    BY <1>7 DEF Building
  <2>2. http' \in [DOMAIN http' -> Ways]
    <3>1. o.field = "proxy" => WithProxy(http[option.client], o.to) \in Ways
      BY <1>3, <1>4 DEF WithProxy, Ways
    <3> QED
      BY <1>1, <1>3, <3>1
  <2>3. Entries' = Entries
    BY <1>2, <1>3, <2>1 DEF Entries
  <2>4. RestClients' = RestClients
    BY <1>3 DEF RestClients
  <2>5. optionLog' \in Seq(Entries')
    BY <1>3, <1>6, <2>3
  <2> QED
    BY <1>2, <1>3, <1>7, <2>1, <2>2, <2>4, <2>5 DEF OptionsInv, OptionTypes
<1>10. UnderWay'
  <2> DEFINE Was(f, d) == ToldLast(optionLog, Gives(optionLog, L + 1, f, N), d)
             Is(f, d) == ToldLast(optionLog', Gives(optionLog', L + 1, f, Len(optionLog')), d)
             SaysBefore(f) == ToldLast(optionLog, Says(optionLog, L + 1, f, N), Nil)
             SaysAfter(f) == ToldLast(optionLog', Says(optionLog', L + 1, f, Len(optionLog')), Nil)
  <2>0. e.by = L + 1 /\ e.field = o.field /\ e.to = o.to
    BY <1>5
  <2>1. \A f, d : Is(f, d) = IF f = o.field THEN OrElse(o.to, Was(f, d)) ELSE Was(f, d)
    BY <1>3, <1>6, <1>e, <2>0, LogSays
  <2>2. \A f : SaysAfter(f) = IF f = o.field THEN o.to ELSE SaysBefore(f)
    BY <1>3, <1>6, <1>e, <2>0, LogSays
  <2>3. option = [client |-> Was("client", L + 1), baseURL |-> SaysBefore("baseURL"),
                  auth |-> SaysBefore("auth"), nonceFn |-> Was("nonceFn", DefaultNonce)]
    BY <1>2, <1>3 DEF OptionsInv, UnderWay, ClientTold, URLSaid, InPlace
  <2>4. option' = [client |-> Is("client", L + 1), baseURL |-> SaysAfter("baseURL"),
                   auth |-> SaysAfter("auth"), nonceFn |-> Is("nonceFn", DefaultNonce)]
    <3> HIDE DEF Was, Is, SaysBefore, SaysAfter
    <3>1. CASE o.field = "proxy"
      BY <1>1, <2>1, <2>2, <2>3, <3>1
    <3>2. CASE o.field = "client"
      BY <1>1, <2>1, <2>2, <2>3, <3>2 DEF Store
    <3>3. CASE o.field = "baseURL"
      BY <1>1, <2>1, <2>2, <2>3, <3>3 DEF Store
    <3>4. CASE o.field = "auth"
      BY <1>1, <2>1, <2>2, <2>3, <3>4 DEF Store
    <3>5. CASE o.field = "nonceFn"
      BY <1>1, <2>1, <2>2, <2>3, <3>5 DEF Store
    <3> QED
      BY <1>4, <3>1, <3>2, <3>3, <3>4, <3>5
  <2> QED
    BY <1>3, <2>4 DEF UnderWay, ClientTold, URLSaid, InPlace
<1>11. \A c \in 1 .. L : /\ ClientTold(optionLog', c) = ClientTold(optionLog, c)
                        /\ URLSaid(optionLog', c) = URLSaid(optionLog, c)
  <2> TAKE c \in 1 .. L
  <2>1. c # e.by
    BY <1>3, <1>5
  <2> QED
    BY <1>3, <1>6, <1>e, <2>1, LogSays DEF ClientTold, URLSaid, InPlace
<1>12. Built'
  BY <1>2, <1>3, <1>11 DEF OptionsInv, Built
<1>13. Addressed'
  <2> SUFFICES ASSUME NEW h \in DOMAIN http, Senders(optionLog', L, h) # {}
               PROVE  http'[h].baseURL =
                        OrElse(URLSaid(optionLog', Latest(Senders(optionLog', L, h))), NetworkURL)
    BY <1>2, <1>3 DEF Addressed
  <2>1. Senders(optionLog', L, h) = Senders(optionLog, L, h)
    BY <1>3, <1>11 DEF Senders, ClientTold
  <2>2. Latest(Senders(optionLog, L, h)) \in 1 .. L
    BY <1>3, <2>1, LatestExists DEF Senders
  <2> QED
    BY <1>3, <1>8, <1>11, <2>1, <2>2 DEF OptionsInv, Addressed
<1>14. Proxied'
  <2> SUFFICES ASSUME NEW h \in DOMAIN http
               PROVE  IF Names(optionLog', h) = {} THEN Route(http'[h]) = Route(Direct)
                      ELSE LET p == ToldLast(optionLog', Names(optionLog', h), NoProxy)
                           IN  /\ p \in {http'[h].dial, http'[h].proxy} /\ p \in Proxies
                               /\ http'[h].proxy # Direct.proxy
    BY <1>3 DEF Proxied
  <2> DEFINE Naming == o.field = "proxy" /\ o.to.scheme \in {"http", "socks5"}
                        /\ h = option.client
  <2>1. \A c : \A n \in 0 .. N : InPlace(optionLog', c, n) = InPlace(optionLog, c, n)
    BY <1>3, <1>e, InPlaceKept
  <2>2. o.field = "proxy" => InPlace(optionLog', L + 1, N + 1) = option.client
    <3>1. o.field = "proxy" => InPlace(optionLog', L + 1, N + 1) = InPlace(optionLog, L + 1, N)
      BY <1>3, <1>5, <1>e, LogSays DEF InPlace
    <3> QED
      BY <1>2, <1>3, <3>1 DEF OptionsInv, UnderWay, ClientTold
  <2>3. \A m \in 1 .. N : optionLog'[m] = optionLog[m]
    BY <1>3, <1>6
  <2>4. Names(optionLog, h) \subseteq 1 .. N
    BY <1>3 DEF Names
  <2>5. DOMAIN optionLog' = 1 .. N + 1 /\ DOMAIN optionLog = 1 .. N
    BY <1>3, <1>6
  <2>6. CASE Naming
    <3>1. Names(optionLog', h) = Names(optionLog, h) \cup {N + 1}
      BY <1>3, <1>5, <1>6, <2>1, <2>2, <2>3, <2>5, <2>6 DEF Names
    <3>6. /\ N + 1 \in Names(optionLog', h) /\ Names(optionLog', h) \subseteq Nat
          /\ \A m \in Names(optionLog', h) : m <= N + 1
      <4> HIDE DEF N
      <4> QED
        BY <1>3, <2>4, <3>1
    <3>2. Latest(Names(optionLog', h)) = N + 1
      BY <3>6, LatestIs
    <3>3. ToldLast(optionLog', Names(optionLog', h), NoProxy) = o.to
      <4>1. Names(optionLog', h) # {} /\ optionLog'[N + 1].to = o.to
        BY <1>5, <1>6, <3>6
      <4> QED
        BY <3>2, <4>1 DEF ToldLast
    <3>4. http'[h] = WithProxy(http[h], o.to) /\ http[h] \in Ways
      BY <1>3, <1>8, <2>6
    <3>5. o.to \in {http'[h].dial, http'[h].proxy} /\ http'[h].proxy # Direct.proxy
      BY <2>6, <3>4 DEF WithProxy, Ways, Direct, Proxies, Proxy, NoProxy
    <3> QED
      BY <1>4, <2>6, <3>1, <3>3, <3>5
  <2>7. CASE ~Naming
    <3>1. Names(optionLog', h) = Names(optionLog, h)
      BY <1>3, <1>5, <1>6, <2>1, <2>2, <2>3, <2>5, <2>7 DEF Names
    <3>2. ToldLast(optionLog', Names(optionLog', h), NoProxy) =
            ToldLast(optionLog, Names(optionLog, h), NoProxy)
      BY <1>3, <1>e, <2>4, <3>1, ToldKept
    <3>3. http'[h] = http[h]
      BY <1>4, <1>8, <2>7 DEF WithProxy
    <3> QED
      BY <3>1, <3>2, <3>3 DEF OptionsInv, Proxied
  <2> QED
    BY <2>6, <2>7
<1> QED
  BY <1>9, <1>10, <1>12, <1>13, <1>14 DEF OptionsInv

\* What the stream's program does leaves the REST clients alone.
LEMMA StreamSteps ==
  ASSUME OptionsInv, UNCHANGED <<http, clients, option, optionLog>>
  PROVE  OptionsInv'
<1>1. Building' = Building /\ Own' = Own
  BY DEF Building, Own
<1>2. OptionTypes'
  BY <1>1 DEF OptionsInv, OptionTypes, Entries, RestClients
<1>3. UnderWay' /\ Built' /\ Addressed' /\ Proxied'
  BY <1>1 DEF OptionsInv, UnderWay, Built, Addressed, Proxied
<1> QED
  BY <1>2, <1>3 DEF OptionsInv

\* Each client built, and each under way, is what its options say, whatever clients share an HTTP
\* client (client/options.go, lines 17-164).
THEOREM OptionsInvariant == OptionsSpec => []OptionsInv
<1>1. OptionsInv /\ [OptionsNext]_optionVars => OptionsInv'
  <2> SUFFICES ASSUME OptionsInv, [OptionsNext]_optionVars
               PROVE  OptionsInv'
    OBVIOUS
  <2>1. CASE BeginClient
    BY <2>1, BeginClientStep
  <2>2. CASE GiveOption
    BY <2>2, GiveOptionStep
  <2>3. CASE BuildClient
    BY <2>3, BuildClientStep
  <2>4. CASE StreamNext
    BY <2>4, StreamSteps DEF StreamNext, GiveStreamOption, BuildStream
  <2>5. CASE UNCHANGED optionVars
    BY <2>5, StreamSteps DEF optionVars
  <2> QED
    BY <2>1, <2>2, <2>3, <2>4, <2>5 DEF OptionsNext, RestNext
<1> QED
  BY <1>1, OptionsStart, PTL DEF OptionsSpec

\* But for an empty address given last, what was said is what was told.
LEMMA SaidIsTold ==
  ASSUME NEW log, NEW c, Len(log) \in Nat, ~EmptyLast(log, c)
  PROVE  OrElse(URLSaid(log, c), NetworkURL) = URLTold(log, c)
<1> DEFINE S == Says(log, c, "baseURL", Len(log))
           G == Gives(log, c, "baseURL", Len(log))
<1>1. S \in SUBSET (1 .. Len(log)) /\ G = {n \in S : log[n].to # Nil}
  BY DEF Says, Gives
<1>2. URLSaid(log, c) = IF S = {} THEN Nil ELSE log[Latest(S)].to
  BY DEF URLSaid, ToldLast
<1>3. URLTold(log, c) = IF G = {} THEN NetworkURL ELSE log[Latest(G)].to
  BY DEF URLTold, ToldLast
<1>4. G # {} => URLSaid(log, c) # Nil
  BY DEF EmptyLast, URLSaid
<1> HIDE DEF S, G
<1>5. S # {} => Latest(S) \in S /\ \A m \in S : m <= Latest(S)
  BY <1>1, LatestExists
<1>6. CASE G = {}
  BY <1>1, <1>2, <1>3, <1>5, <1>6 DEF OrElse
<1>7. CASE G # {}
  <2>1. S # {} /\ Latest(S) \in G /\ \A m \in G : m <= Latest(S)
    BY <1>1, <1>2, <1>4, <1>5, <1>7
  <2>2. G \in SUBSET Nat
    <3>1. 1 .. Len(log) \subseteq Nat
      OBVIOUS
    <3>2. G \subseteq S
      BY <1>1
    <3> QED
      BY <1>1, <3>1, <3>2
  <2>3. Latest(G) = Latest(S)
    BY <2>1, <2>2, LatestIs
  <2> QED
    BY <1>2, <1>3, <1>4, <1>7, <2>1, <2>3 DEF OrElse
<1> QED
  BY <1>6, <1>7

\* A client's requests go where its options, and those of the clients that share its HTTP client,
\* say last, for any number of clients and options (client/client.go, lines 31-51).
THEOREM ClientsGoWhereTold == OptionsSpec => []GoesWhereTold
<1>1. OptionsInv => GoesWhereTold
  <2> SUFFICES ASSUME OptionsInv, NEW c \in DOMAIN clients
               PROVE  LET h    == InPlace(optionLog, c, Len(optionLog))
                          last == Latest(Senders(optionLog, Len(clients), h))
                      IN  /\ clients[c] = ClientTold(optionLog, c)
                          /\ EmptyLast(optionLog, last) \/ http[h].baseURL = URLTold(optionLog, last)
                          /\ IF Names(optionLog, h) = {} THEN Route(http[h]) = Route(Direct)
                             ELSE /\ ToldLast(optionLog, Names(optionLog, h), NoProxy) \in
                                        {http[h].dial, http[h].proxy}
                                  /\ Direct.proxy \notin {http[h].dial, http[h].proxy}
    BY DEF GoesWhereTold
  <2> DEFINE h == InPlace(optionLog, c, Len(optionLog))
  <2>1. /\ clients[c] = ClientTold(optionLog, c) /\ clients[c] \in RestClients
        /\ c \in 1 .. Len(clients)
    BY DEF OptionsInv, Built, OptionTypes
  <2>2. h \in DOMAIN http
    BY <2>1 DEF ClientTold, RestClients
  <2>3. c \in Senders(optionLog, Len(clients), h)
    BY <2>1 DEF Senders
  <2>4. http[h].dial # Direct.proxy
    <3>1. http[h] \in Ways
      BY <2>2 DEF OptionsInv, OptionTypes
    <3> QED
      BY <3>1 DEF Ways, Direct, Proxies, Proxy, NoProxy
  <2>5. http[h].baseURL =
          OrElse(URLSaid(optionLog, Latest(Senders(optionLog, Len(clients), h))), NetworkURL)
    BY <2>2, <2>3 DEF OptionsInv, Addressed
  <2>6. Len(optionLog) \in Nat
    BY DEF OptionsInv, OptionTypes
  <2> QED
    BY <2>1, <2>2, <2>4, <2>5, <2>6, SaidIsTold DEF OptionsInv, Proxied
<1> QED
  BY <1>1, OptionsInvariant, PTL

\* The proxy noted is the one dialled, if it is one the stream supports.
StreamOptions ==
  [publicURL : {Nil, Told}, privateURL : {Nil, Told}, auth : {Nil, Told},
   proxyURL : Proxies \cup {NoProxy},
   dialer : [proxy : Proxies \cup {NoProxy, Direct.proxy}, dial : Proxies \cup {NoProxy}]]

Dialled(o) ==
  LET p == o.proxyURL
  IN  /\ p.scheme # "invalid"
      /\ p = NoProxy => o.dialer = Direct
      /\ p.scheme = "http" => o.dialer = [proxy |-> p, dial |-> NoProxy]
      /\ p.scheme = "socks5" => o.dialer = [proxy |-> NoProxy, dial |-> p]

StreamInv == streamOption \in StreamOptions /\ Dialled(streamOption) /\ TokenFollowsStream

\* Tokens are fetched with the credentials of the stream and over the way it is dialled
\* (client/websocket.go, lines 158-161).
THEOREM TokensFollowStream == OptionsSpec => []TokenFollowsStream
<1>1. OptionsInit => StreamInv
  BY DEF OptionsInit, StreamInv, StreamOptions, Dialled, TokenFollowsStream, NotBuilt, Direct,
         NoProxy, Proxy
<1>2. StreamInv /\ [OptionsNext]_optionVars => StreamInv'
  <2> SUFFICES ASSUME StreamInv, [OptionsNext]_optionVars
               PROVE  StreamInv'
    OBVIOUS
  <2>1. CASE GiveStreamOption
    <3>1. ASSUME NEW p \in Proxies, streamOption' = WithWebSocketProxy(streamOption, p)
          PROVE  streamOption' \in StreamOptions /\ Dialled(streamOption')
      <4> DEFINE o == streamOption
                 n == streamOption'
      <4>1. /\ p.scheme \in {"http", "socks5", "other", "invalid"} /\ p # NoProxy
            /\ o \in StreamOptions /\ Dialled(o)
        BY DEF Proxies, Proxy, NoProxy, StreamInv
      <4>2. CASE p.scheme = "invalid"
        BY <3>1, <4>1, <4>2 DEF WithWebSocketProxy
      <4>3. CASE p.scheme = "other"
        <5>1. n = [o EXCEPT !.proxyURL = p]
          BY <3>1, <4>3 DEF WithWebSocketProxy
        <5> QED
          BY <4>1, <4>3, <5>1 DEF StreamOptions, Dialled
      <4>4. CASE p.scheme = "http"
        <5>1. n = [o EXCEPT !.proxyURL = p, !.dialer = [proxy |-> p, dial |-> NoProxy]]
          BY <3>1, <4>4 DEF WithWebSocketProxy
        <5> QED
          BY <4>1, <4>4, <5>1 DEF StreamOptions, Dialled
      <4>5. CASE p.scheme = "socks5"
        <5>1. n = [o EXCEPT !.proxyURL = p, !.dialer = [proxy |-> NoProxy, dial |-> p]]
          BY <3>1, <4>5 DEF WithWebSocketProxy
        <5> QED
          BY <4>1, <4>5, <5>1 DEF StreamOptions, Dialled
      <4> QED
        BY <4>1, <4>2, <4>3, <4>4, <4>5
    <3>2. ASSUME NEW url \in {Nil, Told},
                 \/ streamOption' = [streamOption EXCEPT !.publicURL = url]
                 \/ streamOption' = [streamOption EXCEPT !.privateURL = url]
                 \/ streamOption' = [streamOption EXCEPT !.auth = url]
          PROVE  streamOption' \in StreamOptions /\ Dialled(streamOption')
      BY <3>2 DEF StreamInv, StreamOptions, Dialled
    <3>3. TokenFollowsStream'
      BY <2>1 DEF GiveStreamOption, TokenFollowsStream
    <3> QED
      BY <2>1, <3>1, <3>2, <3>3 DEF GiveStreamOption, StreamInv
  <2>2. CASE BuildStream
    <3> DEFINE o == streamOption
    <3>1. o \in StreamOptions /\ Dialled(o) /\ streamOption' = o
      BY <2>2 DEF BuildStream, StreamInv
    <3>2. Route(TokenClient(o.auth, o.proxyURL).http) =
            IF o.proxyURL = NoProxy \/ o.proxyURL.scheme = "other" THEN Route(Direct)
            ELSE Route(o.dialer)
      <4> DEFINE p == o.proxyURL
      <4>1. /\ p = NoProxy \/ (p # NoProxy /\ p.scheme \in {"http", "socks5", "other"})
            /\ NoProxy.scheme # "other"
        BY <3>1 DEF StreamOptions, Dialled, Proxies, Proxy, NoProxy
      <4>2. HTTPClient = [baseURL |-> Nil, proxy |-> Direct.proxy, dial |-> NoProxy]
              /\ Direct.dial = NoProxy
        BY DEF HTTPClient, Direct
      <4>3. CASE p = NoProxy
        BY <4>2, <4>3 DEF TokenClient, SetBaseURL, Route
      <4>4. CASE p # NoProxy /\ p.scheme = "other"
        BY <4>2, <4>4 DEF TokenClient, SetBaseURL, WithProxy, Route
      <4>5. CASE p # NoProxy /\ p.scheme = "http"
        <5>1. WithProxy(HTTPClient, p) = [baseURL |-> Nil, proxy |-> p, dial |-> NoProxy]
          BY <4>2, <4>5 DEF WithProxy
        <5>2. TokenClient(o.auth, p).http.proxy = p /\ TokenClient(o.auth, p).http.dial = NoProxy
          BY <4>5, <5>1 DEF TokenClient, SetBaseURL
        <5>3. o.dialer = [proxy |-> p, dial |-> NoProxy]
          BY <3>1, <4>5 DEF Dialled
        <5> QED
          BY <4>5, <5>2, <5>3 DEF Route
      <4>6. CASE p # NoProxy /\ p.scheme = "socks5"
        <5>1. WithProxy(HTTPClient, p) = [baseURL |-> Nil, proxy |-> NoProxy, dial |-> p]
          BY <4>2, <4>6 DEF WithProxy
        <5>2. TokenClient(o.auth, p).http.proxy = NoProxy /\ TokenClient(o.auth, p).http.dial = p
          BY <4>6, <5>1 DEF TokenClient, SetBaseURL
        <5>3. o.dialer = [proxy |-> NoProxy, dial |-> p]
          BY <3>1, <4>6 DEF Dialled
        <5> QED
          BY <4>6, <5>2, <5>3 DEF Route
      <4> QED
        BY <4>1, <4>3, <4>4, <4>5, <4>6
    <3>3. TokenClient(o.auth, o.proxyURL).auth = o.auth
      BY DEF TokenClient
    <3>4. /\ stream'.auth = o.auth /\ stream'.proxyURL = o.proxyURL /\ stream'.dialer = o.dialer
          /\ stream'.token = IF o.auth = Nil THEN NoOption ELSE TokenClient(o.auth, o.proxyURL)
      BY <2>2 DEF BuildStream
    <3>5. TokenFollowsStream'
      BY <3>1, <3>2, <3>3, <3>4 DEF TokenFollowsStream, Dialled, NoProxy, Proxy
    <3> QED
      BY <3>1, <3>5 DEF StreamInv
  <2>3. CASE RestNext \/ UNCHANGED optionVars
    BY <2>3 DEF RestNext, BeginClient, GiveOption, BuildClient, optionVars, StreamInv,
                TokenFollowsStream
  <2> QED
    BY <2>1, <2>2, <2>3 DEF OptionsNext, StreamNext
<1>3. StreamInv => TokenFollowsStream
  BY DEF StreamInv
<1> QED
  BY <1>1, <1>2, <1>3, PTL DEF OptionsSpec

---------------------------------------------------------------------------
\* The inputs of the algorithms.

\* The inputs there can be.
IdStates == [kind : {"id"}, id : Seq(Chars), edits : Nat]
TimeStates == [kind : {"time"}, time : Times \cup {ZeroTime}, unit : Units]
TextStates == [kind : {"text"}, unit : Units, text : Texts, more : Nat]
RowStates(row) ==
  [kind : {"row"}, row : {row}, set : Nat,
   value : [RowFields(row) -> Given \cup Times \cup {ZeroTime}]]
TimesInPlace(row, value) ==
  \A f \in RowFields(row) \cap TimeFields : value[f] \in Times \cup {ZeroTime}
OrderStates(s) == [kind : {"order"}, shape : {s}, orders : Seq(Structs(s)), set : Nat]

InputTypes ==
  /\ \/ input \in IdStates \cup TimeStates \cup TextStates \cup ResultInputs
     \/ \E row \in Rows : input \in RowStates(row)
     \/ \E s \in Shapes : input \in OrderStates(s)
  /\ input.kind = "row" => TimesInPlace(input.row, input.value)
  /\ input.kind = "order" => Len(input.orders) >= 1

\* The kind of an input says what it holds.
LEMMA Kinds ==
  ASSUME InputTypes
  PROVE  /\ input.kind = "id" => input \in IdStates
         /\ input.kind = "time" => input \in TimeStates
         /\ input.kind = "text" => input \in TextStates
         /\ input.kind = "row" => input.row \in Rows /\ input \in RowStates(input.row)
         /\ input.kind \in {"result", "limit"} => input \in ResultInputs
         /\ input.kind = "order" => input.shape \in Shapes /\ input \in OrderStates(input.shape)
<1>1. \A x \in IdStates : x.kind = "id"
  BY DEF IdStates
<1>2. \A x \in TimeStates : x.kind = "time"
  BY DEF TimeStates
<1>3. \A x \in TextStates : x.kind = "text"
  BY DEF TextStates
<1>4. \A row : \A x \in RowStates(row) : x.kind = "row" /\ x.row = row
  BY DEF RowStates
<1>5. \A x \in ResultInputs : x.kind \in {"result", "limit"}
  BY DEF ResultInputs
<1>6. \A s : \A x \in OrderStates(s) : x.kind = "order" /\ x.shape = s
  BY DEF OrderStates
<1> QED
  BY <1>1, <1>2, <1>3, <1>4, <1>5, <1>6 DEF InputTypes

\* Texts of characters, made and changed.
LEMMA EditsAreTexts ==
  ASSUME NEW s \in Seq(Chars)
  PROVE  EditsOf(s) \subseteq Seq(Chars)
<1>1. ASSUME NEW i \in 1 .. Len(s) + 1, NEW c \in {"hyphen", "A-F"}
      PROVE  InsertAt(s, i, c) \in Seq(Chars)
  <2>1. SubSeq(s, 1, i - 1) \in Seq(Chars) /\ SubSeq(s, i, Len(s)) \in Seq(Chars)
    OBVIOUS
  <2>2. <<c>> \in Seq(Chars)
    BY DEF Chars
  <2> QED
    BY <2>1, <2>2 DEF InsertAt
<1>2. ASSUME NEW i \in DOMAIN s
      PROVE  RemoveAt(s, i) \in Seq(Chars)
  <2>1. SubSeq(s, 1, i - 1) \in Seq(Chars) /\ SubSeq(s, i + 1, Len(s)) \in Seq(Chars)
    OBVIOUS
  <2> QED
    BY <2>1 DEF RemoveAt
<1>3. ASSUME NEW i \in DOMAIN s, NEW c \in {"hyphen", "a-f", "G-Z"}
      PROVE  [s EXCEPT ![i] = c] \in Seq(Chars)
  <2>1. c \in Chars
    BY DEF Chars
  <2> QED
    BY <2>1
<1> DEFINE Put == UNION {{InsertAt(s, i, c) : c \in {"hyphen", "A-F"}} : i \in 1 .. Len(s) + 1}
           Changed(i, c) == [s EXCEPT ![i] = c]
           Replaced == UNION {{Changed(i, c) : c \in {"hyphen", "a-f", "G-Z"}} : i \in DOMAIN s}
           Taken == {RemoveAt(s, i) : i \in DOMAIN s}
<1>4. \A t \in Put : t \in Seq(Chars)
  BY <1>1, Zenon
<1>5. \A t \in Taken : t \in Seq(Chars)
  BY <1>2, Zenon
<1>6. \A t \in Replaced : t \in Seq(Chars)
  <2> HIDE DEF Changed
  <2>1. \A i \in DOMAIN s, c \in {"hyphen", "a-f", "G-Z"} : Changed(i, c) \in Seq(Chars)
    BY <1>3 DEF Changed
  <2> QED
    BY <2>1, Zenon
<1>7. EditsOf(s) = Put \cup Replaced \cup Taken
  BY Zenon DEF EditsOf
<1> QED
  <2> HIDE DEF Put, Taken, Replaced
  <2> QED
    BY <1>4, <1>5, <1>6, <1>7

\* The ids to start from are texts.
LEMMA IdsAreTexts == Ids \subseteq Seq(Chars)
<1>1. \A c \in Chars, n \in Nat : Repeat(c, n) \in Seq(Chars)
  BY DEF Repeat
<1>2. UUID \in Seq(Chars)
  <2>1. \A i \in 1 .. 36 : (IF i \in {9, 14, 19, 24} THEN "hyphen" ELSE "digit") \in Chars
    BY DEF Chars
  <2> QED
    BY <2>1 DEF UUID
<1>3. {"a-f", "g-z", "digit"} \subseteq Chars
  BY DEF Chars
<1>4. <<>> \in Seq(Chars)
  OBVIOUS
<1>5. /\ Repeat("a-f", 32) \in Seq(Chars) /\ Repeat("g-z", 18) \in Seq(Chars)
      /\ Repeat("digit", 17) \in Seq(Chars)
  BY <1>1, <1>3
<1>6. \A x \in Ids : \/ x = <<>> \/ x = UUID \/ x = Repeat("a-f", 32) \/ x = Repeat("g-z", 18)
                      \/ x = Repeat("digit", 17)
  BY Zenon DEF Ids
<1> QED
  BY <1>2, <1>4, <1>5, <1>6, Zenon

\* The values there are for a column fit it.
LEMMA ColumnsAreThere ==
  ASSUME NEW f
  PROVE  /\ ColumnValues(f) \subseteq Given \cup Times \cup {ZeroTime} /\ ColumnValues(f) # {}
         /\ f \in TimeFields => ColumnValues(f) \subseteq Times \cup {ZeroTime}
<1> DEFINE H == Word \div 2
<1>1. Second \in Nat /\ Second > 1 /\ Word \in Nat /\ Word = 2 * H /\ H \in Nat
  BY SizesAssumption
<1>2. Second < Word
  BY SecondFits
<1>3. {Epoch, Time(1, 1), Time(-1, Second - 1)} \subseteq Times
  <2> HIDE DEF H
  <2>1. /\ 0 \in -H .. H - 1 /\ 1 \in -H .. H - 1 /\ -1 \in -H .. H - 1
        /\ 0 \in 0 .. Second - 1 /\ 1 \in 0 .. Second - 1 /\ Second - 1 \in 0 .. Second - 1
    BY <1>1, <1>2
  <2> QED
    BY <2>1 DEF Times, Time, Epoch, H
<1> QED
  BY <1>3, InputsAssumption DEF ColumnValues

\* Digits are digits or another character.
LEMMA DigitsAreDigits ==
  ASSUME NEW b \in Seq(0 .. 9)
  PROVE  b \in Seq(0 .. Other)
<1>1. \A i \in 1 .. Len(b) : b[i] \in 0 .. Other
  BY DEF Other
<1>2. b = [i \in 1 .. Len(b) |-> b[i]] /\ Len(b) \in Nat
  OBVIOUS
<1> DEFINE c == [i \in 1 .. Len(b) |-> b[i]]
<1>3. c \in Seq(0 .. Other)
  BY <1>1, <1>2
<1> QED
  BY <1>2, <1>3

\* So are those to start from.
LEMMA WholesAreDigits == Wholes \subseteq Seq(0 .. Other)
<1>1. ASSUME NEW n \in Numbers, n < Word
      PROVE  Digits(n) \in Seq(0 .. Other)
  <2>1. n \in 0 .. Word - 1
    BY <1>1, InputsAssumption, SizesAssumption
  <2> DEFINE b == Digits(n)
  <2>2. b \in Seq(0 .. 9)
    BY <2>1, DigitsNumeral DEF Numeral
  <2> HIDE DEF b
  <2>3. b \in Seq(0 .. Other)
    BY <2>2, DigitsAreDigits
  <2> QED
    BY <2>3 DEF b
<1>2. <<>> \in Seq(0 .. Other)
  OBVIOUS
<1> QED
  BY <1>1, <1>2, Zenon DEF Wholes

\* Every first input is well formed.
LEMMA InputStart == input \in Inputs => InputTypes
<1> SUFFICES ASSUME input \in Inputs PROVE InputTypes
  OBVIOUS
<1>1. CASE input \in IdInputs
  <2>1. input \in IdStates /\ input.kind = "id"
    BY <1>1, IdsAreTexts DEF IdInputs, IdStates
  <2> QED
    BY <2>1 DEF InputTypes
<1>2. CASE input \in TimeInputs
  <2>1. Instants \subseteq Times
    BY DEF Instants
  <2>2. input \in TimeStates /\ input.kind = "time"
    BY <1>2, <2>1 DEF TimeInputs, TimeStates
  <2> QED
    BY <2>2 DEF InputTypes
<1>3. CASE input \in TextInputs
  <2>1. input.text \in [neg : BOOLEAN, whole : Wholes, dot : {FALSE}, frac : {<<>>}]
    BY <1>3 DEF TextInputs
  <2>2. <<>> \in Seq(0 .. Other)
    OBVIOUS
  <2>3. input.text \in Texts
    BY <2>1, <2>2, WholesAreDigits DEF Texts
  <2>4. input \in TextStates /\ input.kind = "text"
    BY <1>3, <2>3 DEF TextInputs, TextStates
  <2> QED
    BY <2>4 DEF InputTypes
<1>4. CASE input \in RowInputs
  <2>1. PICK row \in Rows :
          input = [kind |-> "row", row |-> row,
                   value |-> [f \in RowFields(row) |-> CHOOSE x \in ColumnValues(f) : TRUE],
                   set |-> 0]
    BY <1>4 DEF RowInputs
  <2> DEFINE value == [f \in RowFields(row) |-> CHOOSE x \in ColumnValues(f) : TRUE]
  <2>2. \A f \in RowFields(row) : value[f] \in ColumnValues(f)
    BY ColumnsAreThere
  <2>3. value \in [RowFields(row) -> Given \cup Times \cup {ZeroTime}] /\ TimesInPlace(row, value)
    BY <2>2, ColumnsAreThere DEF TimesInPlace
  <2> HIDE DEF value
  <2>4. input.kind = "row" /\ input.row = row /\ input.value = value
    BY <2>1 DEF value
  <2>5. input \in RowStates(row)
    BY <2>1, <2>3 DEF RowStates, value
  <2> QED
    BY <2>3, <2>4, <2>5 DEF InputTypes
<1>5. CASE input \in ResultInputs
  <2>1. input.kind \in {"result", "limit"}
    BY <1>5 DEF ResultInputs
  <2> QED
    BY <1>5, <2>1 DEF InputTypes
<1>6. CASE input \in OrderInputs
  <2>1. PICK s \in Shapes :
          input = [kind |-> "order", shape |-> s, orders |-> <<NoOrder(s)>>, set |-> 0]
    BY <1>6 DEF OrderInputs
  <2>2. NoOrder(s) \in Structs(s)
    BY DEF NoOrder, Structs
  <2>3. <<NoOrder(s)>> \in Seq(Structs(s)) /\ Len(<<NoOrder(s)>>) = 1
    BY <2>2
  <2>4. input \in OrderStates(s) /\ input.kind = "order" /\ Len(input.orders) = 1
    BY <2>1, <2>3 DEF OrderStates
  <2> QED
    BY <2>4 DEF InputTypes
<1> QED
  BY <1>1, <1>2, <1>3, <1>4, <1>5, <1>6 DEF Inputs

\* An id that is changed is a text.
LEMMA EditIdTypes ==
  ASSUME InputTypes, EditId
  PROVE  InputTypes'
<1>1. input.kind = "id" /\ input \in IdStates
  BY Kinds DEF EditId
<1>2. PICK s \in EditsOf(input.id) : input' = [input EXCEPT !.id = s, !.edits = @ + 1]
  BY DEF EditId
<1>3. s \in Seq(Chars)
  BY <1>1, <1>2, EditsAreTexts DEF IdStates
<1> DEFINE n == input.edits + 1
<1>4. input.edits \in Nat
  BY <1>1 DEF IdStates
<1>5. n \in Nat
  BY <1>4
<1>6. input' = [input EXCEPT !.id = s, !.edits = n]
  BY <1>1, <1>2 DEF IdStates
<1> HIDE DEF n
<1>7. input' \in IdStates /\ input'.kind = "id"
  BY <1>1, <1>3, <1>5, <1>6 DEF IdStates
<1> QED
  BY <1>7 DEF InputTypes

\* A text that is made longer is one.
LEMMA ExtendTextTypes ==
  ASSUME InputTypes, ExtendText
  PROVE  InputTypes'
<1>1. input.kind = "text" /\ input \in TextStates /\ ~input.text.dot
  BY Kinds DEF ExtendText
<1> DEFINE text == input.text
<1>2. /\ text \in Texts /\ input.more \in Nat
      /\ text = [neg |-> text.neg, whole |-> text.whole, dot |-> FALSE, frac |-> <<>>]
      /\ text.neg \in BOOLEAN /\ text.whole \in Seq(0 .. Other)
  BY <1>1 DEF TextStates, Texts
<1>3. CASE input.more < MaxDigits /\ \E d \in {0, 1, 9, Other} :
             input' = [input EXCEPT !.text.whole = Append(@, d), !.more = @ + 1]
  <2>1. PICK d \in {0, 1, 9, Other} :
             input' = [input EXCEPT !.text.whole = Append(@, d), !.more = @ + 1]
    BY <1>3
  <2>2. d \in 0 .. Other
    BY DEF Other
  <2> DEFINE whole == Append(text.whole, d)
  <2>3. whole \in Seq(0 .. Other)
    BY <1>2, <2>2
  <2> HIDE DEF whole
  <2> DEFINE n == input.more + 1
  <2>4. n \in Nat /\ input' = [input EXCEPT !.text = [text EXCEPT !.whole = whole], !.more = n]
    BY <1>1, <1>2, <2>1 DEF whole, TextStates
  <2> HIDE DEF n
  <2>5. [text EXCEPT !.whole = whole] \in Texts
    BY <1>2, <2>3 DEF Texts
  <2>6. input' \in TextStates /\ input'.kind = "text"
    BY <1>1, <1>2, <2>4, <2>5 DEF TextStates
  <2> QED
    BY <2>6 DEF InputTypes
<1>4. CASE \E f \in Fractions : input' = [input EXCEPT !.text.dot = TRUE, !.text.frac = f]
  <2>1. PICK f \in Fractions : input' = [input EXCEPT !.text.dot = TRUE, !.text.frac = f]
    BY <1>4
  <2>2. f \in Seq(0 .. Other)
    BY InputsAssumption
  <2>4. input' = [input EXCEPT !.text = [text EXCEPT !.dot = TRUE, !.frac = f]]
    BY <1>1, <2>1 DEF TextStates
  <2>5. [text EXCEPT !.dot = TRUE, !.frac = f] \in Texts
    BY <1>2, <2>2 DEF Texts
  <2>6. input' \in TextStates /\ input'.kind = "text"
    BY <1>1, <1>2, <2>4, <2>5 DEF TextStates
  <2> QED
    BY <2>6 DEF InputTypes
<1> QED
  BY <1>3, <1>4 DEF ExtendText

\* A row keeps its columns, with a time where it needs one.
LEMMA SetColumnTypes ==
  ASSUME InputTypes, SetColumn
  PROVE  InputTypes'
<1> DEFINE row == input.row
<1>1. input.kind = "row" /\ row \in Rows /\ input \in RowStates(row)
  BY Kinds DEF SetColumn
<1>2. PICK f \in RowFields(row) : \E x \in ColumnValues(f) :
        input' = [input EXCEPT !.value[f] = x, !.set = @ + 1]
  BY DEF SetColumn
<1>3. PICK x \in ColumnValues(f) : input' = [input EXCEPT !.value[f] = x, !.set = @ + 1]
  BY <1>2
<1> DEFINE value == [input.value EXCEPT ![f] = x]
<1>4. input.value \in [RowFields(row) -> Given \cup Times \cup {ZeroTime}] /\ input.set \in Nat
  BY <1>1 DEF RowStates
<1>5. TimesInPlace(row, input.value)
  BY <1>1 DEF InputTypes
<1>6. x \in Given \cup Times \cup {ZeroTime} /\ (f \in TimeFields => x \in Times \cup {ZeroTime})
  BY ColumnsAreThere
<1>7. value \in [RowFields(row) -> Given \cup Times \cup {ZeroTime}] /\ TimesInPlace(row, value)
  BY <1>4, <1>5, <1>6 DEF TimesInPlace
<1> HIDE DEF value
<1> DEFINE n == input.set + 1
<1>8. n \in Nat /\ input' = [input EXCEPT !.value = value, !.set = n]
  BY <1>1, <1>3, <1>4 DEF value, RowStates
<1> HIDE DEF n
<1>9. input' \in RowStates(row) /\ input'.kind = "row" /\ input'.row = row /\ input'.value = value
  BY <1>1, <1>4, <1>7, <1>8 DEF RowStates
<1> QED
  BY <1>1, <1>7, <1>9 DEF InputTypes, TimesInPlace

\* An order that is changed is an order.
LEMMA SetFieldTypes ==
  ASSUME InputTypes, SetField
  PROVE  InputTypes'
<1> DEFINE shape == input.shape
           orders == input.orders
<1>1. input.kind = "order" /\ shape \in Shapes /\ input \in OrderStates(shape)
  BY Kinds DEF SetField
<1>2. PICK i \in DOMAIN orders, f \in Fields(shape), v \in Given :
        input' = [input EXCEPT !.orders[i][f] = v, !.set = @ + 1]
  BY DEF SetField
<1>3. orders \in Seq(Structs(shape)) /\ input.set \in Nat /\ Len(orders) >= 1
  BY <1>1 DEF OrderStates, InputTypes
<1> DEFINE new == [orders EXCEPT ![i] = [orders[i] EXCEPT ![f] = v]]
<1>4. new \in Seq(Structs(shape)) /\ Len(new) >= 1
  <2>1. orders[i] \in Structs(shape)
    BY <1>3
  <2>2. [orders[i] EXCEPT ![f] = v] \in Structs(shape)
    BY <2>1 DEF Structs
  <2> QED
    BY <1>3, <2>2
<1> HIDE DEF new
<1> DEFINE n == input.set + 1
<1>5. n \in Nat /\ input' = [input EXCEPT !.orders = new, !.set = n]
  BY <1>1, <1>2, <1>3 DEF OrderStates, new
<1> HIDE DEF n
<1>6. input' \in OrderStates(shape) /\ input'.kind = "order" /\ input'.orders = new
  BY <1>1, <1>3, <1>4, <1>5 DEF OrderStates
<1> QED
  BY <1>1, <1>4, <1>6 DEF InputTypes

\* A batch that grows is a batch.
LEMMA AddOrderTypes ==
  ASSUME InputTypes, AddOrder
  PROVE  InputTypes'
<1> DEFINE shape == input.shape
           orders == input.orders
<1>1. input.kind = "order" /\ shape \in Shapes /\ input \in OrderStates(shape) /\ shape = WsAddOrder
  BY Kinds DEF AddOrder
<1>2. input' = [input EXCEPT !.orders = Append(@, NoOrder(WsAddOrder))]
  BY DEF AddOrder
<1>3. orders \in Seq(Structs(shape)) /\ input.set \in Nat
  BY <1>1 DEF OrderStates
<1> DEFINE new == Append(orders, NoOrder(WsAddOrder))
<1>4. new \in Seq(Structs(shape)) /\ Len(new) >= 1
  <2>1. NoOrder(shape) \in Structs(shape)
    BY DEF NoOrder, Structs
  <2> QED
    BY <1>1, <1>3, <2>1
<1> HIDE DEF new
<1>5. input' = [input EXCEPT !.orders = new]
  BY <1>1, <1>2 DEF OrderStates, new
<1>6. input' \in OrderStates(shape) /\ input'.kind = "order" /\ input'.orders = new
  BY <1>1, <1>3, <1>4, <1>5 DEF OrderStates
<1> QED
  BY <1>1, <1>4, <1>6 DEF InputTypes

\* Every input stays well formed, however long it is changed (clordid.go, json_time.go,
\* market.go, trade.go: what the algorithms may be given).
THEOREM InputInvariant == InputSpec => []InputTypes
<1>1. input \in Inputs => InputTypes
  BY InputStart
<1>2. InputTypes /\ [Change]_input => InputTypes'
  <2> SUFFICES ASSUME InputTypes, [Change]_input PROVE InputTypes'
    OBVIOUS
  <2>1. CASE Change
    BY <2>1, EditIdTypes, ExtendTextTypes, SetColumnTypes, SetFieldTypes, AddOrderTypes DEF Change
  <2>2. CASE UNCHANGED input
    BY <2>2 DEF InputTypes, TimesInPlace
  <2> QED
    BY <2>1, <2>2
<1> QED
  BY <1>1, <1>2, PTL DEF InputSpec

\* A row is read back column by column: it is written in the order it is read in, with as many
\* columns as it must have, none of them twice.
ReadsInOrder(row) ==
  /\ row.written = row.read /\ row.want = Len(row.read) /\ row.want \in Nat \ {0}
  /\ DOMAIN row.read = 1 .. row.want
  /\ \A i, j \in DOMAIN row.read : row.read[i] = row.read[j] => i = j

\* Every row of market.go is written and read like that.
LEMMA RowsReadInOrder == \A row \in Rows : ReadsInOrder(row)
<1>1. ReadsInOrder(FeeTier)
  BY DEF ReadsInOrder, Row, FeeTier
<1>2. ReadsInOrder(TickerLevel)
  BY DEF ReadsInOrder, Row, TickerLevel
<1>3. ReadsInOrder(TickerLastTrade)
  BY DEF ReadsInOrder, Row, TickerLastTrade
<1>4. ReadsInOrder(TickerWindow) /\ ReadsInOrder(TickerCountWindow)
  BY DEF ReadsInOrder, Row, TickerWindow, TickerCountWindow
<1>5. ReadsInOrder(Candle)
  BY DEF ReadsInOrder, Row, Candle
<1>6. ReadsInOrder(BookEntry)
  BY DEF ReadsInOrder, Row, BookEntry
<1>7. ReadsInOrder(Trade)
  BY DEF ReadsInOrder, Row, Trade
<1>8. ReadsInOrder(Spread)
  BY DEF ReadsInOrder, Row, Spread
<1> QED
  BY <1>1, <1>2, <1>3, <1>4, <1>5, <1>6, <1>7, <1>8, Zenon DEF Rows

\* An array by its elements.
LEMMA TupleIs ==
  ASSUME NEW n \in Nat, NEW a, a = [i \in 1 .. n |-> a[i]]
  PROVE  a \in Seq({a[i] : i \in 1 .. n}) /\ Len(a) = n
<1> DEFINE S == {a[i] : i \in 1 .. n}
<1>1. \A i \in 1 .. n : a[i] \in S
  OBVIOUS
<1> HIDE DEF S
<1> DEFINE b == [i \in 1 .. n |-> a[i]]
<1>2. b \in Seq(S) /\ Len(b) = n
  BY <1>1
<1>3. a = b
  OBVIOUS
<1> QED
  BY <1>2, <1>3 DEF S

\* What is written of a row is read back; without its first column, or twice, it is refused.
LEMMA RowReadsBack ==
  ASSUME NEW row, ReadsInOrder(row), NEW v, DOMAIN v = RowFields(row), TimesInPlace(row, v)
  PROVE  LET array == EncodeColumns(row, v)
         IN  /\ DecodeColumns(row, array) =
                  {[f \in RowFields(row) |->
                      IF f \in TimeFields /\ v[f] = Epoch THEN ZeroTime ELSE v[f]]}
             /\ DecodeColumns(row, Tail(array)) = {}
             /\ DecodeColumns(row, array \o array) = {}
<1> DEFINE array == EncodeColumns(row, v)
           at(f) == CHOOSE i \in DOMAIN row.read : row.read[i] = f
           Column(a, f) == a[at(f)]
           Decoded(a, f) ==
             IF f \in TimeFields THEN UnmarshalUnixTime(Column(a, f)) ELSE {Column(a, f)}
           back(f) == IF f \in TimeFields /\ v[f] = Epoch THEN ZeroTime ELSE v[f]
<1>1. /\ DOMAIN array = 1 .. row.want /\ row.want \in Nat \ {0}
      /\ \A i \in DOMAIN array :
           array[i] = IF row.read[i] \in TimeFields THEN MarshalUnixTime(v[row.read[i]])
                      ELSE v[row.read[i]]
  BY DEF ReadsInOrder, EncodeColumns
<1>2. array \in Seq({array[i] : i \in 1 .. row.want}) /\ Len(array) = row.want
  <2>1. array = [i \in 1 .. row.want |-> array[i]]
    BY <1>1 DEF EncodeColumns
  <2> HIDE DEF array
  <2> QED
    BY <1>1, <2>1, TupleIs
<1>3. ASSUME NEW f \in RowFields(row)
      PROVE  Decoded(array, f) = {back(f)}
  <2>1. at(f) \in DOMAIN row.read /\ row.read[at(f)] = f
    BY DEF RowFields
  <2>2. Column(array, f) = IF f \in TimeFields THEN MarshalUnixTime(v[f]) ELSE v[f]
    <3> HIDE DEF at, array
    <3> QED
      BY <1>1, <2>1 DEF ReadsInOrder
  <2> HIDE DEF at, array, Column
  <2>3. CASE f \in TimeFields
    <3>1. v[f] \in Times \cup {ZeroTime}
      BY <2>3 DEF TimesInPlace
    <3>2. UnmarshalUnixTime(MarshalUnixTime(v[f])) = {IF v[f] = Epoch THEN ZeroTime ELSE v[f]}
      BY <3>1, UnixTimeReadsBack
    <3> QED
      BY <2>2, <2>3, <3>2
  <2> QED
    BY <2>2, <2>3
<1>4. DecodeColumns(row, array) = {[f \in RowFields(row) |-> back(f)]}
  <2>1. Len(array) = row.want /\ \A f \in RowFields(row) : Decoded(array, f) # {}
    BY <1>2, <1>3
  <2>2. DecodeColumns(row, array) =
          {[f \in RowFields(row) |-> CHOOSE x \in Decoded(array, f) : TRUE]}
    BY <2>1, Zenon DEF DecodeColumns
  <2>3. \A f \in RowFields(row) : (CHOOSE x \in Decoded(array, f) : TRUE) = back(f)
    <3> HIDE DEF Decoded, back
    <3> QED
      BY <1>3
  <2> HIDE DEF Decoded, back, array
  <2> QED
    BY <2>2, <2>3
<1>5. ASSUME NEW a, Len(a) # row.want
      PROVE  DecodeColumns(row, a) = {}
  BY <1>5 DEF DecodeColumns
<1>6. Len(Tail(array)) = row.want - 1 /\ Len(array \o array) = row.want + row.want
  <2> HIDE DEF array
  <2> QED
    BY <1>1, <1>2
<1>7. Len(Tail(array)) # row.want /\ Len(array \o array) # row.want
  BY <1>1, <1>6
<1>8. DecodeColumns(row, Tail(array)) = {} /\ DecodeColumns(row, array \o array) = {}
  BY <1>5, <1>7, Zenon
<1> QED
  BY <1>4, <1>8, Zenon

\* A pair's rows and the cursor are told apart.
LEMMA ResultReadsBack ==
  ASSUME NEW pair \in {"XBTUSD", ""}, NEW payload, NEW last
  PROVE  SplitResultLast(Result(pair, payload, last), Zero) =
           {[pair |-> pair, payload |-> payload, last |-> last]}
<1> DEFINE object == Result(pair, payload, last)
<1>1. /\ DOMAIN object = {pair, "last"} /\ pair # "last"
      /\ object[pair] = payload /\ object["last"] = last
  BY DEF Result
<1> HIDE DEF object
<1>2. DOMAIN object \ {"last"} = {pair}
  BY <1>1
<1>3. SplitResultLast(object, Zero) =
        {[pair |-> p, payload |-> object[p], last |-> last] : p \in {pair}}
  BY <1>1, <1>2 DEF SplitResultLast
<1>4. SplitResultLast(object, Zero) = {[pair |-> pair, payload |-> payload, last |-> last]}
  BY <1>1, <1>3
<1> QED
  BY <1>4 DEF object

\* A limit is written as something that reads as the same limit.
LEMMA LimitReadsBack ==
  ASSUME NEW json
  PROVE  LET m == DecodeLimit(json, Zero)
         IN  DecodeLimit(EncodeLimit(m, Zero), Zero) = m
BY DEF DecodeLimit, EncodeLimit

---------------------------------------------------------------------------

\* The check of a client order id accepts the documented forms and no other text, for any number
\* of changes (clordid.go, lines 27-79).
THEOREM IdsAreChecked == InputSpec => []ClOrdIDForms
<1>1. InputTypes => ClOrdIDForms
  <2> SUFFICES ASSUME InputTypes, input.kind = "id"
               PROVE  ValidateClOrdID(input.id) <=> DocumentedForm(input.id)
    BY DEF ClOrdIDForms
  <2>1. input.id \in Seq(Chars)
    BY Kinds DEF IdStates
  <2> QED
    BY <2>1, ValidExactly
<1> QED
  BY <1>1, InputInvariant, PTL

\* An instant reads back exactly in every unit, for any width of a word and any precision of a
\* second (common/json_time.go, lines 159-194).
THEOREM TimesSurvive == InputSpec => []TimesRoundTrip
<1>1. InputTypes => TimesRoundTrip
  <2> SUFFICES ASSUME InputTypes, input.kind = "time"
               PROVE  TimesRoundTrip
    BY DEF TimesRoundTrip
  <2> DEFINE t == input.time
             unit == input.unit
  <2>1. t \in Times \cup {ZeroTime} /\ unit \in Units
    BY Kinds DEF TimeStates
  <2>2. t # ZeroTime => /\ Meaning(AppendTime(t, unit), unit) = t
                        /\ ParseTime(AppendTime(t, unit), unit) = {t}
    BY <2>1, AppendTimeExact
  <2>3. UnmarshalUnixTime(MarshalUnixTime(t)) = {IF t = Epoch THEN ZeroTime ELSE t}
    BY <2>1, UnixTimeReadsBack
  <2> QED
    BY <2>2, <2>3, Zenon DEF TimesRoundTrip
<1> QED
  BY <1>1, InputInvariant, PTL

\* A text of any length is read as what it means, or is an error (common/json_timeunix.go,
\* lines 43-74).
THEOREM TextsAreExact == InputSpec => []TextsExact
<1>1. InputTypes => TextsExact
  <2> SUFFICES ASSUME InputTypes, input.kind = "text"
               PROVE  TextsExact
    BY DEF TextsExact
  <2> DEFINE text == input.text
             unit == input.unit
  <2>1. text \in Texts /\ unit \in Units
    BY Kinds DEF TextStates
  <2>2. LET fits == /\ IsNumber(text)
                    /\ Len(text.whole) <= UintWidth + Log10(unit)
                    /\ Meaning(text, unit) \in Times
                    /\ text.neg => Meaning(text, unit).sec < 0
        IN  ParseTime(text, unit) = IF fits THEN {Meaning(text, unit)} ELSE {}
    BY <2>1, ParseTimeExact, Zenon
  <2> QED
    BY <2>2, Zenon DEF TextsExact
<1> QED
  BY <1>1, InputInvariant, PTL

\* What is written of an order, a batch of any length, a row, a result or a limit reads back as
\* the same (trade.go, ws_trade.go, market.go, types.go).
THEOREM StructsSurvive == InputSpec => []StructsReadBack
<1>1. InputTypes => StructsReadBack
  <2> SUFFICES ASSUME InputTypes PROVE StructsReadBack
    OBVIOUS
  <2>1. CASE input.kind = "order"
    <3> DEFINE shape == input.shape
               orders == input.orders
    <3>1. shape \in Shapes /\ orders \in Seq(Structs(shape)) /\ Len(orders) >= 1
      BY <2>1, Kinds DEF OrderStates, InputTypes
    <3>2. CASE shape = WsAddOrder
      <4>1. ReadBatchAdd(BatchAdd(Symbol, orders)) =
              [i \in DOMAIN orders |-> [orders[i] EXCEPT !.Symbol = Symbol]]
        BY <3>1, <3>2, WsOrdersReadBack
      <4> QED
        BY <2>1, <3>2, <4>1, Zenon DEF StructsReadBack
    <3>3. CASE shape # WsAddOrder
      <4>1. Apart(shape)
        BY <3>1, BatchOrderApart, WsOrdersApart DEF Shapes
      <4>2. orders[1] \in Structs(shape)
        BY <3>1
      <4>3. Read(shape, Params(shape, orders[1])) = orders[1]
        BY <4>1, <4>2, ReadParams
      <4> QED
        BY <2>1, <3>3, <4>3, Zenon DEF StructsReadBack
    <3> QED
      BY <3>2, <3>3
  <2>2. CASE input.kind = "row"
    <3>1. input.row \in Rows /\ TimesInPlace(input.row, input.value)
      BY <2>2, Kinds DEF InputTypes
    <3>2. DOMAIN input.value = RowFields(input.row)
      BY <2>2, Kinds DEF RowStates
    <3>3. ReadsInOrder(input.row)
      BY <3>1, RowsReadInOrder
    <3> QED
      BY <2>2, <3>1, <3>2, <3>3, RowReadsBack, Zenon DEF StructsReadBack
  <2>3. CASE input.kind = "result"
    <3>1. input.pair \in {"XBTUSD", ""}
      BY <2>3, Kinds DEF ResultInputs
    <3> QED
      BY <2>3, <3>1, ResultReadsBack DEF StructsReadBack
  <2>4. CASE input.kind = "limit"
    BY <2>4, LimitReadsBack DEF StructsReadBack
  <2> QED
    BY <2>1, <2>2, <2>3, <2>4, Zenon DEF StructsReadBack
<1> QED
  BY <1>1, InputInvariant, PTL
=============================================================================
