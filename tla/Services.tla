------------------------------ MODULE Services ------------------------------
(***************************************************************************)
(* One service of the SDK in the hands of a program: constructed, told     *)
(* things by its setters, and asked to Do, any number of times and in any  *)
(* order.  A service is a map of parameters that its setters write and     *)
(* every Do copies into a new request (request/request.go, request/ws.go). *)
(***************************************************************************)
EXTENDS OrderEncoding

CONSTANTS
  Catalog,        \* the endpoints, as module Endpoints describes them
  Empty,          \* the empty text
  Unset,          \* no entry in the map
  Default,        \* the constants a constructor writes
  Args,           \* what else a constructor may be given
  NoRequest,
  Legs,           \* the orders a batch may be given
  MaxCalls,       \* bound: calls of setters
  MaxLegs         \* bound: orders in a batch

ASSUME MarkersAssumption ==
  /\ Empty \notin Given /\ Unset \notin Given /\ Empty # Unset
  /\ Default \in Given /\ Args \subseteq Given \cup {Empty}
ASSUME BoundsAssumption == MaxCalls \in Nat /\ MaxLegs \in Nat
ASSUME LegsAssumption == Legs \subseteq Structs(BatchOrder)
Setters(e)  == DOMAIN e.setters
Key(e, n)   == e.setters[n].key
GivenKeys(e) == {a.key : a \in e.given}
Keys(e)     == GivenKeys(e) \cup {Key(e, n) : n \in Setters(e)}

\* The setters that are one call, SetCloseOrder, and the prices it may leave out.
Close == {"CloseType", "ClosePrice", "ClosePrice2"}
CloseKeys == {"close[price]", "close[price2]"}

\* No two setters of a service write the same parameter.
KeysApart(e) == \A n, m \in Setters(e) : Key(e, n) = Key(e, m) => n = m

ClosesOrders(e) ==
  /\ Close \subseteq Setters(e)
  /\ Key(e, "CloseType") = "close[ordertype]"
  /\ Key(e, "ClosePrice") = "close[price]" /\ Key(e, "ClosePrice2") = "close[price2]"
  /\ \A n \in Close : Key(e, n) \notin GivenKeys(e)

ASSUME CatalogAssumption ==
  \A e \in Catalog :
    /\ KeysApart(e)
    /\ \A n \in Setters(e) : e.setters[n].kind \in {"text", "value", "fixed"}
    /\ IF e.extra = "close" THEN ClosesOrders(e) ELSE Close \cap Setters(e) = {}
    /\ e.extra = "consolidated" => "consolidation" \in Keys(e)
    /\ e.extra = "ids" => e.area # "channel"

VARIABLES
  endpoint,       \* what the service is for
  params,         \* its map
  legs,           \* its orders, or the ids it cancels
  wire,           \* the last request
  made, said,     \* history: what the constructor and each setter said last
  left,           \* history: parameters an operation left behind that no setter said
  calls           \* the setters called

vars == <<endpoint, params, legs, wire, made, said, left, calls>>

\* What an argument may be.
ArgValues(arg) ==
  CASE arg.kind = "text"  -> Given \cup {Empty}
    [] arg.kind = "value" -> Given
    [] arg.kind = "fixed" -> {Default}

Values == Given \cup {Empty, Unset}

\* What the legs of a service are: orders, ids, or none.
LegsOf(e) ==
  CASE e.extra = "orders" -> Legs
    [] e.extra = "ids"    -> Given \cup {Empty}
    [] OTHER              -> {}

TypeOK ==
  /\ endpoint \in Catalog
  /\ params \in [Keys(endpoint) -> Values]
  /\ made \in [GivenKeys(endpoint) -> Values]
  /\ said \in [Setters(endpoint) -> Values]
  /\ left \subseteq Keys(endpoint) \cap (CloseKeys \cup {"consolidation"})
  /\ calls \in 0 .. MaxCalls
  /\ legs \in Seq(LegsOf(endpoint))
  /\ wire # NoRequest => DOMAIN wire.params \subseteq Keys(endpoint) /\ wire.calls \in 0 .. calls

\* The constructor.
Init ==
  /\ endpoint \in Catalog
  /\ made \in [GivenKeys(endpoint) -> Args \cup {Default}]
  /\ \A a \in endpoint.given : made[a.key] \in ArgValues(a)
  /\ params = [k \in Keys(endpoint) |-> IF k \in GivenKeys(endpoint) THEN made[k] ELSE Unset]
  /\ IF endpoint.extra = "ids"
     THEN legs \in UNION {[1 .. n -> Given \cup {Empty}] : n \in 0 .. MaxLegs}
     ELSE legs = <<>>
  /\ wire = NoRequest
  /\ said = [n \in Setters(endpoint) |-> Unset]
  /\ left = {} /\ calls = 0

---------------------------------------------------------------------------
\* The setters.

\* Mutation: a list is written without being joined.
Set_unjoined(n) ==
  /\ calls < MaxCalls
  /\ \E v \in ArgValues(endpoint.setters[n]) :
       /\ params' = [params EXCEPT ![Key(endpoint, n)] = <<v>>]
       /\ said' = [said EXCEPT ![n] = v]
  /\ left' = left \ {Key(endpoint, n)}
  /\ calls' = calls + 1
  /\ UNCHANGED <<endpoint, legs, wire, made>>

Set(n) ==
  /\ calls < MaxCalls
  /\ \E v \in ArgValues(endpoint.setters[n]) :
       /\ params' = [params EXCEPT ![Key(endpoint, n)] = v]
       /\ said' = [said EXCEPT ![n] = v]
  /\ left' = left \ {Key(endpoint, n)}
  /\ calls' = calls + 1
  /\ UNCHANGED <<endpoint, legs, wire, made>>

\* A price that is zero (Unset here) writes nothing, and what is there stays.
SetCloseOrder ==
  /\ endpoint.extra = "close"
  /\ calls < MaxCalls
  /\ \E type \in Given \cup {Empty}, price, price2 \in Given \cup {Unset} :
       LET new == [CloseType |-> type, ClosePrice |-> price, ClosePrice2 |-> price2]
       IN  /\ said' = [n \in Setters(endpoint) |-> IF n \in Close THEN new[n] ELSE said[n]]
           /\ params' = [k \in Keys(endpoint) |->
                IF \E n \in Close : Key(endpoint, n) = k /\ new[n] # Unset
                THEN new[CHOOSE n \in Close : Key(endpoint, n) = k] ELSE params[k]]
           /\ left' = (left \ CloseKeys) \cup {k \in CloseKeys : \E n \in Close :
                Key(endpoint, n) = k /\ new[n] = Unset /\ params[k] # Unset}
  /\ calls' = calls + 1
  /\ UNCHANGED <<endpoint, legs, wire, made>>

\* AddOrderBatchService.AddOrder.
AddLeg ==
  /\ endpoint.extra = "orders"
  /\ Len(legs) < MaxLegs
  /\ calls < MaxCalls
  /\ \E o \in Legs : legs' = Append(legs, o)
  /\ calls' = calls + 1
  /\ UNCHANGED <<endpoint, params, wire, made, said, left>>

---------------------------------------------------------------------------
\* Do.

\* A request over HTTP drops empty values, a subscription sends the map as it is.
Dropped(v) == v = Unset \/ (endpoint.area # "channel" /\ v = Empty)

Sent(p) == [k \in {k \in Keys(endpoint) : ~Dropped(p[k])} |-> p[k]]

\* The parameters of a batch's legs.
SentLegs ==
  CASE endpoint.extra = "orders" -> BatchParams(legs)
    [] endpoint.extra = "ids"    -> Restrict(BatchIds(legs), {ik \in DOMAIN BatchIds(legs) :
                                                                ~Dropped(BatchIds(legs)[ik])})
    [] OTHER                     -> <<>>

Request(p) == [params |-> Sent(p), legs |-> SentLegs, calls |-> calls]

\* Mutation: the orders are taken out of the service.
Do_drains ==
  /\ wire' = Request(params)
  /\ legs' = <<>>
  /\ UNCHANGED <<endpoint, params, made, said, left, calls>>

\* Mutation: what was set is said once.
Do_forgets ==
  /\ wire' = Request(params)
  /\ params' = [k \in Keys(endpoint) |-> IF k \in GivenKeys(endpoint) THEN params[k] ELSE Unset]
  /\ UNCHANGED <<endpoint, legs, made, said, left, calls>>

\* The nonce and the token go into the request's own copy of the map.
Do ==
  /\ wire' = Request(params)
  /\ UNCHANGED <<endpoint, params, legs, made, said, left, calls>>

\* GetOpenPositionsService.DoConsolidated: the parameter stays for the calls that follow.
DoConsolidated ==
  /\ endpoint.extra = "consolidated"
  /\ params' = [params EXCEPT !["consolidation"] = Default]
  /\ left' = left \cup {"consolidation"}
  /\ wire' = Request(params')
  /\ UNCHANGED <<endpoint, legs, made, said, calls>>

Next ==
  \/ \E n \in Setters(endpoint) \ Close : Set(n)
  \/ SetCloseOrder \/ AddLeg
  \/ Do \/ DoConsolidated

Spec == Init /\ [][Next]_vars

---------------------------------------------------------------------------
\* Correctness.

\* What was said last of a parameter, by a setter or else by the constructor.
LastSaid(k) ==
  IF \E n \in Setters(endpoint) : Key(endpoint, n) = k /\ said[n] # Unset
  THEN said[CHOOSE n \in Setters(endpoint) : Key(endpoint, n) = k /\ said[n] # Unset]
  ELSE IF k \in GivenKeys(endpoint) THEN made[k] ELSE Unset

\* A request says what the setters and the constructor said last of each parameter, in whatever
\* order they were called and whatever was sent before, and it says nothing else: except the
\* market consolidation that DoConsolidated leaves to a later Do, and the prices of an earlier
\* SetCloseOrder that a later one was told to omit.
SaysWhatWasSaid ==
  [][wire' # wire =>
       \A k \in Keys(endpoint) \ left' :
         IF Dropped(LastSaid(k)) THEN k \notin DOMAIN wire'.params
         ELSE k \in DOMAIN wire'.params /\ wire'.params[k] = LastSaid(k)]_vars

\* A batch carries the orders that were added, in their order, each with its own parameters, and
\* ids at the places they were given.
CarriesItsLegs ==
  [][wire' # wire =>
       CASE endpoint.extra = "orders" -> ReadBatch(wire'.legs, Len(legs)) = legs
         [] endpoint.extra = "ids" ->
              \A i \in DOMAIN legs :
                IF legs[i] = Empty THEN <<i - 1, "">> \notin DOMAIN wire'.legs
                ELSE wire'.legs[<<i - 1, "">>] = legs[i]
         [] OTHER -> wire'.legs = <<>>]_vars

\* Calling Do again, after a request whose fate is not known, says the same again: nothing of a
\* request stays in the service, and nothing is taken out.
RepeatsItself ==
  [][Do /\ wire # NoRequest /\ wire.calls = calls => wire' = wire]_vars
=============================================================================
