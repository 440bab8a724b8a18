----------------------------- MODULE Algorithms -----------------------------
(***************************************************************************)
(* The SDK's pure algorithms against what they are for.  The state is one  *)
(* input, which each step makes a little longer or changes in one place:   *)
(* a client order id, an instant, a text of digits, a row, an order.       *)
(***************************************************************************)
EXTENDS OrderEncoding, Rows, ClOrdID, SequencesExt

CONSTANTS
  Numbers,        \* whole numbers to make instants and texts of, about the limits of a word
  Nanoseconds,    \* nanoseconds of an instant
  Fractions,      \* what may follow the point of a text
  Symbol,         \* the symbol of a batch
  MaxEdits,       \* bound: changes to an id
  MaxDigits,      \* bound: digits added to a number
  MaxFields       \* bound: fields of an order that are set

ASSUME InputsAssumption ==
  /\ Numbers \subseteq Nat /\ Nanoseconds \subseteq 0 .. Second - 1
  /\ Fractions \subseteq Seq(0 .. Other) /\ Given # {}
  /\ {MaxEdits, MaxDigits, MaxFields} \subseteq Nat

VARIABLE input

---------------------------------------------------------------------------
\* Client order ids: one of each documented form, then changed here and there.

Repeat(c, n) == [i \in 1 .. n |-> c]

UUID == [i \in 1 .. 36 |-> IF i \in {9, 14, 19, 24} THEN "hyphen" ELSE "digit"]

Ids == {<<>>, UUID, Repeat("a-f", 32), Repeat("g-z", 18), Repeat("digit", 17)}

\* A character put in, taken out or replaced.
EditsOf(s) ==
  (UNION {{InsertAt(s, i, c) : c \in {"hyphen", "A-F"}} : i \in 1 .. Len(s) + 1})
  \cup (UNION {{[s EXCEPT ![i] = c] : c \in {"hyphen", "a-f", "G-Z"}} : i \in DOMAIN s})
  \cup {RemoveAt(s, i) : i \in DOMAIN s}

IdInputs == [kind : {"id"}, id : Ids, edits : {0}]

EditId ==
  /\ input.kind = "id" /\ input.edits < MaxEdits
  /\ \E s \in EditsOf(input.id) : input' = [input EXCEPT !.id = s, !.edits = @ + 1]

---------------------------------------------------------------------------
\* Instants and texts of digits.

Instants ==
  {t \in {Time(sec, nsec) : sec \in Numbers \cup {-n : n \in Numbers}, nsec \in Nanoseconds} :
     t \in Times}

TimeInputs == [kind : {"time"}, time : Instants \cup {ZeroTime}, unit : Units]

Wholes == {<<>>} \cup {Digits(n) : n \in {n \in Numbers : n < Word}}

TextInputs ==
  [kind : {"text"}, unit : Units, more : {0},
   text : [neg : BOOLEAN, whole : Wholes, dot : {FALSE}, frac : {<<>>}]]

\* Another digit before the point, or the point and what follows it.
ExtendText ==
  /\ input.kind = "text" /\ ~input.text.dot
  /\ \/ /\ input.more < MaxDigits
        /\ \E d \in {0, 1, 9, Other} :
             input' = [input EXCEPT !.text.whole = Append(@, d), !.more = @ + 1]
     \/ \E f \in Fractions :
          input' = [input EXCEPT !.text.dot = TRUE, !.text.frac = f]

---------------------------------------------------------------------------
\* Rows, results and limits.

ColumnValues(f) ==
  IF f \in TimeFields THEN {ZeroTime, Epoch, Time(1, 1), Time(-1, Second - 1)} ELSE Given

RowInputs ==
  {[kind |-> "row", row |-> row,
    value |-> [f \in RowFields(row) |-> CHOOSE x \in ColumnValues(f) : TRUE], set |-> 0] : row \in Rows}

SetColumn ==
  /\ input.kind = "row" /\ input.set < MaxFields
  /\ \E f \in RowFields(input.row) : \E x \in ColumnValues(f) :
       input' = [input EXCEPT !.value[f] = x, !.set = @ + 1]

\* A pair's rows and the cursor, as the exchange sends them.
Result(pair, payload, last) ==
  [name \in {pair, "last"} |-> IF name = "last" THEN last ELSE payload]

ResultInputs ==
  [kind : {"result"}, pair : {"XBTUSD", ""}, payload : Given, last : Given]
  \cup [kind : {"limit"}, json : {"false", "null", "true"} \cup Given \cup {Zero}]

---------------------------------------------------------------------------
\* Orders, alone or in a batch.

Shapes == {BatchOrder, WsAddOrder, WsAmendOrder, WsEditOrder}
NoOrder(shape) == [f \in Fields(shape) |-> Zero]

OrderInputs == {[kind |-> "order", shape |-> s, orders |-> <<NoOrder(s)>>, set |-> 0] : s \in Shapes}

SetField ==
  /\ input.kind = "order" /\ input.set < MaxFields
  /\ \E i \in DOMAIN input.orders, f \in Fields(input.shape), v \in Given :
       input' = [input EXCEPT !.orders[i][f] = v, !.set = @ + 1]

AddOrder ==
  /\ input.kind = "order" /\ input.shape = WsAddOrder /\ Len(input.orders) < 2
  /\ input' = [input EXCEPT !.orders = Append(@, NoOrder(WsAddOrder))]

---------------------------------------------------------------------------
Inputs ==
  IdInputs \cup TimeInputs \cup TextInputs \cup RowInputs \cup ResultInputs \cup OrderInputs

Change == EditId \/ ExtendText \/ SetColumn \/ SetField \/ AddOrder

InputSpec == input \in Inputs /\ [][Change]_input

---------------------------------------------------------------------------
\* Correctness.

\* The check of a client order id accepts the documented forms and no other text, whichever
\* character of one of them is changed, added or missing (clordid.go, lines 8-14).
ClOrdIDForms == input.kind = "id" => (ValidateClOrdID(input.id) <=> DocumentedForm(input.id))

\* An instant of either sign is written as the number that means it, and read back exactly in
\* every unit; only the epoch, written as a time that is not set, reads as one (json_time.go,
\* lines 159-194).
TimesRoundTrip ==
  input.kind = "time" =>
    LET t == input.time
    IN  /\ t # ZeroTime =>
             /\ Meaning(AppendTime(t, input.unit), input.unit) = t
             /\ ParseTime(AppendTime(t, input.unit), input.unit) = {t}
        /\ UnmarshalUnixTime(MarshalUnixTime(t)) = {IF t = Epoch THEN ZeroTime ELSE t}

\* A text is read as what it means, to the nanosecond below, and is an error when it is not a
\* number, is no instant that fits, or is a negative zero; the way around the overflow of a word
\* makes no difference (json_timeunix.go, lines 43-74).
TextsExact ==
  input.kind = "text" =>
    LET text  == input.text
        fits  == /\ IsNumber(text)
                 /\ Len(text.whole) <= UintWidth + Log10(input.unit)
                 /\ Meaning(text, input.unit) \in Times
                 /\ text.neg => Meaning(text, input.unit).sec < 0
    IN  ParseTime(text, input.unit) = IF fits THEN {Meaning(text, input.unit)} ELSE {}

\* What is written of an order, a row, a result or a limit reads back as the same: no two fields
\* share a parameter, columns are read in the order they are written in, and a row of another
\* length is refused (trade.go, ws_trade.go, market.go, types.go).
StructsReadBack ==
  CASE input.kind = "order" ->
         IF input.shape = WsAddOrder
         THEN ReadBatchAdd(BatchAdd(Symbol, input.orders)) =
                [i \in DOMAIN input.orders |-> [input.orders[i] EXCEPT !.Symbol = Symbol]]
         ELSE Read(input.shape, Params(input.shape, input.orders[1])) = input.orders[1]
    [] input.kind = "row" ->
         LET array == EncodeColumns(input.row, input.value)
         IN  /\ DecodeColumns(input.row, array) =
                  {[f \in RowFields(input.row) |->
                      IF f \in TimeFields /\ input.value[f] = Epoch THEN ZeroTime
                      ELSE input.value[f]]}
             /\ DecodeColumns(input.row, Tail(array)) = {}
             /\ DecodeColumns(input.row, array \o array) = {}
    [] input.kind = "result" ->
         SplitResultLast(Result(input.pair, input.payload, input.last), Zero) =
           {[pair |-> input.pair, payload |-> input.payload, last |-> input.last]}
    [] input.kind = "limit" ->
         LET m == DecodeLimit(input.json, Zero)
         IN  DecodeLimit(EncodeLimit(m, Zero), Zero) = m
    [] OTHER -> TRUE
=============================================================================
