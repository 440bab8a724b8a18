----------------------------- MODULE MCServices -----------------------------
(***************************************************************************)
(* The parts of the SDK one goroutine runs by itself, for TLC: a service   *)
(* of the catalog in use, an input to one of the pure algorithms, a        *)
(* program that builds clients, or a consumer of the book.  They share     *)
(* nothing, so one moves while the others rest.  A second has 1000         *)
(* nanoseconds and a word 20 bits.                                         *)
(***************************************************************************)
EXTENDS Services, Algorithms, ClientOptions, BookChecksum

SDK == INSTANCE Endpoints

MCCatalog == SDK!AllEndpoints

Leg(field, v) == [f \in Fields(BatchOrder) |-> IF f = field THEN v ELSE Zero]

MCLegs == {Leg("Price", v) : v \in Given} \cup {Leg("UserRef", Default)}

MCFractions == {<<>>, <<0>>, <<1>>, <<0, 0, 1>>, <<9, 9, 9>>, <<9, 9, 9, 9>>, <<Other>>, <<1, Other>>}

\* What moves: no input, so a service; a program; the book; or the input.
NoInput == [kind |-> "none"]
RestProgram == [kind |-> "rest"]
StreamProgram == [kind |-> "stream"]
BookProgram == [kind |-> "book"]

Programs == {RestProgram, StreamProgram, BookProgram}

MCInit ==
  /\ Init /\ OptionsInit /\ BookInit
  /\ \/ input = NoInput
     \/ endpoint = SDK!GetServerTime /\ input \in Inputs \cup Programs

MCNext ==
  \/ input = NoInput /\ Next /\ UNCHANGED <<input, optionVars, bookVars>>
  \/ Change /\ UNCHANGED <<vars, optionVars, bookVars>>
  \/ input = RestProgram /\ RestNext /\ UNCHANGED <<vars, input, bookVars>>
  \/ input = StreamProgram /\ StreamNext /\ UNCHANGED <<vars, input, bookVars>>
  \/ input = BookProgram /\ BookNext /\ UNCHANGED <<vars, input, optionVars>>

MCSpec == MCInit /\ [][MCNext]_<<vars, input, optionVars, bookVars>>
=============================================================================
