------------------------------- MODULE Nonce -------------------------------
(***************************************************************************)
(* The default nonce generator (newNonceFn of client/options.go) under the *)
(* signed requests that draw from it: goroutines run its compare-and-swap  *)
(* loop, then send; the wire reorders what they send; the wall clock is    *)
(* set forward and back; the process restarts.  Every Client has its own   *)
(* generator, and there are often two on one key: the one a program makes, *)
(* and the one kraken.NewWebSocketClient (src/ws.go) makes for itself.     *)
(*                                                                         *)
(* Outside the module's sources: the endpoint, which accepts a nonce when  *)
(* it is greater than all it accepted for the key.                         *)
(***************************************************************************)
EXTENDS Naturals

CONSTANTS
  Requests, Clients,
  NoClient,      \* a request that has not begun
  MaxTime,       \* bound: readings of the wall clock
  MaxRestarts    \* bound

ASSUME ClientsAssumption == NoClient \notin Clients
ASSUME BoundsAssumption == MaxTime \in Nat \ {0} /\ MaxRestarts \in Nat

VARIABLES
  clock,            \* the wall clock
  last,             \* each generator's atomic floor
  pc, client,       \* each request: its place, whose generator it draws from
  n, prev,          \* the locals of the loop
  nonce,            \* what it drew
  seen,             \* endpoint: the greatest nonce it accepted
  old, restarts,    \* history: the greatest floor each client had in earlier lives
  alone, behind     \* history: no other request was under way; another generator was ahead

drawVars == <<last, n, prev, nonce, behind>>
vars == <<clock, drawVars, pc, client, seen, old, restarts, alone>>

Drawing == {"load", "swap"}
Active  == {r \in Requests : pc[r] \in Drawing \cup {"drawn", "wire"}}

TypeOK ==
  /\ clock \in 1 .. MaxTime
  /\ last \in [Clients -> Nat] /\ old \in [Clients -> Nat]
  /\ pc \in [Requests -> Drawing \cup {"idle", "drawn", "wire", "accepted", "rejected", "lost"}]
  /\ client \in [Requests -> Clients \cup {NoClient}]
  /\ n \in [Requests -> Nat] /\ prev \in [Requests -> Nat] /\ nonce \in [Requests -> Nat]
  /\ seen \in Nat
  /\ restarts \in 0 .. MaxRestarts
  /\ alone \in [Requests -> BOOLEAN] /\ behind \in [Requests -> BOOLEAN]
  /\ \A r \in Requests :
       /\ pc[r] \in Drawing => client[r] \in Clients /\ n[r] > 0 /\ nonce[r] = 0
       /\ pc[r] = "idle" => nonce[r] = 0
       /\ pc[r] = "swap" => n[r] > prev[r]

Init ==
  /\ clock = 1
  /\ last = [c \in Clients |-> 0] /\ old = [c \in Clients |-> 0]
  /\ pc = [r \in Requests |-> "idle"]
  /\ client = [r \in Requests |-> NoClient]
  /\ n = [r \in Requests |-> 0] /\ prev = [r \in Requests |-> 0]
  /\ nonce = [r \in Requests |-> 0]
  /\ seen = 0 /\ restarts = 0
  /\ alone = [r \in Requests |-> FALSE] /\ behind = [r \in Requests |-> FALSE]

---------------------------------------------------------------------------
\* The loop of newNonceFn, in the goroutine of request r.

\* prepare asks for a nonce: the first time.Now().
Begin(r) ==
  /\ pc[r] = "idle"
  /\ \E c \in Clients : client' = [client EXCEPT ![r] = c]
  /\ n' = [n EXCEPT ![r] = clock]
  /\ pc' = [pc EXCEPT ![r] = "load"]
  /\ alone' = [q \in Requests |-> IF q = r THEN Active = {} ELSE alone[q] /\ q \notin Active]
  /\ UNCHANGED <<clock, last, prev, nonce, behind, seen, old, restarts>>

\* Mutation: a clock that did not advance is not corrected by the floor.
Load_noFloor(r) ==
  /\ pc[r] = "load"
  /\ prev' = [prev EXCEPT ![r] = last[client[r]]]
  /\ pc' = [pc EXCEPT ![r] = "swap"]
  /\ UNCHANGED <<clock, last, n, nonce, behind, client, seen, old, restarts, alone>>

Load(r) ==
  /\ pc[r] = "load"
  /\ LET p == last[client[r]] IN
       /\ prev' = [prev EXCEPT ![r] = p]
       /\ n' = [n EXCEPT ![r] = IF @ <= p THEN p + 1 ELSE @]
  /\ pc' = [pc EXCEPT ![r] = "swap"]
  /\ UNCHANGED <<clock, last, nonce, behind, client, seen, old, restarts, alone>>

\* The value drawn is not above what another generator of the key handed out: one of an
\* earlier life, or another Client's.
Outrun(r) ==
  \E c \in Clients : n[r] <= old[c] \/ (c # client[r] /\ n[r] <= last[c])

\* Mutation: a plain store in place of the compare-and-swap.
SwapSucceeds_store(r) ==
  /\ pc[r] = "swap"
  /\ last' = [last EXCEPT ![client[r]] = n[r]]
  /\ nonce' = [nonce EXCEPT ![r] = n[r]]
  /\ behind' = [behind EXCEPT ![r] = Outrun(r)]
  /\ pc' = [pc EXCEPT ![r] = "drawn"]
  /\ UNCHANGED <<clock, n, prev, client, seen, old, restarts, alone>>

SwapSucceeds(r) ==
  /\ pc[r] = "swap" /\ last[client[r]] = prev[r]
  /\ last' = [last EXCEPT ![client[r]] = n[r]]
  /\ nonce' = [nonce EXCEPT ![r] = n[r]]
  /\ behind' = [behind EXCEPT ![r] = Outrun(r)]
  /\ pc' = [pc EXCEPT ![r] = "drawn"]
  /\ UNCHANGED <<clock, n, prev, client, seen, old, restarts, alone>>

\* Mutation: a failed swap is repeated with the same floor.
SwapFails_noReload(r) ==
  /\ pc[r] = "swap" /\ last[client[r]] # prev[r]
  /\ UNCHANGED vars

\* Another request of the client moved the floor: the loop starts over with a new reading.
SwapFails(r) ==
  /\ pc[r] = "swap" /\ last[client[r]] # prev[r]
  /\ n' = [n EXCEPT ![r] = clock]
  /\ pc' = [pc EXCEPT ![r] = "load"]
  /\ UNCHANGED <<clock, last, prev, nonce, behind, client, seen, old, restarts, alone>>

---------------------------------------------------------------------------
\* Signing and sending: prepare has put the nonce into the request it signs.

Send(r) ==
  /\ pc[r] = "drawn"
  /\ pc' = [pc EXCEPT ![r] = "wire"]
  /\ UNCHANGED <<clock, drawVars, client, seen, old, restarts, alone>>

\* The request reaches the endpoint, in whatever order the connections deliver.
Arrive(r) ==
  /\ pc[r] = "wire"
  /\ IF nonce[r] > seen
       THEN seen' = nonce[r] /\ pc' = [pc EXCEPT ![r] = "accepted"]
       ELSE pc' = [pc EXCEPT ![r] = "rejected"] /\ UNCHANGED seen
  /\ UNCHANGED <<clock, drawVars, client, old, restarts, alone>>

Lose(r) ==
  /\ pc[r] = "wire"
  /\ pc' = [pc EXCEPT ![r] = "lost"]
  /\ UNCHANGED <<clock, drawVars, client, seen, old, restarts, alone>>

---------------------------------------------------------------------------
\* The wall clock advances, or is set to any other time.
SetClock ==
  /\ \E t \in 1 .. MaxTime : clock' = t
  /\ UNCHANGED <<drawVars, pc, client, seen, old, restarts, alone>>

\* The process starts over, which takes some time: generators begin at 0, goroutines are gone,
\* requests on the wire are not.
Restart ==
  /\ restarts < MaxRestarts /\ clock < MaxTime
  /\ clock' = clock + 1
  /\ restarts' = restarts + 1
  /\ old' = [c \in Clients |-> IF last[c] > old[c] THEN last[c] ELSE old[c]]
  /\ last' = [c \in Clients |-> 0]
  /\ pc' = [r \in Requests |-> IF pc[r] \in Drawing \cup {"drawn"} THEN "lost" ELSE pc[r]]
  /\ UNCHANGED <<n, prev, nonce, behind, client, seen, alone>>

Draw(r) == Begin(r) \/ Load(r) \/ SwapSucceeds(r) \/ SwapFails(r)

Next ==
  \/ \E r \in Requests : Draw(r) \/ Send(r) \/ Arrive(r) \/ Lose(r)
  \/ SetClock \/ Restart

Spec == Init /\ [][Next]_vars

\* A goroutine in the loop runs; nothing else has to happen.
FairSpec ==
  Spec /\ \A r \in Requests : WF_vars(Load(r) \/ SwapSucceeds(r) \/ SwapFails(r))

---------------------------------------------------------------------------
\* Correctness.

\* The loop draws as if it were atomic, and what a generator hands out strictly increases,
\* whatever the clock does (options.go, lines 52-66).
Source == INSTANCE NonceSource
ImplementsSource == Source!Spec

\* A request that had the key to itself is never rejected for its nonce, unless another
\* generator of the key, an earlier life's or another Client's, had handed out as much.
LoneRequestAccepted ==
  \A r \in Requests : alone[r] /\ ~behind[r] => pc[r] # "rejected"

\* The loop ends, although every failed swap repeats it.
DrawReturns ==
  \A r \in Requests : pc[r] \in Drawing ~> pc[r] \notin Drawing

\* "nonces keep increasing across process restarts" (options.go, line 49).
IncreasingAcrossRestarts ==
  \A c \in Clients : last[c] # 0 => last[c] > old[c]
=============================================================================
