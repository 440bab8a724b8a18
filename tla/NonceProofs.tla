---------------------------- MODULE NonceProofs ----------------------------
(***************************************************************************)
(* Proofs about Nonce, for any sets of requests and clients: the compare-  *)
(* and-swap loop implements NonceSource, and a request that has the key to *)
(* itself is never rejected for its nonce.                                 *)
(***************************************************************************)
EXTENDS Nonce, TLAPS

Sent == {"drawn", "wire"}

\* A nonce the endpoint can have seen is one some generator handed out: every nonce under way,
\* and the greatest accepted, is bounded by a generator's floor, of this life or an earlier.
Bounded(v) == v = 0 \/ \E c \in Clients : v <= last[c] \/ v <= old[c]
BoundInv ==
  /\ Bounded(seen)
  /\ \A r \in Requests : pc[r] \in Sent => Bounded(nonce[r])

\* A request still alone is the only one under way; with no generator ahead of it, its nonce
\* is above the greatest the endpoint accepted.
AloneInv ==
  \A r \in Requests : alone[r] =>
    /\ r \in Active => \A q \in Active : q = r
    /\ pc[r] \in Sent /\ ~behind[r] => nonce[r] > seen
    /\ pc[r] = "rejected" => behind[r]

IInv == TypeOK /\ BoundInv /\ AloneInv

---------------------------------------------------------------------------
LEMMA InitIInv == Init => IInv
BY ClientsAssumption, BoundsAssumption
   DEF Init, IInv, TypeOK, BoundInv, Bounded, AloneInv, Active, Drawing, Sent

\* Type correctness, and the coupling of the loop's locals it contains, is inductive by itself.
LEMMA NextTypeOK == TypeOK /\ [Next]_vars => TypeOK'
<1> SUFFICES ASSUME TypeOK, [Next]_vars PROVE TypeOK'
  OBVIOUS
<1> USE ClientsAssumption, BoundsAssumption DEF TypeOK, Drawing
<1>1. ASSUME NEW r \in Requests, Begin(r) PROVE TypeOK'
  <2>1. alone' \in [Requests -> BOOLEAN]
    <3>1. \A q \in Requests :
            (IF q = r THEN Active = {} ELSE alone[q] /\ q \notin Active) \in BOOLEAN
      BY ZenonT(30)
    <3> QED
      BY <1>1, <3>1 DEF Begin
  <2>2. client' \in [Requests -> Clients \cup {NoClient}] /\ client'[r] \in Clients
    BY <1>1 DEF Begin
  <2> QED
    BY <1>1, <2>1, <2>2 DEF Begin
<1>2. ASSUME NEW r \in Requests, Load(r) PROVE TypeOK'
  BY <1>2 DEF Load
<1>3. ASSUME NEW r \in Requests, SwapSucceeds(r) PROVE TypeOK'
  <2>1. Outrun(r) \in BOOLEAN
    BY DEF Outrun
  <2>2. behind' \in [Requests -> BOOLEAN]
    BY <1>3, <2>1 DEF SwapSucceeds
  <2> QED
    BY <1>3, <2>2 DEF SwapSucceeds
<1>4. ASSUME NEW r \in Requests, SwapFails(r) PROVE TypeOK'
  BY <1>4 DEF SwapFails
<1>5. ASSUME NEW r \in Requests, Send(r) \/ Lose(r) PROVE TypeOK'
  BY <1>5 DEF Send, Lose, drawVars
<1>6. ASSUME NEW r \in Requests, Arrive(r) PROVE TypeOK'
  BY <1>6 DEF Arrive, drawVars
<1>7. CASE SetClock
  BY <1>7 DEF SetClock, drawVars
<1>8. CASE Restart
  BY <1>8 DEF Restart
<1>9. CASE UNCHANGED vars
  BY <1>9 DEF vars, drawVars
<1> QED
  BY <1>1, <1>2, <1>3, <1>4, <1>5, <1>6, <1>7, <1>8, <1>9 DEF Next, Draw

\* Floors never decrease but by a restart, which remembers them.
LEMMA NextBoundInv == TypeOK /\ BoundInv /\ [Next]_vars => BoundInv'
<1> SUFFICES ASSUME TypeOK, BoundInv, [Next]_vars PROVE BoundInv'
  OBVIOUS
<1> USE DEF TypeOK, BoundInv, Bounded, Sent, Drawing
<1>1. ASSUME NEW r \in Requests, Begin(r) \/ Load(r) \/ SwapFails(r) \/ Send(r) \/ Lose(r)
      PROVE BoundInv'
  BY <1>1 DEF Begin, Load, SwapFails, Send, Lose, drawVars
<1>2. ASSUME NEW r \in Requests, SwapSucceeds(r) PROVE BoundInv'
  <2>1. client[r] \in Clients /\ last'[client[r]] = n[r] /\ n[r] > last[client[r]]
    BY <1>2 DEF SwapSucceeds
  <2>2. \A c \in Clients : last'[c] >= last[c]
    BY <1>2, <2>1 DEF SwapSucceeds
  <2>3. ASSUME NEW v \in Nat, Bounded(v) PROVE Bounded(v)'
    BY <1>2, <2>2, <2>3 DEF SwapSucceeds
  <2>4. Bounded(seen)'
    BY <1>2, <2>3 DEF SwapSucceeds
  <2>5. ASSUME NEW q \in Requests, pc'[q] \in Sent PROVE Bounded(nonce[q])'
    <3>1. CASE q = r
      BY <1>2, <2>1, <3>1 DEF SwapSucceeds
    <3>2. CASE q # r
      BY <1>2, <2>3, <2>5, <3>2 DEF SwapSucceeds
    <3> QED
      BY <3>1, <3>2
  <2> QED
    BY <2>4, <2>5
<1>3. ASSUME NEW r \in Requests, Arrive(r) PROVE BoundInv'
  BY <1>3 DEF Arrive, drawVars
<1>4. CASE Restart
  <2>1. \A c \in Clients : old'[c] >= last[c] /\ old'[c] >= old[c]
    BY <1>4 DEF Restart
  <2>2. ASSUME NEW v \in Nat, Bounded(v) PROVE Bounded(v)'
    BY <1>4, <2>1, <2>2, NextTypeOK DEF Restart
  <2> QED
    BY <1>4, <2>2 DEF Restart
<1>5. CASE SetClock \/ UNCHANGED vars
  BY <1>5 DEF SetClock, vars, drawVars
<1> QED
  BY <1>1, <1>2, <1>3, <1>4, <1>5 DEF Next, Draw

LEMMA NextAloneInv == IInv /\ [Next]_vars => AloneInv'
<1> SUFFICES ASSUME IInv, [Next]_vars PROVE AloneInv'
  OBVIOUS
<1> USE DEF IInv, TypeOK, AloneInv, Active, Sent, Drawing
<1>1. ASSUME NEW r \in Requests, Begin(r) PROVE AloneInv'
  BY <1>1 DEF Begin
<1>2. ASSUME NEW r \in Requests, Load(r) PROVE AloneInv'
  BY <1>2 DEF Load
<1>3. ASSUME NEW r \in Requests, SwapSucceeds(r) PROVE AloneInv'
  <2>1. n[r] > last[client[r]] /\ n[r] > 0 /\ client[r] \in Clients
    BY <1>3 DEF SwapSucceeds
  <2>2. ~behind'[r] => n[r] > seen
    BY <1>3, <2>1 DEF SwapSucceeds, Outrun, BoundInv, Bounded
  <2> QED
    BY <1>3, <2>2 DEF SwapSucceeds
<1>4. ASSUME NEW r \in Requests, SwapFails(r) PROVE AloneInv'
  BY <1>4 DEF SwapFails
<1>5. ASSUME NEW r \in Requests, Send(r) \/ Lose(r) PROVE AloneInv'
  BY <1>5 DEF Send, Lose, drawVars
<1>6. ASSUME NEW r \in Requests, Arrive(r) PROVE AloneInv'
  BY <1>6 DEF Arrive, drawVars
<1>7. CASE Restart
  BY <1>7 DEF Restart
<1>8. CASE SetClock \/ UNCHANGED vars
  BY <1>8 DEF SetClock, vars, drawVars
<1> QED
  BY <1>1, <1>2, <1>3, <1>4, <1>5, <1>6, <1>7, <1>8 DEF Next, Draw

---------------------------------------------------------------------------
\* The invariant of Nonce holds for any requests, clients and bounds.
THEOREM Invariance == Spec => []IInv
<1>1. IInv /\ [Next]_vars => IInv'
  BY NextTypeOK, NextBoundInv, NextAloneInv DEF IInv
<1> QED
  BY InitIInv, <1>1, PTL DEF Spec

\* Every variable of the nonce generator and its requests keeps its type.
THEOREM TypeCorrect == Spec => []TypeOK
<1>1. IInv => TypeOK
  BY DEF IInv
<1> QED
  BY Invariance, <1>1, PTL

\* A request that had the key to itself is never rejected for its nonce, unless a generator
\* of an earlier life or of another Client had handed out as much.
THEOREM LoneAccepted == Spec => []LoneRequestAccepted
<1>1. IInv => LoneRequestAccepted
  BY DEF IInv, AloneInv, LoneRequestAccepted
<1> QED
  BY Invariance, <1>1, PTL

\* Every draw of the loop is one atomic draw of a strictly increasing source: all its other
\* steps are invisible, whatever the clock and the other goroutines do.
THEOREM LoopIsAtomic == Spec => ImplementsSource
<1>1. Init => Source!Init
  BY DEF Init, Source!Init
<1>2. IInv /\ [Next]_vars => [Source!Next]_<<last, nonce>>
  <2> SUFFICES ASSUME IInv, [Next]_vars PROVE [Source!Next]_<<last, nonce>>
    OBVIOUS
  <2>1. ASSUME NEW r \in Requests, SwapSucceeds(r) PROVE Source!Next
    <3>1. nonce[r] = 0 /\ client[r] \in Clients /\ n[r] > last[client[r]]
      BY <2>1 DEF IInv, TypeOK, SwapSucceeds, Drawing
    <3>2. last'[client[r]] = n[r]
      BY <2>1, <3>1 DEF SwapSucceeds, IInv, TypeOK
    <3>3. Source!Draw(r, client[r])
      BY <2>1, <3>1, <3>2 DEF SwapSucceeds, Source!Draw
    <3> QED
      BY <3>1, <3>3 DEF Source!Next
  <2>2. CASE Restart
    BY <2>2 DEF Restart, Source!Next, Source!Restart
  <2>3. ASSUME NEW r \in Requests,
               Begin(r) \/ Load(r) \/ SwapFails(r) \/ Send(r) \/ Arrive(r) \/ Lose(r)
        PROVE UNCHANGED <<last, nonce>>
    BY <2>3 DEF Begin, Load, SwapFails, Send, Arrive, Lose, drawVars
  <2>4. CASE SetClock \/ UNCHANGED vars
    BY <2>4 DEF SetClock, vars, drawVars
  <2> QED
    BY <2>1, <2>2, <2>3, <2>4 DEF Next, Draw
<1> QED
  BY Invariance, <1>1, <1>2, PTL DEF Spec, ImplementsSource, Source!Spec

---------------------------------------------------------------------------
\* What the promise about restarts (options.go line 49) rests on: the wall clock is never set
\* back, and no generator outruns it, as the floor of a burst within one reading does.
SteadyClock == [][clock' >= clock]_vars
BehindClock == \A c \in Clients : last[c] <= clock

\* What earlier lives handed out is in the past, and below all that is being drawn.
RestartInv ==
  \A c \in Clients :
    /\ old[c] < clock
    /\ \A r \in Requests : pc[r] \in Drawing => n[r] > old[c]
    /\ last[c] # 0 => last[c] > old[c]

LEMMA RestartStep ==
  ASSUME TypeOK, RestartInv, BehindClock, [Next]_vars, clock' >= clock \/ UNCHANGED vars
  PROVE  RestartInv'
<1> USE DEF Drawing
<1>1. clock \in Nat /\ clock' \in Nat /\ clock' >= clock
  BY NextTypeOK, BoundsAssumption DEF TypeOK, vars
<1>2. ASSUME NEW r \in Requests, Begin(r) \/ SwapFails(r)
      PROVE  RestartInv'
  <2>1. /\ n' = [n EXCEPT ![r] = clock] /\ UNCHANGED <<clock, last, old>>
        /\ \A q \in Requests : q # r => pc'[q] = pc[q]
    BY <1>2 DEF Begin, SwapFails, TypeOK
  <2> QED
    BY <1>1, <2>1 DEF RestartInv, TypeOK
<1>3. ASSUME NEW r \in Requests, Load(r)
      PROVE  RestartInv'
  <2>1. /\ pc[r] = "load" /\ UNCHANGED <<clock, last, old>>
        /\ \A q \in Requests : q # r => pc'[q] = pc[q] /\ n'[q] = n[q]
        /\ n[r] \in Nat /\ last[client[r]] \in Nat
        /\ n'[r] = IF n[r] <= last[client[r]] THEN last[client[r]] + 1 ELSE n[r]
    BY <1>3 DEF Load, TypeOK
  <2>2. n'[r] >= n[r] /\ n'[r] \in Nat
    BY <2>1
  <2> QED
    BY <1>1, <2>1, <2>2 DEF RestartInv, TypeOK
<1>4. ASSUME NEW r \in Requests, SwapSucceeds(r)
      PROVE  RestartInv'
  <2>1. /\ pc[r] = "swap" /\ client[r] \in Clients /\ UNCHANGED <<clock, n, old>>
        /\ last' = [last EXCEPT ![client[r]] = n[r]] /\ pc'[r] = "drawn"
        /\ \A q \in Requests : q # r => pc'[q] = pc[q]
    BY <1>4 DEF SwapSucceeds, TypeOK
  <2> QED
    BY <1>1, <2>1 DEF RestartInv, TypeOK
<1>5. ASSUME NEW r \in Requests, Send(r) \/ Arrive(r) \/ Lose(r)
      PROVE  RestartInv'
  <2>1. /\ UNCHANGED <<clock, n, last, old>>
        /\ \A q \in Requests : pc'[q] \in Drawing => pc[q] \in Drawing
    BY <1>5 DEF Send, Arrive, Lose, drawVars, TypeOK
  <2> QED
    BY <2>1 DEF RestartInv
<1>6. CASE SetClock
  <2>1. UNCHANGED <<last, n, pc, old>>
    BY <1>6 DEF SetClock, drawVars
  <2> QED
    BY <1>1, <2>1 DEF RestartInv, TypeOK
<1>7. CASE Restart
  <2>1. /\ clock' = clock + 1
        /\ \A r \in Requests : pc'[r] \notin Drawing
        /\ \A c \in Clients : last'[c] = 0 /\ old'[c] = IF last[c] > old[c] THEN last[c] ELSE old[c]
    BY <1>7 DEF Restart, TypeOK
  <2>2. \A c \in Clients : old[c] \in Nat /\ last[c] \in Nat
    BY DEF TypeOK
  <2> QED
    BY <1>1, <2>1, <2>2 DEF RestartInv, BehindClock
<1>8. CASE UNCHANGED vars
  BY <1>8 DEF RestartInv, vars, drawVars
<1> QED
  BY <1>2, <1>3, <1>4, <1>5, <1>6, <1>7, <1>8 DEF Next, Draw

\* "nonces keep increasing across process restarts" (options.go line 49) of every behaviour in
\* which the clock is never set back and no floor is ahead of it.
THEOREM SteadyClockSuffices ==
  Spec /\ SteadyClock /\ []BehindClock => []IncreasingAcrossRestarts
<1>1. Init => RestartInv
  BY DEF Init, RestartInv, Drawing
<1>2. IInv /\ RestartInv /\ BehindClock /\ [Next]_vars /\ [clock' >= clock]_vars => RestartInv'
  BY RestartStep DEF IInv
<1>3. RestartInv => IncreasingAcrossRestarts
  BY DEF RestartInv, IncreasingAcrossRestarts
<1> QED
  BY Invariance, <1>1, <1>2, <1>3, PTL DEF Spec, SteadyClock
=============================================================================
