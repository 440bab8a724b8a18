------------------------- MODULE SubscriptionProofs -------------------------
(***************************************************************************)
(* Proofs about Subscription, for any number of frames and pings: it       *)
(* implements EventStream and leaves no connection behind.                 *)
(***************************************************************************)
EXTENDS Subscription, TLAPS

\* The unread frames are the last ones sent, in order, and were sent after the last reported.
FramesInv ==
  /\ last + Len(inbox) <= sent
  /\ \A i \in 1 .. Len(inbox) : inbox[i].n = sent - Len(inbox) + i

\* The flag silent comes too late: the stopper sets it only once stopC is closed, and stopC
\* is closed only after the final error was reported.
EndInv ==
  /\ silent => stopC
  /\ ended <=> rpc \in {"final", "stop", "exited"}

\* Who owns the connection: subscribeBytes until it returns, then the stopper.
ConnInv ==
  /\ setup # "ready" => rpc = "off" /\ spc = "off" /\ kpc = "off"
  /\ setup = "dial" => link = "none"
  /\ setup = "failed" => link \in {"none", "closed"}
  /\ spc = "exited" => link = "closed"

IInv == TypeOK /\ FramesInv /\ EndInv /\ ConnInv

---------------------------------------------------------------------------
LEMMA InitIInv == Init => IInv
<1> SUFFICES ASSUME Init PROVE IInv
  OBVIOUS
<1>1. inbox \in Seq(Frame) /\ Len(inbox) = 0
  BY DEF Init
<1>2. TypeOK
  <2>1. stopC <=> rpc = "exited"
    BY DEF Init
  <2>2. /\ ended \in BOOLEAN /\ silent \in BOOLEAN /\ doneC \in BOOLEAN
        /\ stopC \in BOOLEAN /\ clash \in BOOLEAN /\ crashed \in BOOLEAN
    BY DEF Init
  <2>3. sent \in 0 .. MaxFrames /\ last \in 0 .. MaxFrames /\ pings \in 0 .. MaxPings
    BY BoundsAssumption DEF Init
  <2>4. Len(inbox) <= sent
    BY <1>1 DEF Init
  <2>5. /\ setup \in {"dial", "token", "subscribe", "ready", "failed"}
        /\ link \in {"none", "up", "lost", "closed"}
        /\ rpc \in {"off", "read", "callback", "final", "stop", "exited"}
        /\ spc \in {"off", "select", "unsub", "writing", "close", "exited"}
        /\ kpc \in {"off", "idle", "writing", "exited"}
    BY DEF Init
  <2> QED
    BY <1>1, <2>1, <2>2, <2>3, <2>4, <2>5 DEF TypeOK
<1>3. FramesInv
  BY <1>1 DEF Init, FramesInv
<1>4. EndInv /\ ConnInv
  BY DEF Init, EndInv, ConnInv
<1> QED
  BY <1>2, <1>3, <1>4 DEF IInv

LEMMA SetupPreserves == IInv /\ SetupStep => IInv'
<1> SUFFICES ASSUME IInv, SetupStep PROVE IInv'
  OBVIOUS
<1> USE DEF IInv, TypeOK, FramesInv, EndInv, ConnInv, readVars, stopVars, keepVars
<1>1. CASE Dial
  BY <1>1 DEF Dial
<1>2. CASE FetchToken
  BY <1>2 DEF FetchToken
<1>3. CASE WriteSubscribe
  BY <1>3 DEF WriteSubscribe
<1> QED
  BY <1>1, <1>2, <1>3 DEF SetupStep

LEMMA ReadFramePreserves == IInv /\ ReadFrame => IInv'
<1> SUFFICES ASSUME IInv, ReadFrame PROVE IInv'
  OBVIOUS
<1> USE DEF IInv
<1>1. /\ inbox \in Seq(Frame) /\ inbox # <<>> /\ inbox' = Tail(inbox)
      /\ Len(inbox) \in Nat /\ Len(inbox) >= 1
  BY DEF ReadFrame, TypeOK
<1>2. /\ Len(inbox') = Len(inbox) - 1
      /\ inbox' \in Seq(Frame)
      /\ \A i \in 1 .. Len(inbox') : inbox'[i] = inbox[i + 1]
  BY <1>1
<1>3. Head(inbox) = inbox[1] /\ inbox[1] \in Frame
  BY <1>1
<1>4. inbox[1].n = sent - Len(inbox) + 1
  BY <1>1 DEF FramesInv
<1>5. TypeOK'
  BY <1>2, <1>3 DEF ReadFrame, TypeOK, Frame, stopVars, keepVars
<1>6. sent' = sent /\ (last' = last \/ last' = inbox[1].n)
  BY <1>3 DEF ReadFrame
<1>7. last' + Len(inbox') <= sent'
  BY <1>1, <1>2, <1>4, <1>6 DEF TypeOK, FramesInv
<1>8. ASSUME NEW i \in 1 .. Len(inbox') PROVE inbox'[i].n = sent' - Len(inbox') + i
  <2>1. i + 1 \in 1 .. Len(inbox) /\ i \in Nat /\ sent \in Nat
    BY <1>1, <1>2 DEF TypeOK
  <2>2. inbox'[i].n = sent - Len(inbox) + (i + 1)
    BY <1>2, <2>1 DEF FramesInv
  <2> QED
    BY <1>1, <1>2, <1>6, <2>1, <2>2
<1>9. EndInv' /\ ConnInv'
  BY DEF ReadFrame, EndInv, ConnInv, stopVars, keepVars, TypeOK
<1> QED
  BY <1>5, <1>7, <1>8, <1>9 DEF FramesInv

LEMMA ReadPreserves == IInv /\ ReadStep => IInv'
<1> SUFFICES ASSUME IInv, ReadStep PROVE IInv'
  OBVIOUS
<1> USE DEF IInv, TypeOK, FramesInv, EndInv, ConnInv, setupVars, stopVars, keepVars
<1>1. CASE CallbackReturns
  BY <1>1 DEF CallbackReturns
<1>2. CASE ReadFails
  BY <1>2 DEF ReadFails
<1>3. CASE CloseStop
  <2>1. TypeOK'
    BY <1>3 DEF CloseStop
  <2> QED
    BY <1>3, <2>1 DEF CloseStop
<1> QED
  BY <1>1, <1>2, <1>3, ReadFramePreserves DEF ReadStep

LEMMA StopPreserves == IInv /\ StopStep => IInv'
<1> SUFFICES ASSUME IInv, StopStep PROVE IInv'
  OBVIOUS
<1> USE DEF IInv, TypeOK, FramesInv, EndInv, ConnInv, setupVars, readVars, keepVars, Garbled
<1>1. CASE StopperWakes
  <2>1. silent' \in BOOLEAN
    BY <1>1, Zenon DEF StopperWakes
  <2>3. silent' => stopC
    BY <1>1, Zenon DEF StopperWakes
  <2>2. UNCHANGED <<setup, sent, inbox, link, rpc, last, ended, stopC, kpc, pings, doneC>>
        /\ UNCHANGED <<clash, crashed>> /\ spc' = "unsub" /\ spc = "select"
    BY <1>1 DEF StopperWakes
  <2> QED
    BY <2>1, <2>2, <2>3
<1>2. CASE WriteUnsubscribe
  BY <1>2 DEF WriteUnsubscribe
<1>3. CASE UnsubscribeWritten
  BY <1>3 DEF UnsubscribeWritten
<1>4. CASE CloseConn
  BY <1>4 DEF CloseConn
<1> QED
  BY <1>1, <1>2, <1>3, <1>4 DEF StopStep

LEMMA KeepPreserves == IInv /\ KeepStep => IInv'
<1> SUFFICES ASSUME IInv, KeepStep PROVE IInv'
  OBVIOUS
<1> USE BoundsAssumption
    DEF IInv, TypeOK, FramesInv, EndInv, ConnInv, setupVars, readVars, stopVars, Garbled
<1>1. CASE KeepTick
  BY <1>1 DEF KeepTick
<1>2. CASE PingWritten
  BY <1>2 DEF PingWritten
<1> QED
  BY <1>1, <1>2 DEF KeepStep

LEMMA GatewayPreserves == IInv /\ GatewaySends => IInv'
<1> SUFFICES ASSUME IInv, GatewaySends PROVE IInv'
  OBVIOUS
<1> USE DEF IInv
<1>1. PICK k \in Kinds : inbox' = Append(inbox, [n |-> sent + 1, kind |-> k])
  BY DEF GatewaySends
<1>2. sent' = sent + 1 /\ sent' \in 1 .. MaxFrames /\ [n |-> sent + 1, kind |-> k] \in Frame
  BY BoundsAssumption DEF GatewaySends, TypeOK, Frame
<1>3. /\ Len(inbox') = Len(inbox) + 1 /\ inbox' \in Seq(Frame)
      /\ \A i \in 1 .. Len(inbox) : inbox'[i] = inbox[i]
      /\ inbox'[Len(inbox) + 1].n = sent + 1
      /\ Len(inbox) \in Nat
  BY <1>1, <1>2 DEF TypeOK
<1>4. TypeOK'
  BY <1>2, <1>3 DEF GatewaySends, TypeOK, readVars, stopVars, keepVars
<1>5. last' = last
  BY DEF GatewaySends, readVars
<1>6. last' + Len(inbox') <= sent'
  BY <1>2, <1>3, <1>5 DEF FramesInv, TypeOK
<1>7. ASSUME NEW i \in 1 .. Len(inbox') PROVE inbox'[i].n = sent' - Len(inbox') + i
  <2>1. CASE i \in 1 .. Len(inbox)
    BY <1>2, <1>3, <2>1 DEF FramesInv, TypeOK
  <2>2. CASE i = Len(inbox) + 1
    BY <1>2, <1>3, <2>2 DEF TypeOK
  <2> QED
    BY <1>3, <2>1, <2>2
<1>8. EndInv' /\ ConnInv'
  BY DEF GatewaySends, EndInv, ConnInv, readVars, stopVars, keepVars
<1> QED
  BY <1>4, <1>6, <1>7, <1>8 DEF FramesInv

LEMMA OthersPreserve ==
  IInv /\ (WritePanics \/ CloseDone \/ LoseLink \/ UNCHANGED vars) => IInv'
<1> SUFFICES ASSUME IInv, WritePanics \/ CloseDone \/ LoseLink \/ UNCHANGED vars PROVE IInv'
  OBVIOUS
<1> USE DEF IInv, TypeOK, FramesInv, EndInv, ConnInv, setupVars, readVars, stopVars, keepVars
<1>1. CASE WritePanics
  BY <1>1 DEF WritePanics
<1>2. CASE CloseDone
  BY <1>2 DEF CloseDone
<1>3. CASE LoseLink
  BY <1>3 DEF LoseLink
<1>4. CASE UNCHANGED vars
  BY <1>4 DEF vars
<1> QED
  BY <1>1, <1>2, <1>3, <1>4

---------------------------------------------------------------------------
\* The invariant holds for any number of frames and pings; it contains type correctness.
THEOREM Invariance == Spec => []IInv
<1>1. IInv /\ [Next]_vars => IInv'
  BY SetupPreserves, ReadPreserves, StopPreserves, KeepPreserves, GatewayPreserves,
     OthersPreserve DEF Next
<1> QED
  BY InitIInv, <1>1, PTL DEF Spec

\* Every variable of the subscription keeps its type.
THEOREM TypeCorrect == Spec => []TypeOK
<1>1. IInv => TypeOK
  BY DEF IInv
<1> QED
  BY Invariance, <1>1, PTL

\* No failed setup and no ended subscription leaves a connection open.
THEOREM ConnsFreed == Spec => []NoConnLeft
<1>1. IInv => NoConnLeft
  BY DEF IInv, ConnInv, NoConnLeft
<1> QED
  BY Invariance, <1>1, PTL

\* The consumer sees an EventStream: frames in order and once, then one final error, never
\* suppressed, then the closed stop channel.
THEOREM StreamImplemented == Spec => ImplementsStream
<1>1. Init => Stream!Init
  BY DEF Init, Stream!Init
<1>2. IInv /\ [Next]_vars => [Stream!Next]_<<last, ended, stopC>>
  <2> SUFFICES ASSUME IInv, [Next]_vars PROVE [Stream!Next]_<<last, ended, stopC>>
    OBVIOUS
  <2> USE DEF IInv
  <2>1. CASE ReadFrame
    <3>1. /\ inbox \in Seq(Frame) /\ inbox # <<>> /\ Len(inbox) \in Nat /\ Len(inbox) >= 1
          /\ Head(inbox) = inbox[1]
      BY <2>1 DEF ReadFrame, TypeOK
    <3>2. Head(inbox).n > last
      BY <3>1 DEF FramesInv, TypeOK
    <3>3. ~ended
      BY <2>1 DEF ReadFrame, EndInv
    <3> QED
      BY <2>1, <3>2, <3>3 DEF ReadFrame, Stream!Next, Stream!Report
  <2>2. CASE ReadFails
    BY <2>2 DEF ReadFails, TypeOK, EndInv, Stream!Next, Stream!End
  <2>3. CASE CloseStop
    BY <2>3 DEF CloseStop, TypeOK, EndInv, Stream!Next, Stream!Stop
  <2>4. CASE CallbackReturns \/ SetupStep
    BY <2>4 DEF CallbackReturns, SetupStep, Dial, FetchToken, WriteSubscribe, readVars
  <2>5. CASE StopStep
    BY <2>5 DEF StopStep, StopperWakes, WriteUnsubscribe, UnsubscribeWritten, CloseConn, readVars
  <2>6. CASE KeepStep \/ GatewaySends
    BY <2>6 DEF KeepStep, KeepTick, PingWritten, GatewaySends, readVars
  <2>7. CASE WritePanics \/ CloseDone \/ LoseLink \/ UNCHANGED vars
    BY <2>7 DEF WritePanics, CloseDone, LoseLink, vars, readVars
  <2> QED
    BY <2>1, <2>2, <2>3, <2>4, <2>5, <2>6, <2>7 DEF Next, ReadStep
<1> QED
  BY Invariance, <1>1, <1>2, PTL DEF Spec, ImplementsStream, Stream!Spec
=============================================================================
