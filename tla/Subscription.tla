---------------------------- MODULE Subscription ----------------------------
(***************************************************************************)
(* One call of subscribeBytes (request/ws.go) and the three goroutines it  *)
(* leaves behind: the reader, which invokes the consumer's callback, the   *)
(* stopper, which waits for either channel and tears the connection down,  *)
(* and wsKeepAlive.  The consumer closes doneC when it likes; the callback *)
(* takes its time and may panic.                                           *)
(*                                                                         *)
(* Outside the module's sources: the gorilla connection and the gateway,   *)
(* whose frames are numbered in the order it sends them.                   *)
(***************************************************************************)
EXTENDS Naturals, Sequences

CONSTANTS
  MaxFrames,   \* bound: frames the gateway sends
  MaxPings     \* bound: pings written while the connection is good

ASSUME BoundsAssumption == MaxFrames \in Nat /\ MaxPings \in Nat

VARIABLES
  setup,                  \* progress of subscribeBytes
  link,                   \* state of conn
  sent, inbox,            \* frames sent by the gateway; those not read yet
  rpc, last, ended,       \* reader: its place, last frame it reported, final error reported
  spc, silent,            \* stopper: its place; the flag it shares with the reader
  kpc, pings,             \* wsKeepAlive: its place, pings written
  doneC, stopC,           \* the two channels are closed
  clash, crashed          \* stopper and wsKeepAlive overlap in WriteMessage; process gone

setupVars == <<setup, sent, inbox>>
readVars  == <<rpc, last, ended, stopC>>
stopVars  == <<spc, silent>>
keepVars  == <<kpc, pings>>
vars == <<setupVars, link, readVars, stopVars, keepVars, doneC, clash, crashed>>

\* How the reader classifies a frame: a data frame of the channel, a rejected subscribe, an
\* error frame or an unreadable one are reported, the others (acks, pongs, heartbeats,
\* frames of other channels) ignored.
Kinds    == {"data", "rejected", "error", "unreadable", "ignored"}
Reported == Kinds \ {"ignored"}
Frame    == [n : 1 .. MaxFrames, kind : Kinds]

TypeOK ==
  /\ setup \in {"dial", "token", "subscribe", "ready", "failed"}
  /\ link \in {"none", "up", "lost", "closed"}
  /\ sent \in 0 .. MaxFrames
  /\ inbox \in Seq(Frame) /\ Len(inbox) <= sent
  /\ rpc \in {"off", "read", "callback", "final", "stop", "exited"}
  /\ last \in 0 .. MaxFrames
  /\ spc \in {"off", "select", "unsub", "writing", "close", "exited"}
  /\ kpc \in {"off", "idle", "writing", "exited"}
  /\ pings \in 0 .. MaxPings
  /\ ended \in BOOLEAN /\ silent \in BOOLEAN /\ doneC \in BOOLEAN
  /\ stopC \in BOOLEAN /\ clash \in BOOLEAN /\ crashed \in BOOLEAN
  /\ stopC <=> rpc = "exited"

Init ==
  /\ setup = "dial" /\ link = "none"
  /\ sent = 0 /\ inbox = <<>>
  /\ rpc = "off" /\ last = 0 /\ ended = FALSE
  /\ spc = "off" /\ silent = FALSE
  /\ kpc = "off" /\ pings = 0
  /\ doneC = FALSE /\ stopC = FALSE
  /\ clash = FALSE /\ crashed = FALSE

---------------------------------------------------------------------------
\* subscribeBytes up to its return.

\* A private channel fetches its token after the dial, a public one subscribes at once.
Dial ==
  /\ setup = "dial"
  /\ \/ setup' \in {"token", "subscribe"} /\ link' = "up"
     \/ setup' = "failed" /\ UNCHANGED link
  /\ UNCHANGED <<sent, inbox, readVars, stopVars, keepVars, doneC, clash, crashed>>

\* Mutation: the connection is left open when the token cannot be had.
FetchToken_leavesConn ==
  /\ setup = "token"
  /\ setup' \in {"subscribe", "failed"}
  /\ UNCHANGED <<sent, inbox, link, readVars, stopVars, keepVars, doneC, clash, crashed>>

FetchToken ==
  /\ setup = "token"
  /\ \/ setup' = "subscribe" /\ UNCHANGED link
     \/ setup' = "failed" /\ link' = "closed"
  /\ UNCHANGED <<sent, inbox, readVars, stopVars, keepVars, doneC, clash, crashed>>

\* The subscribe frame is written and the goroutines start, or the connection is closed.
WriteSubscribe ==
  /\ setup = "subscribe"
  /\ \/ /\ setup' = "ready"
        /\ rpc' = "read" /\ spc' = "select" /\ kpc' = "idle"
        /\ UNCHANGED link
     \/ /\ link = "lost" /\ setup' = "failed" /\ link' = "closed"
        /\ UNCHANGED <<rpc, spc, kpc>>
  /\ UNCHANGED <<sent, inbox, last, ended, stopC, silent, pings, doneC, clash, crashed>>

---------------------------------------------------------------------------
\* The reader.

\* ReadMessage returns a frame; a reported one goes to the callback.
ReadFrame ==
  /\ rpc = "read" /\ link # "closed" /\ inbox # <<>>
  /\ inbox' = Tail(inbox)
  /\ IF Head(inbox).kind \in Reported
       THEN last' = Head(inbox).n /\ rpc' = "callback"
       ELSE UNCHANGED <<last, rpc>>
  /\ UNCHANGED <<setup, sent, link, ended, stopC, stopVars, keepVars, doneC, clash, crashed>>

\* Mutation: recover guards the goroutine instead of the callback: a panic ends the reader.
CallbackReturns_noRecover ==
  /\ rpc \in {"callback", "final"}
  /\ rpc' \in {IF rpc = "callback" THEN "read" ELSE "stop", "exited"}
  /\ UNCHANGED <<setupVars, link, last, ended, stopC, stopVars, keepVars, doneC, clash, crashed>>

\* The callback returns, or panics and is recovered by deliver.
CallbackReturns ==
  /\ rpc \in {"callback", "final"}
  /\ rpc' = IF rpc = "callback" THEN "read" ELSE "stop"
  /\ UNCHANGED <<setupVars, link, last, ended, stopC, stopVars, keepVars, doneC, clash, crashed>>

\* Mutation: the stop channel is closed before the final error is delivered.
ReadFails_stopsFirst ==
  /\ rpc = "read"
  /\ stopC' = TRUE
  /\ IF silent THEN rpc' = "stop" /\ UNCHANGED ended
               ELSE rpc' = "final" /\ ended' = TRUE
  /\ UNCHANGED <<setupVars, link, last, stopVars, keepVars, doneC, clash, crashed>>

\* ReadMessage fails: the connection is gone, or a frame exceeds SetReadLimit.  The final
\* error goes to the callback unless the stopper set silent.
ReadFails ==
  /\ rpc = "read"
  /\ IF silent THEN rpc' = "stop" /\ UNCHANGED ended
               ELSE rpc' = "final" /\ ended' = TRUE
  /\ UNCHANGED <<setupVars, link, last, stopC, stopVars, keepVars, doneC, clash, crashed>>

CloseStop ==
  /\ rpc = "stop"
  /\ stopC' = TRUE /\ rpc' = "exited"
  /\ UNCHANGED <<setupVars, link, last, ended, stopVars, keepVars, doneC, clash, crashed>>

---------------------------------------------------------------------------
\* The stopper and wsKeepAlive, which both write.

\* Mutation: only the consumer's channel is watched.
StopperWakes_doneOnly ==
  /\ spc = "select" /\ doneC
  /\ spc' = "unsub"
  /\ UNCHANGED <<setupVars, link, readVars, silent, keepVars, doneC, clash, crashed>>

StopperWakes ==
  /\ spc = "select"
  /\ \/ stopC /\ silent' = TRUE
     \/ doneC /\ UNCHANGED silent
  /\ spc' = "unsub"
  /\ UNCHANGED <<setupVars, link, readVars, keepVars, doneC, clash, crashed>>

WriteUnsubscribe ==
  /\ spc = "unsub"
  /\ spc' = "writing"
  /\ clash' = (clash \/ kpc = "writing")
  /\ UNCHANGED <<setupVars, link, readVars, silent, keepVars, doneC, crashed>>

\* A write that overlapped another may garble the stream, so that the gateway drops it.
Garbled == link' \in IF clash /\ link = "up" THEN {"up", "lost"} ELSE {link}

\* The error, if any, is ignored: the unsubscribe is best effort.
UnsubscribeWritten ==
  /\ spc = "writing"
  /\ spc' = "close"
  /\ Garbled /\ clash' = FALSE
  /\ UNCHANGED <<setupVars, readVars, silent, keepVars, doneC, crashed>>

CloseConn ==
  /\ spc = "close"
  /\ spc' = "exited" /\ link' = "closed"
  /\ UNCHANGED <<setupVars, readVars, silent, keepVars, doneC, clash, crashed>>

\* A tick: the ticker never stops before the goroutine does.
KeepTick ==
  /\ kpc = "idle"
  /\ \/ pings < MaxPings /\ pings' = pings + 1
     \/ link = "closed" /\ UNCHANGED pings
  /\ kpc' = "writing"
  /\ clash' = (clash \/ spc = "writing")
  /\ UNCHANGED <<setupVars, link, readVars, stopVars, doneC, crashed>>

\* A failed write is the only way out of wsKeepAlive.
PingWritten ==
  /\ kpc = "writing"
  /\ \/ link # "closed" /\ kpc' = "idle"
     \/ (clash \/ link # "up") /\ kpc' = "exited"
  /\ Garbled /\ clash' = FALSE
  /\ UNCHANGED <<setupVars, readVars, stopVars, pings, doneC, crashed>>

\* gorilla panics on an overlap it notices; neither goroutine recovers.
WritePanics ==
  /\ clash
  /\ crashed' = TRUE
  /\ UNCHANGED <<setupVars, link, readVars, stopVars, keepVars, doneC, clash>>

---------------------------------------------------------------------------
\* The consumer, the gateway and the network.

CloseDone ==
  /\ setup = "ready" /\ ~doneC
  /\ doneC' = TRUE
  /\ UNCHANGED <<setupVars, link, readVars, stopVars, keepVars, clash, crashed>>

GatewaySends ==
  /\ setup = "ready" /\ link = "up" /\ sent < MaxFrames
  /\ sent' = sent + 1
  /\ \E k \in Kinds : inbox' = Append(inbox, [n |-> sent + 1, kind |-> k])
  /\ UNCHANGED <<setup, link, readVars, stopVars, keepVars, doneC, clash, crashed>>

LoseLink ==
  /\ link = "up"
  /\ link' = "lost"
  /\ UNCHANGED <<setupVars, readVars, stopVars, keepVars, doneC, clash, crashed>>

---------------------------------------------------------------------------
SetupStep == Dial \/ FetchToken \/ WriteSubscribe
ReadStep  == ReadFrame \/ CallbackReturns \/ ReadFails \/ CloseStop
StopStep  == StopperWakes \/ WriteUnsubscribe \/ UnsubscribeWritten \/ CloseConn
KeepStep  == KeepTick \/ PingWritten

Next ==
  /\ ~crashed
  /\ \/ SetupStep \/ ReadStep \/ StopStep \/ KeepStep
     \/ WritePanics \/ CloseDone \/ GatewaySends \/ LoseLink

Spec == Init /\ [][Next]_vars

\* Goroutines run, the callback returns, a write ends (the peer drains the socket or the
\* connection dies), ticks keep coming, and a dead peer is noticed.  Nothing makes the
\* consumer close doneC or the gateway send.
Fairness ==
  /\ WF_vars(~crashed /\ SetupStep)
  /\ WF_vars(~crashed /\ (ReadFrame \/ CallbackReturns \/ CloseStop))
  /\ WF_vars(~crashed /\ link # "up" /\ ReadFails)
  /\ WF_vars(~crashed /\ StopStep)
  /\ WF_vars(~crashed /\ KeepStep)

FairSpec == Spec /\ Fairness

---------------------------------------------------------------------------
\* Correctness.

\* The subscription implements EventStream: frames are reported in order and once, then comes
\* one final error, also when the consumer itself closed doneC (silent is set too late to
\* suppress it), then stopC closes, and no callback runs after that (ws.go, lines 137-158).
Stream == INSTANCE EventStream WITH stopped <- stopC
ImplementsStream == Stream!Spec

\* No path leaves a connection behind: a failed setup has closed what it opened, and once the
\* stopper is done the connection is closed (ws.go, lines 103-116 and 148).
NoConnLeft ==
  (setup = "failed" \/ spc = "exited") => link \in {"none", "closed"}

\* After doneC is closed or the connection fails, everything ends: stopC closes, the
\* connection is closed, and all three goroutines exit (README line 121: "stop closes when
\* the reader exits").
Ended == rpc = "exited" /\ stopC /\ spc = "exited" /\ kpc = "exited" /\ link = "closed"
EndsCompletely ==
  (setup = "ready" /\ (doneC \/ link = "lost" \/ rpc \in {"final", "stop"})) ~> (Ended \/ crashed)
=============================================================================
