---------------------------- MODULE WsTradeConn ----------------------------
(***************************************************************************)
(* The request/response trading connection of request/ws_trade.go: any     *)
(* number of goroutines inside call, the goroutines readLoop and keepAlive *)
(* that DialWsTrade starts, and Close.  A critical section under t.mu is   *)
(* one step; so is an atomic counter update.  WriteMessage is a begin and  *)
(* an end, since nothing serialises its callers.                           *)
(*                                                                         *)
(* Outside the module's sources, modelled from how they are used: the      *)
(* gorilla connection and the Kraken gateway, which processes a frame that *)
(* reached it at most once, in any order, and answers it up to MaxReplies  *)
(* times (cancel_order takes several ids and its result names one).        *)
(* Frames without a req_id only make readLoop continue: they are stutter.  *)
(***************************************************************************)
EXTENDS Integers, FiniteSets, Functions

CONSTANTS
  Calls,       \* invocations of WsTradeCall
  Keeper,      \* the keepAlive goroutine as a writer
  NoCall,      \* no channel (the nil a map lookup returns)
  Verdicts,    \* what the gateway may answer: success, or a rejection (a *WsError)
  MaxPings,    \* bound: ticks on which keepAlive writes
  MaxReplies   \* bound: replies the gateway sends to one frame

ASSUME ActorsAssumption ==
  Keeper \notin Calls /\ NoCall \notin Calls /\ Keeper # NoCall
ASSUME VerdictsAssumption == Verdicts \cap {"none", "failed", "pong"} = {}
ASSUME BoundsAssumption == MaxPings \in Nat /\ MaxReplies \in Nat \ {0}

VARIABLES
  pc, id, ret, got,              \* each call: its place, req_id, result, whose reply it decoded
  buf, closed,                   \* each call's channel: the capacity-1 buffer, closed or not
  nextID, pending,               \* t.nextID; t.pending, from req_id to the call owning the channel
  late,                          \* history: the calls that registered once readLoop had stopped
  closing, link,                 \* progress of Close; state of t.conn
  rpc, rmsg, rch,                \* readLoop: its place, the frame read, the channel looked up
  kpc, kid, pings,               \* keepAlive: its place, the ping's req_id, ticks used
  clash,                         \* writers that overlapped inside WriteMessage
  wire, verdict, replies,        \* gateway: frames received, how processed, replies sent
  crashed                        \* the process died in a concurrent write

callVars == <<pc, id, ret, got>>
chanVars == <<buf, closed>>
mapVars  == <<nextID, pending, late>>
connVars == <<closing, link, clash>>
readVars == <<rpc, rmsg, rch>>
keepVars == <<kpc, kid, pings>>
gateVars == <<wire, verdict, replies>>
vars == <<callVars, chanVars, mapVars, connVars, readVars, keepVars, gateVars, crashed>>

Writers  == Calls \cup {Keeper}
Failures == {"failed"}   \* any error that is not the gateway's answer
Frame    == [req : Nat, from : Writers \cup {NoCall}, verdict : Verdicts \cup {"none", "pong"}]
NoFrame  == [req |-> 0, from |-> NoCall, verdict |-> "none"]

\* A reply carries the req_id of the frame it answers; `from` is a ghost naming that frame.
ReqID(w)   == IF w = Keeper THEN kid ELSE id[w]
ReplyTo(w) == [req |-> ReqID(w), from |-> w, verdict |-> verdict[w]]

TypeOK ==
  /\ pc \in [Calls -> {"idle", "register", "send", "writing", "wait", "clear", "returned"}]
  /\ id \in [Calls -> Nat]
  /\ ret \in [Calls -> Verdicts \cup Failures \cup {"none", "pong"}]
  /\ got \in [Calls -> Writers \cup {NoCall}]
  /\ buf \in [Calls -> Frame]
  /\ closed \in [Calls -> BOOLEAN]
  /\ nextID \in Nat
  /\ DOMAIN pending \subseteq Nat
  /\ pending \in [DOMAIN pending -> Calls]
  /\ late \subseteq Calls
  /\ closing \in {"open", "closing", "closed"}
  /\ link \in {"up", "lost", "closed"}
  /\ rpc \in {"read", "lookup", "send", "failing", "stopped"}
  /\ rmsg \in Frame
  /\ rch \in IF rpc = "send" THEN Calls ELSE {NoCall}
  /\ kpc \in {"start", "idle", "writing", "stopped"}
  /\ kid \in Nat
  /\ pings \in 0 .. MaxPings
  /\ clash \subseteq Writers
  /\ wire \subseteq Writers
  /\ verdict \in [Writers -> Verdicts \cup {"none", "pong"}]
  /\ replies \in [Writers -> 0 .. MaxReplies]
  /\ crashed \in BOOLEAN

\* DialWsTrade once its handshake succeeded, and the gateway before the first frame.
Init ==
  /\ pc = [c \in Calls |-> "idle"]
  /\ id = [c \in Calls |-> 0]
  /\ ret = [c \in Calls |-> "none"]
  /\ got = [c \in Calls |-> NoCall]
  /\ buf = [c \in Calls |-> NoFrame]
  /\ closed = [c \in Calls |-> FALSE]
  /\ nextID = 0
  /\ pending = [i \in {} |-> NoCall] /\ late = {}
  /\ closing = "open" /\ link = "up" /\ clash = {}
  /\ rpc = "read" /\ rmsg = NoFrame /\ rch = NoCall
  /\ kpc = "start" /\ kid = 0 /\ pings = 0
  /\ wire = {}
  /\ verdict = [w \in Writers |-> "none"]
  /\ replies = [w \in Writers |-> 0]
  /\ crashed = FALSE

Done == closing # "open"   \* t.done is closed

---------------------------------------------------------------------------
\* WriteMessage of the shared connection.

Writing == {c \in Calls : pc[c] = "writing"}
             \cup (IF kpc = "writing" THEN {Keeper} ELSE {})

\* w enters WriteMessage.  gorilla allows one concurrent writer: a second one spoils every
\* write it overlaps.
EnterWrite(w) ==
  clash' = IF Writing = {} THEN clash ELSE clash \cup Writing \cup {w}

\* w leaves WriteMessage, with an error or not, the process still alive.  A write that
\* overlapped none reaches the gateway on a good connection, is lost with or without an error
\* on a failing one, and fails on a closed one.  One that overlapped another may go either
\* way, and may leave a garbled stream that makes the gateway drop the connection.
LeaveWrite(w, err) ==
  /\ clash' = clash \ {w}
  /\ \/ /\ w \notin clash /\ link = "up" /\ ~err
        /\ wire' = wire \cup {w}
        /\ UNCHANGED link
     \/ /\ w \notin clash /\ link # "up" /\ (link = "closed" => err)
        /\ UNCHANGED <<wire, link>>
     \/ /\ w \in clash
        /\ wire' \in {wire} \cup (IF link = "up" THEN {wire \cup {w}} ELSE {})
        /\ link' \in {link} \cup (IF link = "up" THEN {"lost"} ELSE {})

\* gorilla's own detection of an overlap: a panic in the writing goroutine, which nothing in
\* ws_trade.go recovers.
WritePanics ==
  /\ clash # {}
  /\ crashed' = TRUE
  /\ UNCHANGED <<callVars, chanVars, mapVars, connVars, readVars, keepVars, gateVars>>

---------------------------------------------------------------------------
\* call and WsTradeCall, in the goroutine of invocation c.

TakeID(c) ==
  /\ pc[c] = "idle"
  /\ nextID' = nextID + 1
  /\ id' = [id EXCEPT ![c] = nextID + 1]
  /\ pc' = [pc EXCEPT ![c] = "register"]
  /\ UNCHANGED <<ret, got, chanVars, pending, late, connVars, readVars, keepVars,
                 gateVars, crashed>>

Register(c) ==
  /\ pc[c] = "register"
  /\ pending' = [i \in DOMAIN pending \cup {id[c]} |-> IF i = id[c] THEN c ELSE pending[i]]
  /\ late' = IF rpc = "stopped" THEN late \cup {c} ELSE late
  /\ pc' = [pc EXCEPT ![c] = "send"]
  /\ UNCHANGED <<id, ret, got, chanVars, nextID, connVars, readVars, keepVars,
                 gateVars, crashed>>

\* Leaving call on an error whose path runs clearPending first.
GiveUp(c) ==
  /\ ret' = [ret EXCEPT ![c] = "failed"]
  /\ pc' = [pc EXCEPT ![c] = "clear"]

MarshalFails(c) ==
  /\ pc[c] = "send"
  /\ GiveUp(c)
  /\ UNCHANGED <<id, got, chanVars, mapVars, connVars, readVars, keepVars,
                 gateVars, crashed>>

BeginWrite(c) ==
  /\ pc[c] = "send"
  /\ EnterWrite(c)
  /\ pc' = [pc EXCEPT ![c] = "writing"]
  /\ UNCHANGED <<id, ret, got, chanVars, mapVars, closing, link, readVars,
                 keepVars, gateVars, crashed>>

EndWrite(c) ==
  /\ pc[c] = "writing"
  /\ \/ LeaveWrite(c, TRUE) /\ GiveUp(c)
     \/ /\ LeaveWrite(c, FALSE)
        /\ pc' = [pc EXCEPT ![c] = "wait"]
        /\ UNCHANGED ret
  /\ UNCHANGED <<id, got, chanVars, mapVars, closing, readVars, keepVars,
                 verdict, replies, crashed>>

\* The three cases of call's select; WsTradeCall then decodes the reply, which can fail.
ReceiveReply(c) ==
  /\ pc[c] = "wait" /\ buf[c] # NoFrame
  /\ \E r \in {buf[c].verdict} \cup Failures : ret' = [ret EXCEPT ![c] = r]
  /\ got' = [got EXCEPT ![c] = buf[c].from]
  /\ buf' = [buf EXCEPT ![c] = NoFrame]
  /\ pc' = [pc EXCEPT ![c] = "returned"]
  /\ UNCHANGED <<id, closed, mapVars, connVars, readVars, keepVars, gateVars, crashed>>

\* Mutation: a nil message from the closed channel passes for a reply.
ReceiveClosed_ignoresOk(c) ==
  /\ pc[c] = "wait" /\ buf[c] = NoFrame /\ closed[c]
  /\ \E v \in Verdicts : ret' = [ret EXCEPT ![c] = v]
  /\ pc' = [pc EXCEPT ![c] = "returned"]
  /\ UNCHANGED <<id, got, chanVars, mapVars, connVars, readVars, keepVars,
                 gateVars, crashed>>

ReceiveClosed(c) ==
  /\ pc[c] = "wait" /\ buf[c] = NoFrame /\ closed[c]
  /\ ret' = [ret EXCEPT ![c] = "failed"]
  /\ pc' = [pc EXCEPT ![c] = "returned"]
  /\ UNCHANGED <<id, got, chanVars, mapVars, connVars, readVars, keepVars,
                 gateVars, crashed>>

\* Mutation: the ctx.Done case returns without clearPending.
SeeCancel_skipsClear(c) ==
  /\ pc[c] = "wait"
  /\ ret' = [ret EXCEPT ![c] = "failed"]
  /\ pc' = [pc EXCEPT ![c] = "returned"]
  /\ UNCHANGED <<id, got, chanVars, mapVars, connVars, readVars, keepVars,
                 gateVars, crashed>>

\* The select may find ctx.Done ready at any time: the caller cancels whenever it likes.
SeeCancel(c) ==
  /\ pc[c] = "wait"
  /\ GiveUp(c)
  /\ UNCHANGED <<id, got, chanVars, mapVars, connVars, readVars, keepVars,
                 gateVars, crashed>>

\* Mutation: the select has no t.done case.
SeeDone_missing(c) == FALSE

SeeDone(c) ==
  /\ pc[c] = "wait" /\ Done
  /\ ret' = [ret EXCEPT ![c] = "failed"]
  /\ pc' = [pc EXCEPT ![c] = "returned"]
  /\ UNCHANGED <<id, got, chanVars, mapVars, connVars, readVars, keepVars,
                 gateVars, crashed>>

Unregister(i) == pending' = Restrict(pending, DOMAIN pending \ {i})

ClearPending(c) ==
  /\ pc[c] = "clear"
  /\ Unregister(id[c])
  /\ pc' = [pc EXCEPT ![c] = "returned"]
  /\ UNCHANGED <<id, ret, got, chanVars, nextID, late, connVars, readVars, keepVars,
                 gateVars, crashed>>

---------------------------------------------------------------------------
\* readLoop.

\* ReadMessage returns a reply.
ReadReply ==
  /\ rpc = "read" /\ link # "closed"
  /\ \E w \in Writers :
       /\ verdict[w] # "none" /\ replies[w] < MaxReplies
       /\ rmsg' = ReplyTo(w)
       /\ replies' = [replies EXCEPT ![w] = @ + 1]
  /\ rpc' = "lookup"
  /\ UNCHANGED <<callVars, chanVars, mapVars, connVars, rch, keepVars, wire, verdict, crashed>>

\* ReadMessage fails: the connection is gone, or a frame exceeds SetReadLimit on one that
\* still carries writes.
ReadFails ==
  /\ rpc = "read"
  /\ rpc' = "failing"
  /\ UNCHANGED <<callVars, chanVars, mapVars, connVars, rmsg, rch, keepVars, gateVars, crashed>>

\* Mutation: the entry is read but not deleted.
TakePending_keepsEntry ==
  /\ rpc = "lookup"
  /\ IF rmsg.req \in DOMAIN pending
       THEN rpc' = "send" /\ rch' = pending[rmsg.req] /\ UNCHANGED rmsg
       ELSE rpc' = "read" /\ rch' = NoCall /\ rmsg' = NoFrame
  /\ UNCHANGED <<callVars, chanVars, mapVars, connVars, keepVars, gateVars, crashed>>

\* Mutation: the channel is not checked for nil.
TakePending_noNilCheck ==
  /\ rpc = "lookup"
  /\ rpc' = "send"
  /\ rch' = IF rmsg.req \in DOMAIN pending THEN pending[rmsg.req] ELSE NoCall
  /\ Unregister(rmsg.req)
  /\ UNCHANGED <<callVars, chanVars, nextID, late, connVars, rmsg, keepVars, gateVars, crashed>>

\* Under t.mu: take the channel and delete the entry.
TakePending ==
  /\ rpc = "lookup"
  /\ IF rmsg.req \in DOMAIN pending
       THEN rpc' = "send" /\ rch' = pending[rmsg.req] /\ UNCHANGED rmsg
       ELSE rpc' = "read" /\ rch' = NoCall /\ rmsg' = NoFrame
  /\ Unregister(rmsg.req)
  /\ UNCHANGED <<callVars, chanVars, nextID, late, connVars, keepVars, gateVars, crashed>>

\* ch <- msg, with t.mu released: blocks while the buffer is full.
Deliver ==
  /\ rpc = "send" /\ buf[rch] = NoFrame /\ ~closed[rch]
  /\ buf' = [buf EXCEPT ![rch] = rmsg]
  /\ rpc' = "read" /\ rmsg' = NoFrame /\ rch' = NoCall
  /\ UNCHANGED <<callVars, closed, mapVars, connVars, keepVars, gateVars, crashed>>

\* Mutation: the entries are dropped without closing their channels.
FailAll_onlyDeletes ==
  /\ rpc = "failing"
  /\ pending' = Restrict(pending, {})
  /\ rpc' = "stopped"
  /\ UNCHANGED <<callVars, chanVars, nextID, late, connVars, rmsg, rch, keepVars, gateVars,
                 crashed>>

FailAll ==
  /\ rpc = "failing"
  /\ closed' = [c \in Calls |-> closed[c] \/ c \in Range(pending)]
  /\ pending' = Restrict(pending, {})
  /\ rpc' = "stopped"
  /\ UNCHANGED <<callVars, buf, nextID, late, connVars, rmsg, rch, keepVars, gateVars, crashed>>

---------------------------------------------------------------------------
\* keepAlive.

\* Mutation: the ping numbers itself instead of drawing from t.nextID.
KeepStart_ownCounter ==
  /\ kpc = "start"
  /\ kid' = 1
  /\ kpc' = "idle"
  /\ UNCHANGED <<callVars, chanVars, mapVars, connVars, readVars, pings, gateVars, crashed>>

KeepStart ==
  /\ kpc = "start"
  /\ nextID' = nextID + 1
  /\ kid' = nextID + 1
  /\ kpc' = "idle"
  /\ UNCHANGED <<callVars, chanVars, pending, late, connVars, readVars, pings, gateVars, crashed>>

KeepTick ==
  /\ kpc = "idle" /\ pings < MaxPings
  /\ pings' = pings + 1
  /\ EnterWrite(Keeper)
  /\ kpc' = "writing"
  /\ UNCHANGED <<callVars, chanVars, mapVars, closing, link, readVars, kid, gateVars, crashed>>

KeepWritten ==
  /\ kpc = "writing"
  /\ \/ LeaveWrite(Keeper, TRUE) /\ kpc' = "stopped"
     \/ LeaveWrite(Keeper, FALSE) /\ kpc' = "idle"
  /\ UNCHANGED <<callVars, chanVars, mapVars, closing, readVars, kid, pings,
                 verdict, replies, crashed>>

KeepStop ==
  /\ kpc = "idle" /\ Done
  /\ kpc' = "stopped"
  /\ UNCHANGED <<callVars, chanVars, mapVars, connVars, readVars, kid, pings, gateVars, crashed>>

---------------------------------------------------------------------------
\* Close: closeOnce lets one caller through; a later one changes nothing.

CloseDone ==
  /\ closing = "open"
  /\ closing' = "closing"
  /\ UNCHANGED <<callVars, chanVars, mapVars, link, clash, readVars, keepVars, gateVars, crashed>>

\* Mutation: Close signals t.done and leaves the connection open.
CloseConn_skipped ==
  /\ closing = "closing"
  /\ closing' = "closed"
  /\ UNCHANGED <<callVars, chanVars, mapVars, link, clash, readVars, keepVars, gateVars, crashed>>

CloseConn ==
  /\ closing = "closing"
  /\ closing' = "closed" /\ link' = "closed"
  /\ UNCHANGED <<callVars, chanVars, mapVars, clash, readVars, keepVars, gateVars, crashed>>

---------------------------------------------------------------------------
\* The network and the gateway.

LoseLink ==
  /\ link = "up"
  /\ link' = "lost"
  /\ UNCHANGED <<callVars, chanVars, mapVars, closing, clash, readVars, keepVars,
                 gateVars, crashed>>

\* The gateway processes a frame that reached it, whatever became of the connection since.
Process(w) ==
  /\ w \in wire /\ verdict[w] = "none"
  /\ \E v \in IF w = Keeper THEN {"pong"} ELSE Verdicts : verdict' = [verdict EXCEPT ![w] = v]
  /\ UNCHANGED <<callVars, chanVars, mapVars, connVars, readVars, keepVars, wire, replies, crashed>>

---------------------------------------------------------------------------
CallStep(c) ==
  \/ TakeID(c) \/ Register(c) \/ MarshalFails(c) \/ BeginWrite(c) \/ EndWrite(c)
  \/ ReceiveReply(c) \/ ReceiveClosed(c) \/ SeeCancel(c) \/ SeeDone(c)
  \/ ClearPending(c)

ReadStep == ReadReply \/ ReadFails \/ TakePending \/ Deliver \/ FailAll

KeepStep == KeepStart \/ KeepTick \/ KeepWritten \/ KeepStop

Next ==
  /\ ~crashed
  /\ \/ \E c \in Calls : CallStep(c)
     \/ ReadStep
     \/ KeepStep
     \/ CloseDone \/ CloseConn
     \/ LoseLink
     \/ \E w \in Writers : Process(w)
     \/ WritePanics

Spec == Init /\ [][Next]_vars

\* Goroutines that can run are scheduled; ReadMessage and WriteMessage return once the
\* connection is gone (TCP keep-alive, on by default in the dialer, notices a dead peer), and
\* a Close that began goes on.  Nothing makes a caller cancel or close, the gateway answer, or
\* a write to a live peer end.
Fairness ==
  /\ \A c \in Calls :
       /\ WF_vars(~crashed /\ (ReceiveReply(c) \/ ReceiveClosed(c) \/ SeeDone(c)))
       /\ WF_vars(~crashed /\ ClearPending(c))
       /\ WF_vars(~crashed /\ (Register(c) \/ MarshalFails(c) \/ BeginWrite(c)))
       /\ WF_vars(~crashed /\ link # "up" /\ EndWrite(c))
  /\ WF_vars(~crashed /\ (TakePending \/ Deliver \/ FailAll))
  /\ WF_vars(~crashed /\ link # "up" /\ ReadFails)
  /\ WF_vars(~crashed /\ (KeepStart \/ KeepStop))
  /\ WF_vars(~crashed /\ link # "up" /\ KeepWritten)
  /\ WF_vars(~crashed /\ CloseConn)

FairSpec == Spec /\ Fairness

---------------------------------------------------------------------------
\* Correctness.

\* A call that decodes a reply decodes one the gateway sent to its own frame and reports what
\* the gateway did: neither another call's reply nor the pong passes for it, and a call does
\* not succeed without the gateway having acted (ws_trade.go, lines 81-87 and 147-151).
OwnReply ==
  \A c \in Calls : ret[c] \notin Failures \cup {"none"} => got[c] = c /\ verdict[c] = ret[c]

\* The reply under way to a call never meets a full or closed channel, so readLoop neither
\* blocks with the connection open nor panics; failAll never closes a channel twice.
ReaderNeverStuck ==
  /\ rpc = "send" => buf[rch] = NoFrame /\ ~closed[rch]
  /\ \A i \in DOMAIN pending : ~closed[pending[i]]

Registered(c) == id[c] \in DOMAIN pending /\ pending[id[c]] = c
InDelivery(c) == rpc = "send" /\ rch = c

\* A call that registered while readLoop ran can be woken through its channel for as long as it
\* waits: readLoop still runs and finds it registered, or holds its reply, or has filled or
\* closed the channel.  No reply is dropped while its call waits, and failAll forgets none.  (A
\* call that registers after failAll is left to t.done and its context: CloseReleases.)
NoLostReply ==
  \A c \in Calls : pc[c] = "wait" /\ c \notin late =>
    (rpc # "stopped" /\ Registered(c)) \/ InDelivery(c) \/ buf[c] # NoFrame \/ closed[c]

\* As long as the connection is open, a call that returned has left the pending map, whatever
\* way it returned: the map does not grow with the calls made.  (After Close the t.done case
\* may leave its entry behind.)
ReturnedNotPending ==
  ~Done => \A i \in DOMAIN pending : pc[pending[i]] # "returned"

\* The connection implements RequestReply.
Abstract == INSTANCE RequestReply WITH
  Outcomes <- Verdicts,
  effect <- [c \in Calls |-> verdict[c]],
  result <- [c \in Calls |-> IF pc[c] = "returned" THEN ret[c] ELSE "none"]
RefinesRequestReply == Abstract!Spec

\* Close "fails any in-flight calls" (line 177): every call that waits, also one registered
\* after readLoop had failed the others, returns once t.done is closed.
CloseReleases ==
  \A c \in Calls : (Done /\ pc[c] = "wait") ~> (pc[c] = "returned" \/ crashed)

\* When the read loop ends, the calls waiting then return without Close or their context.
DeathReleases ==
  \A c \in Calls : (rpc = "failing" /\ pc[c] = "wait") ~> (pc[c] = "returned" \/ crashed)

\* Close ends both goroutines of the connection.
CloseStopsGoroutines ==
  (closing = "closed") ~> (crashed \/ (rpc = "stopped" /\ kpc = "stopped"))

\* "One connection serves any number of concurrent calls" (line 18): calls that overlap do
\* not take the process down.
ConcurrentCallsServed == ~crashed
=============================================================================
