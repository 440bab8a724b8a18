------------------------- MODULE WsTradeConnProofs -------------------------
(***************************************************************************)
(* Proofs about WsTradeConn, for any set of calls and any bounds.  The     *)
(* inductive invariant follows a req_id from the counter through the       *)
(* pending map and the reader to the channel of the call that drew it.     *)
(***************************************************************************)
EXTENDS WsTradeConn, TLAPS

\* req_ids are positive, never above the counter, and never shared, the ping's included.
IdsInv ==
  /\ \A c \in Calls : (id[c] = 0 <=> pc[c] = "idle") /\ id[c] <= nextID
  /\ (kid = 0 <=> kpc = "start") /\ kid <= nextID
  /\ \A w, x \in Writers : ReqID(w) = ReqID(x) => w = x \/ ReqID(w) = 0

\* A pending entry is filed under its call's own id, after which nothing was sent to or closed
\* on that call's channel.
PendingInv ==
  \A i \in DOMAIN pending :
    /\ i = id[pending[i]] /\ i # 0
    /\ pc[pending[i]] # "register"
    /\ buf[pending[i]] = NoFrame /\ ~closed[pending[i]] /\ ~InDelivery(pending[i])
    /\ pc[pending[i]] = "returned" => Done

\* A buffered frame is the gateway's answer to the owner of the buffer, and the only one.
ChannelInv ==
  \A c \in Calls :
    /\ pc[c] \in {"idle", "register"} => buf[c] = NoFrame /\ ~closed[c]
    /\ buf[c] # NoFrame =>
         /\ buf[c].from = c /\ buf[c].verdict = verdict[c] /\ verdict[c] # "none"
         /\ ~closed[c] /\ ~InDelivery(c)

\* The frame the reader holds is an answer of the gateway; the channel it looked up is that
\* of the call answered, and is open and empty.
ReaderInv ==
  /\ rpc \in {"lookup", "send"} =>
       rmsg.from \in Writers /\ rmsg = ReplyTo(rmsg.from) /\ verdict[rmsg.from] # "none"
  /\ rpc = "send" =>
       /\ rch \in Calls /\ rch = rmsg.from /\ pc[rch] \notin {"idle", "register"}
       /\ buf[rch] = NoFrame /\ ~closed[rch]

\* The gateway processes frames that were written, and pongs answer pings only.
GatewayInv ==
  /\ \A w \in wire : ReqID(w) # 0
  /\ \A w \in Writers : verdict[w] # "none" => w \in wire
  /\ \A c \in Calls : verdict[c] \in Verdicts \cup {"none"}

ResultInv ==
  \A c \in Calls :
    /\ pc[c] \notin {"clear", "returned"} => ret[c] = "none"
    /\ pc[c] = "clear" => ret[c] \in Failures
    /\ pc[c] = "returned" => ret[c] \in Verdicts \cup Failures

WaitInv ==
  \A c \in Calls : pc[c] \in {"send", "writing", "wait"} =>
    Registered(c) \/ InDelivery(c) \/ buf[c] # NoFrame \/ closed[c]

IInv ==
  /\ TypeOK /\ IdsInv /\ PendingInv /\ ChannelInv /\ ReaderInv /\ GatewayInv
  /\ ResultInv /\ WaitInv /\ OwnReply

---------------------------------------------------------------------------
\* One lemma per action: a step for each conjunct whose variables the action changes, then
\* one for the conjuncts it leaves alone.

LEMMA TakeIDStep == ASSUME IInv, NEW c \in Calls, TakeID(c) PROVE IInv'
<1> USE DEF IInv, TakeID, chanVars, connVars, readVars, keepVars, gateVars
<1>1. TypeOK'
  BY ActorsAssumption, VerdictsAssumption DEF TypeOK, Frame, Writers, Failures
<1>2. IdsInv'
  BY ActorsAssumption, VerdictsAssumption DEF IdsInv, TypeOK, ReqID, Frame, Writers, Failures
<1>3. PendingInv'
  BY ActorsAssumption, VerdictsAssumption DEF PendingInv, TypeOK, IdsInv, Done, ReqID,
     InDelivery, Frame, NoFrame, Writers, Failures
<1>4. ChannelInv'
  BY DEF ChannelInv, InDelivery, NoFrame
<1>5. ReaderInv'
  BY ActorsAssumption, VerdictsAssumption DEF ReaderInv, TypeOK, IdsInv, PendingInv,
     ChannelInv, GatewayInv, Done, ReqID, ReplyTo,
    InDelivery, Frame, NoFrame, Writers, Failures
<1>6. GatewayInv'
  BY ActorsAssumption, VerdictsAssumption DEF GatewayInv, TypeOK, ReqID, Frame, Writers,
     Failures
<1>7. ResultInv'
  BY VerdictsAssumption DEF ResultInv, Failures
<1>8. WaitInv'
  BY DEF WaitInv, Registered, InDelivery, NoFrame
<1>9. OwnReply'
  BY DEF OwnReply, Failures
<1> QED BY <1>1, <1>2, <1>3, <1>4, <1>5, <1>6, <1>7, <1>8, <1>9

LEMMA RegisterStep == ASSUME IInv, NEW c \in Calls, Register(c) PROVE IInv'
<1> USE DEF IInv, Register, chanVars, connVars, readVars, keepVars, gateVars
<1>1. TypeOK'
  BY ActorsAssumption, VerdictsAssumption DEF TypeOK, Frame, Writers, Failures
<1>2. IdsInv'
  BY ActorsAssumption DEF IdsInv, ReqID, Writers
<1>3. PendingInv'
  BY ActorsAssumption, VerdictsAssumption DEF PendingInv, TypeOK, IdsInv, ChannelInv,
     ReaderInv, Done, ReqID, ReplyTo, InDelivery,
    Frame, NoFrame, Writers, Failures
<1>4. ChannelInv'
  BY DEF ChannelInv, InDelivery, NoFrame
<1>5. ReaderInv'
  BY ActorsAssumption DEF ReaderInv, ReqID, ReplyTo, NoFrame, Writers
<1>6. ResultInv'
  BY VerdictsAssumption DEF ResultInv, Failures
<1>7. WaitInv'
  BY ActorsAssumption, VerdictsAssumption DEF WaitInv, TypeOK, IdsInv, ReqID, Registered,
     InDelivery, Frame, NoFrame, Writers,
    Failures
<1>8. GatewayInv' /\ OwnReply'
  BY DEF GatewayInv, OwnReply, ReqID, Writers, Failures
<1> QED BY <1>1, <1>2, <1>3, <1>4, <1>5, <1>6, <1>7, <1>8

LEMMA MarshalFailsStep == ASSUME IInv, NEW c \in Calls, MarshalFails(c) PROVE IInv'
<1> USE DEF IInv, MarshalFails, chanVars, mapVars, connVars, readVars, keepVars, gateVars
<1>1. TypeOK'
  BY ActorsAssumption, VerdictsAssumption DEF TypeOK, GiveUp, Frame, Writers, Failures
<1>2. IdsInv'
  BY ActorsAssumption DEF IdsInv, GiveUp, ReqID, Writers
<1>3. PendingInv'
  BY DEF PendingInv, GiveUp, Done, InDelivery, NoFrame
<1>4. ChannelInv'
  BY DEF ChannelInv, GiveUp, InDelivery, NoFrame
<1>5. ReaderInv'
  BY ActorsAssumption DEF ReaderInv, GiveUp, ReqID, ReplyTo, NoFrame, Writers
<1>6. ResultInv'
  BY ActorsAssumption, VerdictsAssumption DEF ResultInv, TypeOK, GiveUp, Frame, Writers,
     Failures
<1>7. WaitInv'
  BY DEF WaitInv, GiveUp, Registered, InDelivery, NoFrame
<1>8. OwnReply'
  BY VerdictsAssumption DEF OwnReply, GiveUp, Failures
<1>9. GatewayInv'
  BY DEF GatewayInv, ReqID, Writers
<1> QED BY <1>1, <1>2, <1>3, <1>4, <1>5, <1>6, <1>7, <1>8, <1>9

LEMMA BeginWriteStep == ASSUME IInv, NEW c \in Calls, BeginWrite(c) PROVE IInv'
<1> USE DEF IInv, BeginWrite, chanVars, mapVars, readVars, keepVars, gateVars
<1>1. TypeOK'
  BY ActorsAssumption, VerdictsAssumption DEF TypeOK, EnterWrite, Writing, Frame, Writers,
     Failures
<1>2. IdsInv'
  BY ActorsAssumption DEF IdsInv, EnterWrite, Writing, ReqID, Writers
<1>3. PendingInv'
  BY DEF PendingInv, EnterWrite, Done, Writing, InDelivery, NoFrame
<1>4. ChannelInv'
  BY DEF ChannelInv, EnterWrite, Writing, InDelivery, NoFrame
<1>5. ReaderInv'
  BY ActorsAssumption DEF ReaderInv, EnterWrite, Writing, ReqID, ReplyTo, NoFrame, Writers
<1>6. ResultInv'
  BY VerdictsAssumption DEF ResultInv, EnterWrite, Writing, Failures
<1>7. WaitInv'
  BY DEF WaitInv, EnterWrite, Writing, Registered, InDelivery, NoFrame
<1>8. GatewayInv' /\ OwnReply'
  BY DEF GatewayInv, OwnReply, ReqID, Writers, Failures
<1> QED BY <1>1, <1>2, <1>3, <1>4, <1>5, <1>6, <1>7, <1>8

LEMMA EndWriteStep == ASSUME IInv, NEW c \in Calls, EndWrite(c) PROVE IInv'
<1> USE DEF IInv, EndWrite, chanVars, mapVars, readVars, keepVars
<1>1. TypeOK'
  BY ActorsAssumption, VerdictsAssumption DEF TypeOK, LeaveWrite, GiveUp, Frame, Writers,
     Failures
<1>2. IdsInv'
  BY ActorsAssumption, VerdictsAssumption DEF IdsInv, TypeOK, LeaveWrite, GiveUp, ReqID,
     Frame, Writers, Failures
<1>3. PendingInv'
  BY ActorsAssumption, VerdictsAssumption DEF PendingInv, TypeOK, LeaveWrite, GiveUp, Done,
     InDelivery, Frame, NoFrame, Writers,
    Failures
<1>4. ChannelInv'
  BY ActorsAssumption, VerdictsAssumption DEF ChannelInv, TypeOK, LeaveWrite, GiveUp,
     InDelivery, Frame, NoFrame, Writers, Failures
<1>5. ReaderInv'
  BY ActorsAssumption, VerdictsAssumption DEF ReaderInv, TypeOK, LeaveWrite, GiveUp, ReqID,
     ReplyTo, Frame, NoFrame, Writers,
    Failures
<1>6. GatewayInv'
  BY ActorsAssumption, VerdictsAssumption DEF GatewayInv, TypeOK, IdsInv, LeaveWrite, GiveUp,
     ReqID, Frame, Writers, Failures
<1>7. ResultInv'
  BY ActorsAssumption, VerdictsAssumption DEF ResultInv, TypeOK, LeaveWrite, GiveUp, Frame,
     Writers, Failures
<1>8. WaitInv'
  BY ActorsAssumption, VerdictsAssumption DEF WaitInv, TypeOK, LeaveWrite, GiveUp, Registered,
     InDelivery, Frame, NoFrame, Writers,
    Failures
<1>9. OwnReply'
  BY ActorsAssumption, VerdictsAssumption DEF OwnReply, TypeOK, LeaveWrite, GiveUp, Frame,
     Writers, Failures
<1> QED BY <1>1, <1>2, <1>3, <1>4, <1>5, <1>6, <1>7, <1>8, <1>9

LEMMA ReceiveReplyStep == ASSUME IInv, NEW c \in Calls, ReceiveReply(c) PROVE IInv'
<1> USE DEF IInv, ReceiveReply, mapVars, connVars, readVars, keepVars, gateVars
<1>1. TypeOK'
  BY ActorsAssumption, VerdictsAssumption DEF TypeOK, Frame, NoFrame, Writers, Failures
<1>2. IdsInv'
  BY ActorsAssumption DEF IdsInv, ReqID, NoFrame, Writers
<1>3. PendingInv'
  BY DEF PendingInv, Done, InDelivery, NoFrame
<1>4. ChannelInv'
  BY DEF ChannelInv, InDelivery, NoFrame
<1>5. ReaderInv'
  BY ActorsAssumption DEF ReaderInv, ReqID, ReplyTo, NoFrame, Writers
<1>6. ResultInv'
  BY ActorsAssumption, VerdictsAssumption DEF ResultInv, TypeOK, ChannelInv, GatewayInv,
     ReqID, InDelivery, Frame, NoFrame, Writers,
    Failures
<1>7. WaitInv'
  BY ActorsAssumption, VerdictsAssumption DEF WaitInv, TypeOK, Registered, InDelivery, Frame,
     NoFrame, Writers, Failures
<1>8. OwnReply'
  BY ActorsAssumption, VerdictsAssumption DEF OwnReply, TypeOK, ChannelInv, InDelivery, Frame,
     NoFrame, Writers, Failures
<1>9. GatewayInv'
  BY DEF GatewayInv, ReqID, Writers
<1> QED BY <1>1, <1>2, <1>3, <1>4, <1>5, <1>6, <1>7, <1>8, <1>9

LEMMA ReceiveClosedStep == ASSUME IInv, NEW c \in Calls, ReceiveClosed(c) PROVE IInv'
<1> USE DEF IInv, ReceiveClosed, chanVars, mapVars, connVars, readVars, keepVars, gateVars
<1>1. TypeOK'
  BY ActorsAssumption, VerdictsAssumption DEF TypeOK, Frame, NoFrame, Writers, Failures
<1>2. IdsInv'
  BY ActorsAssumption DEF IdsInv, ReqID, NoFrame, Writers
<1>3. PendingInv'
  BY DEF PendingInv, Done, InDelivery, NoFrame
<1>4. ChannelInv'
  BY DEF ChannelInv, InDelivery, NoFrame
<1>5. ReaderInv'
  BY ActorsAssumption DEF ReaderInv, ReqID, ReplyTo, NoFrame, Writers
<1>6. ResultInv'
  BY ActorsAssumption, VerdictsAssumption DEF ResultInv, TypeOK, Frame, NoFrame, Writers,
     Failures
<1>7. WaitInv'
  BY DEF WaitInv, Registered, InDelivery, NoFrame
<1>8. OwnReply'
  BY VerdictsAssumption DEF OwnReply, NoFrame, Failures
<1>9. GatewayInv'
  BY DEF GatewayInv, ReqID, Writers
<1> QED BY <1>1, <1>2, <1>3, <1>4, <1>5, <1>6, <1>7, <1>8, <1>9

LEMMA SeeCancelStep == ASSUME IInv, NEW c \in Calls, SeeCancel(c) PROVE IInv'
<1> USE DEF IInv, SeeCancel, chanVars, mapVars, connVars, readVars, keepVars, gateVars
<1>1. TypeOK'
  BY ActorsAssumption, VerdictsAssumption DEF TypeOK, GiveUp, Frame, Writers, Failures
<1>2. IdsInv'
  BY ActorsAssumption DEF IdsInv, GiveUp, ReqID, Writers
<1>3. PendingInv'
  BY DEF PendingInv, GiveUp, Done, InDelivery, NoFrame
<1>4. ChannelInv'
  BY DEF ChannelInv, GiveUp, InDelivery, NoFrame
<1>5. ReaderInv'
  BY ActorsAssumption DEF ReaderInv, GiveUp, ReqID, ReplyTo, NoFrame, Writers
<1>6. ResultInv'
  BY ActorsAssumption, VerdictsAssumption DEF ResultInv, TypeOK, GiveUp, Frame, Writers,
     Failures
<1>7. WaitInv'
  BY DEF WaitInv, GiveUp, Registered, InDelivery, NoFrame
<1>8. OwnReply'
  BY VerdictsAssumption DEF OwnReply, GiveUp, Failures
<1>9. GatewayInv'
  BY DEF GatewayInv, ReqID, Writers
<1> QED BY <1>1, <1>2, <1>3, <1>4, <1>5, <1>6, <1>7, <1>8, <1>9

LEMMA SeeDoneStep == ASSUME IInv, NEW c \in Calls, SeeDone(c) PROVE IInv'
<1> USE DEF IInv, SeeDone, chanVars, mapVars, connVars, readVars, keepVars, gateVars
<1>1. TypeOK'
  BY ActorsAssumption, VerdictsAssumption DEF TypeOK, Done, Frame, Writers, Failures
<1>2. IdsInv'
  BY ActorsAssumption DEF IdsInv, Done, ReqID, Writers
<1>3. PendingInv'
  BY DEF PendingInv, Done, InDelivery, NoFrame
<1>4. ChannelInv'
  BY DEF ChannelInv, Done, InDelivery, NoFrame
<1>5. ReaderInv'
  BY ActorsAssumption DEF ReaderInv, Done, ReqID, ReplyTo, NoFrame, Writers
<1>6. ResultInv'
  BY ActorsAssumption, VerdictsAssumption DEF ResultInv, TypeOK, Done, Frame, Writers, Failures
<1>7. WaitInv'
  BY DEF WaitInv, Done, Registered, InDelivery, NoFrame
<1>8. OwnReply'
  BY VerdictsAssumption DEF OwnReply, Done, Failures
<1>9. GatewayInv'
  BY DEF GatewayInv, ReqID, Writers
<1> QED BY <1>1, <1>2, <1>3, <1>4, <1>5, <1>6, <1>7, <1>8, <1>9

LEMMA ClearPendingStep == ASSUME IInv, NEW c \in Calls, ClearPending(c) PROVE IInv'
<1> USE DEF IInv, ClearPending, chanVars, connVars, readVars, keepVars, gateVars
<1>1. TypeOK'
  BY ActorsAssumption, VerdictsAssumption DEF TypeOK, Unregister, Restrict, Frame, Writers,
     Failures
<1>2. IdsInv'
  BY ActorsAssumption DEF IdsInv, Unregister, Restrict, ReqID, Writers
<1>3. PendingInv'
  BY DEF PendingInv, Unregister, Restrict, Done, InDelivery, NoFrame
<1>4. ChannelInv'
  BY DEF ChannelInv, Unregister, Restrict, InDelivery, NoFrame
<1>5. ReaderInv'
  BY ActorsAssumption DEF ReaderInv, Unregister, Restrict, ReqID, ReplyTo, NoFrame, Writers
<1>6. ResultInv'
  BY VerdictsAssumption DEF ResultInv, Unregister, Restrict, Failures
<1>7. WaitInv'
  BY ActorsAssumption, VerdictsAssumption DEF WaitInv, TypeOK, IdsInv, Unregister, Restrict,
     ReqID, Registered, InDelivery, Frame,
    NoFrame, Writers, Failures
<1>8. GatewayInv' /\ OwnReply'
  BY DEF GatewayInv, OwnReply, ReqID, Writers, Failures
<1> QED BY <1>1, <1>2, <1>3, <1>4, <1>5, <1>6, <1>7, <1>8

LEMMA ReadReplyStep == ASSUME IInv, ReadReply PROVE IInv'
<1> USE DEF IInv, ReadReply, callVars, chanVars, mapVars, connVars, keepVars
<1>1. TypeOK'
  BY ActorsAssumption, VerdictsAssumption, BoundsAssumption DEF TypeOK, ReqID, ReplyTo, Frame,
     Writers, Failures
<1>2. PendingInv'
  BY ActorsAssumption DEF PendingInv, Done, ReqID, ReplyTo, InDelivery, NoFrame
<1>3. ChannelInv'
  BY ActorsAssumption DEF ChannelInv, ReqID, ReplyTo, InDelivery, NoFrame
<1>4. ReaderInv'
  BY ActorsAssumption DEF ReaderInv, ReqID, ReplyTo, NoFrame, Writers
<1>5. WaitInv'
  BY ActorsAssumption DEF WaitInv, ReqID, ReplyTo, Registered, InDelivery, NoFrame
<1>6. IdsInv' /\ GatewayInv' /\ ResultInv' /\ OwnReply'
  BY DEF IdsInv, GatewayInv, ResultInv, OwnReply, ReqID, Writers, Failures
<1> QED BY <1>1, <1>2, <1>3, <1>4, <1>5, <1>6

LEMMA ReadFailsStep == ASSUME IInv, ReadFails PROVE IInv'
<1> USE DEF IInv, ReadFails, callVars, chanVars, mapVars, connVars, keepVars, gateVars
<1>1. TypeOK'
  BY ActorsAssumption, VerdictsAssumption DEF TypeOK, Frame, Writers, Failures
<1>2. PendingInv'
  BY DEF PendingInv, Done, InDelivery, NoFrame
<1>3. ChannelInv'
  BY DEF ChannelInv, InDelivery, NoFrame
<1>4. ReaderInv'
  BY ActorsAssumption DEF ReaderInv, ReqID, ReplyTo, NoFrame, Writers
<1>5. WaitInv'
  BY DEF WaitInv, Registered, InDelivery, NoFrame
<1>6. IdsInv' /\ GatewayInv' /\ ResultInv' /\ OwnReply'
  BY DEF IdsInv, GatewayInv, ResultInv, OwnReply, ReqID, Writers, Failures
<1> QED BY <1>1, <1>2, <1>3, <1>4, <1>5, <1>6

LEMMA TakePendingStep == ASSUME IInv, TakePending PROVE IInv'
<1> USE DEF IInv, TakePending, callVars, chanVars, connVars, keepVars, gateVars
<1>1. TypeOK'
  BY ActorsAssumption, VerdictsAssumption DEF TypeOK, Unregister, Restrict, Frame, NoFrame,
     Writers, Failures
<1>2. PendingInv'
  BY DEF PendingInv, Unregister, Restrict, Done, InDelivery, NoFrame
<1>3. ChannelInv'
  BY ActorsAssumption, VerdictsAssumption DEF ChannelInv, TypeOK, IdsInv, PendingInv,
     Unregister, Restrict, Done, ReqID, InDelivery,
    Frame, NoFrame, Writers, Failures
<1>4. ReaderInv'
  BY ActorsAssumption, VerdictsAssumption DEF ReaderInv, TypeOK, IdsInv, PendingInv,
     Unregister, Restrict, Done, ReqID, ReplyTo,
    InDelivery, Frame, NoFrame, Writers, Failures
<1>5. WaitInv'
  BY DEF WaitInv, Unregister, Restrict, Registered, InDelivery, NoFrame
<1>6. IdsInv' /\ GatewayInv' /\ ResultInv' /\ OwnReply'
  BY DEF IdsInv, GatewayInv, ResultInv, OwnReply, ReqID, Writers, Failures
<1> QED BY <1>1, <1>2, <1>3, <1>4, <1>5, <1>6

LEMMA DeliverStep == ASSUME IInv, Deliver PROVE IInv'
<1> USE DEF IInv, Deliver, callVars, mapVars, connVars, keepVars, gateVars
<1>1. TypeOK'
  BY ActorsAssumption, VerdictsAssumption DEF TypeOK, Frame, NoFrame, Writers, Failures
<1>2. PendingInv'
  BY DEF PendingInv, Done, InDelivery, NoFrame
<1>3. ChannelInv'
  BY ActorsAssumption, VerdictsAssumption DEF ChannelInv, TypeOK, IdsInv, ReaderInv, ReqID,
     ReplyTo, InDelivery, Frame, NoFrame,
    Writers, Failures
<1>4. ReaderInv'
  BY ActorsAssumption DEF ReaderInv, ReqID, ReplyTo, NoFrame, Writers
<1>5. WaitInv'
  BY ActorsAssumption, VerdictsAssumption DEF WaitInv, TypeOK, IdsInv, ReaderInv, ReqID,
     ReplyTo, Registered, InDelivery, Frame,
    NoFrame, Writers, Failures
<1>6. IdsInv' /\ GatewayInv' /\ ResultInv' /\ OwnReply'
  BY DEF IdsInv, GatewayInv, ResultInv, OwnReply, ReqID, Writers, Failures
<1> QED BY <1>1, <1>2, <1>3, <1>4, <1>5, <1>6

LEMMA FailAllStep == ASSUME IInv, FailAll PROVE IInv'
<1> USE DEF IInv, FailAll, callVars, connVars, keepVars, gateVars
<1>1. TypeOK'
  BY ActorsAssumption, VerdictsAssumption DEF TypeOK, Restrict, Range, Frame, Writers, Failures
<1>2. PendingInv'
  BY DEF PendingInv, Restrict, Range, Done, InDelivery, NoFrame
<1>3. ChannelInv'
  BY ActorsAssumption, VerdictsAssumption DEF ChannelInv, TypeOK, IdsInv, PendingInv,
     Restrict, Range, Done, ReqID, InDelivery,
    Frame, NoFrame, Writers, Failures
<1>4. ReaderInv'
  BY ActorsAssumption DEF ReaderInv, Restrict, Range, ReqID, ReplyTo, NoFrame, Writers
<1>5. WaitInv'
  BY DEF WaitInv, Restrict, Range, Registered, InDelivery, NoFrame
<1>6. IdsInv' /\ GatewayInv' /\ ResultInv' /\ OwnReply'
  BY DEF IdsInv, GatewayInv, ResultInv, OwnReply, ReqID, Writers, Failures
<1> QED BY <1>1, <1>2, <1>3, <1>4, <1>5, <1>6

LEMMA KeepStartStep == ASSUME IInv, KeepStart PROVE IInv'
<1> USE DEF IInv, KeepStart, callVars, chanVars, connVars, readVars, gateVars
<1>1. TypeOK'
  BY ActorsAssumption, VerdictsAssumption DEF TypeOK, Frame, Writers, Failures
<1>2. IdsInv'
  BY ActorsAssumption, VerdictsAssumption DEF IdsInv, TypeOK, ReqID, Frame, Writers, Failures
<1>3. ReaderInv'
  BY ActorsAssumption, VerdictsAssumption DEF ReaderInv, TypeOK, IdsInv, PendingInv,
     ChannelInv, GatewayInv, Done, ReqID, ReplyTo,
    InDelivery, Frame, NoFrame, Writers, Failures
<1>4. GatewayInv'
  BY ActorsAssumption, VerdictsAssumption DEF GatewayInv, TypeOK, ReqID, Frame, Writers,
     Failures
<1>5. PendingInv' /\ ChannelInv' /\ ResultInv' /\ WaitInv' /\ OwnReply'
  BY DEF PendingInv, ChannelInv, ResultInv, WaitInv, OwnReply, Done, Registered, InDelivery,
    NoFrame, Failures
<1> QED BY <1>1, <1>2, <1>3, <1>4, <1>5

LEMMA KeepTickStep == ASSUME IInv, KeepTick PROVE IInv'
<1> USE DEF IInv, KeepTick, callVars, chanVars, mapVars, readVars, gateVars
<1>1. TypeOK'
  BY ActorsAssumption, VerdictsAssumption, BoundsAssumption DEF TypeOK, EnterWrite, Writing,
     Frame, Writers, Failures
<1>2. IdsInv'
  BY ActorsAssumption DEF IdsInv, EnterWrite, Writing, ReqID, Writers
<1>3. PendingInv' /\ ChannelInv' /\ ReaderInv' /\ GatewayInv' /\ ResultInv' /\ WaitInv' /\ OwnReply'
  BY DEF PendingInv, ChannelInv, ReaderInv, GatewayInv, ResultInv, WaitInv, OwnReply, Done,
    ReqID, ReplyTo, Registered, InDelivery, NoFrame, Writers, Failures
<1> QED BY <1>1, <1>2, <1>3

LEMMA KeepWrittenStep == ASSUME IInv, KeepWritten PROVE IInv'
<1> USE DEF IInv, KeepWritten, callVars, chanVars, mapVars, readVars
<1>1. TypeOK'
  BY ActorsAssumption, VerdictsAssumption DEF TypeOK, LeaveWrite, Frame, Writers, Failures
<1>2. IdsInv'
  BY ActorsAssumption DEF IdsInv, LeaveWrite, ReqID, Writers
<1>3. GatewayInv'
  BY ActorsAssumption, VerdictsAssumption DEF GatewayInv, TypeOK, IdsInv, LeaveWrite, ReqID,
     Frame, Writers, Failures
<1>4. PendingInv' /\ ChannelInv' /\ ReaderInv' /\ ResultInv' /\ WaitInv' /\ OwnReply'
  BY DEF PendingInv, ChannelInv, ReaderInv, ResultInv, WaitInv, OwnReply, Done, ReqID, ReplyTo,
    Registered, InDelivery, NoFrame, Writers, Failures
<1> QED BY <1>1, <1>2, <1>3, <1>4

LEMMA KeepStopStep == ASSUME IInv, KeepStop PROVE IInv'
<1> USE DEF IInv, KeepStop, callVars, chanVars, mapVars, connVars, readVars, gateVars
<1>1. TypeOK'
  BY ActorsAssumption, VerdictsAssumption DEF TypeOK, Done, Frame, Writers, Failures
<1>2. IdsInv'
  BY ActorsAssumption DEF IdsInv, Done, ReqID, Writers
<1>3. PendingInv' /\ ChannelInv' /\ ReaderInv' /\ GatewayInv' /\ ResultInv' /\ WaitInv' /\ OwnReply'
  BY DEF PendingInv, ChannelInv, ReaderInv, GatewayInv, ResultInv, WaitInv, OwnReply, Done,
    ReqID, ReplyTo, Registered, InDelivery, NoFrame, Writers, Failures
<1> QED BY <1>1, <1>2, <1>3

LEMMA CloseDoneStep == ASSUME IInv, CloseDone PROVE IInv'
<1> USE DEF IInv, CloseDone, callVars, chanVars, mapVars, readVars, keepVars, gateVars
<1>1. TypeOK'
  BY ActorsAssumption, VerdictsAssumption DEF TypeOK, Frame, Writers, Failures
<1>2. PendingInv'
  BY DEF PendingInv, Done, InDelivery, NoFrame
<1>3. IdsInv' /\ ChannelInv' /\ ReaderInv' /\ GatewayInv' /\ ResultInv' /\ WaitInv' /\ OwnReply'
  BY DEF IdsInv, ChannelInv, ReaderInv, GatewayInv, ResultInv, WaitInv, OwnReply, ReqID,
    ReplyTo, Registered, InDelivery, NoFrame, Writers, Failures
<1> QED BY <1>1, <1>2, <1>3

LEMMA CloseConnStep == ASSUME IInv, CloseConn PROVE IInv'
<1> USE DEF IInv, CloseConn, callVars, chanVars, mapVars, readVars, keepVars, gateVars
<1>1. TypeOK'
  BY ActorsAssumption, VerdictsAssumption DEF TypeOK, Frame, Writers, Failures
<1>2. PendingInv'
  BY DEF PendingInv, Done, InDelivery, NoFrame
<1>3. IdsInv' /\ ChannelInv' /\ ReaderInv' /\ GatewayInv' /\ ResultInv' /\ WaitInv' /\ OwnReply'
  BY DEF IdsInv, ChannelInv, ReaderInv, GatewayInv, ResultInv, WaitInv, OwnReply, ReqID,
    ReplyTo, Registered, InDelivery, NoFrame, Writers, Failures
<1> QED BY <1>1, <1>2, <1>3

LEMMA LoseLinkStep == ASSUME IInv, LoseLink PROVE IInv'
<1> USE DEF IInv, LoseLink, callVars, chanVars, mapVars, readVars, keepVars, gateVars
<1>1. TypeOK'
  BY ActorsAssumption, VerdictsAssumption DEF TypeOK, Frame, Writers, Failures
<1>2. /\ IdsInv' /\ PendingInv' /\ ChannelInv' /\ ReaderInv'
      /\ GatewayInv' /\ ResultInv' /\ WaitInv' /\ OwnReply'
  BY DEF IdsInv, PendingInv, ChannelInv, ReaderInv, GatewayInv, ResultInv, WaitInv, OwnReply,
    Done, ReqID, ReplyTo, Registered, InDelivery, NoFrame, Writers, Failures
<1> QED BY <1>1, <1>2

LEMMA ProcessStep == ASSUME IInv, NEW w \in Writers, Process(w) PROVE IInv'
<1> USE DEF IInv, Process, callVars, chanVars, mapVars, connVars, readVars, keepVars
<1>1. TypeOK'
  BY ActorsAssumption, VerdictsAssumption DEF TypeOK, Frame, Writers, Failures
<1>2. PendingInv'
  BY DEF PendingInv, Done, InDelivery, NoFrame
<1>3. ChannelInv'
  BY DEF ChannelInv, InDelivery, NoFrame
<1>4. ReaderInv'
  BY ActorsAssumption DEF ReaderInv, ReqID, ReplyTo, NoFrame, Writers
<1>5. GatewayInv'
  BY ActorsAssumption DEF GatewayInv, ReqID, Writers
<1>6. WaitInv'
  BY DEF WaitInv, Registered, InDelivery, NoFrame
<1>7. OwnReply'
  BY VerdictsAssumption DEF OwnReply, Failures
<1>8. IdsInv' /\ ResultInv'
  BY DEF IdsInv, ResultInv, ReqID, Writers, Failures
<1> QED BY <1>1, <1>2, <1>3, <1>4, <1>5, <1>6, <1>7, <1>8

LEMMA WritePanicsStep == ASSUME IInv, WritePanics PROVE IInv'
<1> USE DEF IInv, WritePanics, callVars, chanVars, mapVars, connVars, readVars, keepVars, gateVars
<1>1. TypeOK'
  BY ActorsAssumption, VerdictsAssumption DEF TypeOK, Frame, Writers, Failures
<1>2. /\ IdsInv' /\ PendingInv' /\ ChannelInv' /\ ReaderInv'
      /\ GatewayInv' /\ ResultInv' /\ WaitInv' /\ OwnReply'
  BY DEF IdsInv, PendingInv, ChannelInv, ReaderInv, GatewayInv, ResultInv, WaitInv, OwnReply,
    Done, ReqID, ReplyTo, Registered, InDelivery, NoFrame, Writers, Failures
<1> QED BY <1>1, <1>2

---------------------------------------------------------------------------
\* The pieces together.

LEMMA InitEstablishes == Init => IInv
<1> SUFFICES ASSUME Init PROVE IInv
  OBVIOUS
<1> USE ActorsAssumption, BoundsAssumption DEF Init
<1>1. TypeOK
  <2>1. DOMAIN pending = {} /\ pending \in [DOMAIN pending -> Calls]
    OBVIOUS
  <2>2. NoFrame \in Frame
    BY DEF NoFrame, Frame
  <2>3. 0 \in 0 .. MaxPings /\ 0 \in 0 .. MaxReplies
    OBVIOUS
  <2>4. /\ pc \in [Calls -> {"idle", "register", "send", "writing", "wait", "clear", "returned"}]
        /\ id \in [Calls -> Nat]
        /\ ret \in [Calls -> Verdicts \cup Failures \cup {"none", "pong"}]
        /\ got \in [Calls -> Writers \cup {NoCall}]
        /\ closed \in [Calls -> BOOLEAN]
        /\ verdict \in [Writers -> Verdicts \cup {"none", "pong"}]
    OBVIOUS
  <2>5. buf \in [Calls -> Frame] /\ rmsg \in Frame
    BY <2>2
  <2>6. replies \in [Writers -> 0 .. MaxReplies]
    BY <2>3
  <2> QED
    BY <2>1, <2>3, <2>4, <2>5, <2>6 DEF TypeOK
<1>2. IdsInv
  BY DEF IdsInv, ReqID, Writers
<1>3. PendingInv /\ ChannelInv /\ ReaderInv
  BY DEF PendingInv, ChannelInv, ReaderInv, NoFrame
<1>4. GatewayInv /\ ResultInv /\ WaitInv /\ OwnReply
  BY DEF GatewayInv, ResultInv, WaitInv, OwnReply, Writers
<1> QED
  BY <1>1, <1>2, <1>3, <1>4 DEF IInv

LEMMA StutterPreserves == ASSUME IInv, UNCHANGED vars PROVE IInv'
<1> USE DEF IInv, vars, callVars, chanVars, mapVars, connVars, readVars, keepVars, gateVars
<1>1. TypeOK'
  BY DEF TypeOK
<1>2. IdsInv' /\ ReaderInv' /\ GatewayInv'
  BY DEF IdsInv, ReaderInv, GatewayInv, ReqID, ReplyTo
<1>3. PendingInv' /\ ChannelInv'
  BY DEF PendingInv, ChannelInv, InDelivery, Done
<1>4. ResultInv' /\ WaitInv' /\ OwnReply'
  BY DEF ResultInv, WaitInv, OwnReply, Registered, InDelivery
<1> QED
  BY <1>1, <1>2, <1>3, <1>4

LEMMA NextPreserves == IInv /\ [Next]_vars => IInv'
<1> SUFFICES ASSUME IInv, [Next]_vars PROVE IInv'
  OBVIOUS
<1>1. ASSUME NEW c \in Calls, CallStep(c) PROVE IInv'
  BY <1>1, TakeIDStep, RegisterStep, MarshalFailsStep, BeginWriteStep, EndWriteStep,
     ReceiveReplyStep, ReceiveClosedStep, SeeCancelStep, SeeDoneStep, ClearPendingStep
     DEF CallStep
<1>2. CASE ReadStep
  BY <1>2, ReadReplyStep, ReadFailsStep, TakePendingStep, DeliverStep, FailAllStep DEF ReadStep
<1>3. CASE KeepStep
  BY <1>3, KeepStartStep, KeepTickStep, KeepWrittenStep, KeepStopStep DEF KeepStep
<1>4. CASE CloseDone \/ CloseConn \/ LoseLink \/ WritePanics
  BY <1>4, CloseDoneStep, CloseConnStep, LoseLinkStep, WritePanicsStep
<1>5. ASSUME NEW w \in Writers, Process(w) PROVE IInv'
  BY <1>5, ProcessStep
<1>6. CASE UNCHANGED vars
  BY <1>6, StutterPreserves
<1> QED
  BY <1>1, <1>2, <1>3, <1>4, <1>5, <1>6 DEF Next

\* The invariant holds of every behaviour.
THEOREM Invariance == Spec => []IInv
  BY InitEstablishes, NextPreserves, PTL DEF Spec

\* Every variable keeps its type, in any behaviour of any number of calls.
THEOREM TypeCorrect == Spec => []TypeOK
<1>1. IInv => TypeOK
  BY DEF IInv
<1> QED
  BY Invariance, <1>1, PTL

\* No call is ever answered by another call's reply or by the pong, and none reports an
\* outcome the gateway did not decide for it (readLoop and call, ws_trade.go 67-89, 124-158).
THEOREM RepliesAreOwn == Spec => []OwnReply
<1>1. IInv => OwnReply
  BY DEF IInv
<1> QED
  BY Invariance, <1>1, PTL

\* readLoop's send after unlocking never blocks on a full channel nor hits a closed one, and
\* failAll never closes a channel twice (ws_trade.go 81-87, 107-114).
THEOREM ReaderRuns == Spec => []ReaderNeverStuck
<1>1. IInv => ReaderNeverStuck
  BY DEF IInv, ReaderNeverStuck, ReaderInv, PendingInv
<1> QED
  BY Invariance, <1>1, PTL

\* Once readLoop has stopped, the map holds late calls only.
LateInv == rpc = "stopped" => \A i \in DOMAIN pending : pending[i] \in late

LEMMA LateStep == ASSUME TypeOK, LateInv, [Next]_vars PROVE LateInv'
<1>1. ASSUME NEW c \in Calls, Register(c) PROVE LateInv'
  BY <1>1 DEF Register, LateInv, readVars
<1>2. ASSUME NEW c \in Calls, ClearPending(c) PROVE LateInv'
  BY <1>2 DEF ClearPending, Unregister, Restrict, LateInv, readVars
<1>3. ASSUME NEW c \in Calls,
             TakeID(c) \/ MarshalFails(c) \/ BeginWrite(c) \/ EndWrite(c) \/ ReceiveReply(c)
               \/ ReceiveClosed(c) \/ SeeCancel(c) \/ SeeDone(c)
      PROVE  LateInv'
  BY <1>3 DEF TakeID, MarshalFails, BeginWrite, EndWrite, ReceiveReply, ReceiveClosed,
              SeeCancel, SeeDone, LateInv, mapVars, readVars
<1>4. CASE ReadReply \/ ReadFails \/ TakePending \/ Deliver
  BY <1>4 DEF ReadReply, ReadFails, TakePending, Deliver, LateInv
<1>5. CASE FailAll
  BY <1>5 DEF FailAll, Restrict, LateInv
<1>6. CASE KeepStep \/ CloseDone \/ CloseConn \/ LoseLink \/ WritePanics
  BY <1>6 DEF KeepStep, KeepStart, KeepTick, KeepWritten, KeepStop, CloseDone, CloseConn,
              LoseLink, WritePanics, LateInv, mapVars, readVars
<1>7. ASSUME NEW w \in Writers, Process(w) PROVE LateInv'
  BY <1>7 DEF Process, LateInv, mapVars, readVars
<1>8. CASE UNCHANGED vars
  BY <1>8 DEF vars, LateInv, mapVars, readVars
<1> QED
  BY <1>1, <1>2, <1>3, <1>4, <1>5, <1>6, <1>7, <1>8 DEF Next, CallStep, ReadStep

\* As long as a call waits that registered while readLoop ran, readLoop runs and finds it in the
\* map, or its channel holds, is about to hold or was closed in place of its reply: no reply is
\* dropped and failAll misses no call (readLoop, failAll and call, ws_trade.go 67-158).
THEOREM RepliesNotLost == Spec => []NoLostReply
<1>1. Init => LateInv
  BY DEF Init, LateInv
<1>2. IInv /\ LateInv /\ [Next]_vars => LateInv'
  BY LateStep DEF IInv
<1>3. IInv /\ LateInv => NoLostReply
  <2> SUFFICES ASSUME IInv, LateInv, NEW c \in Calls, pc[c] = "wait", c \notin late
               PROVE  (rpc # "stopped" /\ Registered(c)) \/ InDelivery(c)
                        \/ buf[c] # NoFrame \/ closed[c]
    BY DEF NoLostReply
  <2>1. rpc = "stopped" => ~Registered(c)
    BY DEF LateInv, Registered
  <2> QED
    BY <2>1 DEF IInv, WaitInv
<1> QED
  BY Invariance, <1>1, <1>2, <1>3, PTL DEF Spec

\* Until Close, a call that returned has left the pending map (clearPending and the deletes).
THEOREM PendingShrinks == Spec => []ReturnedNotPending
<1>1. IInv => ReturnedNotPending
  BY DEF IInv, ReturnedNotPending, PendingInv
<1> QED
  BY Invariance, <1>1, PTL

---------------------------------------------------------------------------
\* Refinement of RequestReply.

absEffect == [c \in Calls |-> verdict[c]]
absResult == [c \in Calls |-> IF pc[c] = "returned" THEN ret[c] ELSE "none"]
absVars == <<absEffect, absResult>>

LEMMA AbstractInit == Init => Abstract!Init
  BY DEF Init, Abstract!Init, Abstract!NotYet, Writers

\* A step that moves no call to "returned" and processes no call's frame is invisible.
LEMMA InvisibleStep ==
  ASSUME IInv, UNCHANGED verdict,
         \A c \in Calls : pc'[c] = "returned" <=> pc[c] = "returned",
         \A c \in Calls : pc[c] = "returned" => ret'[c] = ret[c]
  PROVE  UNCHANGED absVars
  BY DEF absVars, absEffect, absResult

\* A call that returns by a step does so as Answer, with its own outcome, or as Fail.
LEMMA ReturningStep ==
  ASSUME IInv, IInv', NEW c \in Calls, UNCHANGED verdict,
         pc[c] # "returned", pc' = [pc EXCEPT ![c] = "returned"],
         \A d \in Calls \ {c} : ret'[d] = ret[d]
  PROVE  Abstract!Next
<1> USE DEF IInv, TypeOK
<1>1. pc'[c] = "returned" /\ \A d \in Calls \ {c} : pc'[d] = pc[d]
  OBVIOUS
<1>2. ret'[c] \in Verdicts \cup Failures
  BY <1>1 DEF ResultInv
<1>3. absResult[c] = "none" /\ absResult' = [absResult EXCEPT ![c] = ret'[c]]
  <2>1. \A d \in Calls : absResult'[d] = IF d = c THEN ret'[c] ELSE absResult[d]
    BY <1>1 DEF absResult
  <2>2. absResult' = [d \in Calls |-> IF d = c THEN ret'[c] ELSE absResult[d]]
    BY <2>1 DEF absResult
  <2>3. /\ absResult[c] = "none"
        /\ absResult \in [Calls -> Verdicts \cup Failures \cup {"none", "pong"}]
    BY DEF absResult
  <2> QED
    BY <2>1, <2>2, <2>3
<1>4. absEffect' = absEffect
  BY DEF absEffect
<1>5. CASE ret'[c] \in Failures
  <2>1. Abstract!Fail(c)
    BY <1>3, <1>4, <1>5 DEF Abstract!Fail, Abstract!NotYet, absResult, absEffect
  <2> QED
    BY <2>1 DEF Abstract!Next
<1>6. CASE ret'[c] \in Verdicts
  <2>1. absEffect[c] = ret'[c] /\ ret'[c] # "none"
    BY <1>6, VerdictsAssumption DEF OwnReply, Failures, absEffect
  <2>2. Abstract!Answer(c)
    BY <1>3, <1>4, <2>1 DEF Abstract!Answer, Abstract!NotYet, absResult, absEffect
  <2> QED
    BY <2>2 DEF Abstract!Next
<1> QED
  BY <1>2, <1>5, <1>6

LEMMA AbstractStep == IInv /\ IInv' /\ [Next]_vars => [Abstract!Next]_absVars
<1> SUFFICES ASSUME IInv, IInv', [Next]_vars PROVE Abstract!Next \/ UNCHANGED absVars
  OBVIOUS
<1> USE DEF callVars, gateVars
<1>1. ASSUME NEW c \in Calls,
             ReceiveReply(c) \/ ReceiveClosed(c) \/ SeeDone(c) \/ ClearPending(c)
      PROVE  Abstract!Next
  <2>1. /\ UNCHANGED verdict /\ pc[c] # "returned" /\ pc' = [pc EXCEPT ![c] = "returned"]
        /\ \A d \in Calls \ {c} : ret'[d] = ret[d]
    BY <1>1 DEF ReceiveReply, ReceiveClosed, SeeDone, ClearPending, IInv, TypeOK
  <2> QED
    BY <2>1, ReturningStep
<1>2. ASSUME NEW c \in Calls,
             \/ TakeID(c) \/ Register(c) \/ MarshalFails(c) \/ BeginWrite(c)
             \/ EndWrite(c) \/ SeeCancel(c)
      PROVE  UNCHANGED absVars
  <2>1. /\ UNCHANGED verdict /\ pc[c] # "returned"
        /\ \E p \in {"register", "send", "clear", "writing", "wait"} : pc' = [pc EXCEPT ![c] = p]
        /\ UNCHANGED ret \/ ret' = [ret EXCEPT ![c] = "failed"]
    BY <1>2 DEF TakeID, Register, MarshalFails, BeginWrite, EndWrite, SeeCancel, GiveUp
  <2>2. /\ \A d \in Calls : pc'[d] = "returned" <=> pc[d] = "returned"
        /\ \A d \in Calls : pc[d] = "returned" => ret'[d] = ret[d]
    BY <2>1 DEF IInv, TypeOK
  <2> QED
    BY <2>1, <2>2, InvisibleStep
<1>3. CASE ReadStep \/ KeepStep \/ CloseDone \/ CloseConn \/ LoseLink \/ WritePanics
           \/ UNCHANGED vars
  <2>1. UNCHANGED <<callVars, verdict>>
    BY <1>3 DEF ReadStep, ReadReply, ReadFails, TakePending, Deliver, FailAll, KeepStep,
                KeepStart, KeepTick, KeepWritten, KeepStop, CloseDone, CloseConn, LoseLink,
                WritePanics, vars
  <2> QED
    BY <2>1, InvisibleStep
<1>4. ASSUME NEW w \in Writers, Process(w)
      PROVE  Abstract!Next \/ UNCHANGED absVars
  <2>1. PICK v : /\ v \in IF w = Keeper THEN {"pong"} ELSE Verdicts
                 /\ verdict' = [verdict EXCEPT ![w] = v]
    BY <1>4 DEF Process
  <2>2. verdict[w] = "none" /\ UNCHANGED callVars
    BY <1>4 DEF Process
  <2>3. CASE w = Keeper
  BY <2>1, <2>2, <2>3, ActorsAssumption DEF absVars, absEffect, absResult, Writers, IInv,
     TypeOK
  <2>4. CASE w # Keeper
    <3>1. w \in Calls /\ v \in Verdicts
      BY <2>1, <2>4 DEF Writers
    <3>2. absEffect[w] = "none" /\ absEffect' = [absEffect EXCEPT ![w] = v]
      BY <2>1, <2>2, <3>1 DEF absEffect, Writers, IInv, TypeOK
    <3>3. absResult' = absResult
      BY <2>2 DEF absResult
    <3>4. Abstract!Act(w)
      BY <3>1, <3>2, <3>3 DEF Abstract!Act, Abstract!NotYet, absEffect, absResult
    <3> QED
      BY <3>1, <3>4 DEF Abstract!Next
  <2> QED
    BY <2>3, <2>4
<1> QED
  BY <1>1, <1>2, <1>3, <1>4 DEF Next, CallStep

\* The connection implements the request/reply contract: every call ends at most once, with
\* its own outcome or a plain failure, and the gateway acts on it at most once.
THEOREM ImplementsRequestReply == Spec => RefinesRequestReply
  BY Invariance, AbstractInit, AbstractStep, PTL DEF Spec, RefinesRequestReply, Abstract!Spec,
     absVars,
     absEffect, absResult
=============================================================================
