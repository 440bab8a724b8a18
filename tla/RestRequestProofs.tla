------------------------- MODULE RestRequestProofs -------------------------
(***************************************************************************)
(* Proofs about RestRequest, for any requests, parameters and kinds: what  *)
(* is signed is what travels, no nonce travels twice, and what a call      *)
(* returns says what the exchange did.                                     *)
(***************************************************************************)
EXTENDS RestRequest, TLAPS

\* What the resty request holds while it is on the wire, and what it keeps between sends.
WireInv(r) ==
  /\ OnWire(r) => url[r] = Query(r)
  /\ header[r].key => needSign[r]
  /\ kind[r].method = "GET" => body[r] = NoBody
  /\ OnWire(r) /\ kind[r].method # "GET" => body[r].params = params[r]
  /\ params[r] = NoParam => body[r].params = NoParam
  /\ OnWire(r) /\ needSign[r] =>
       /\ header[r].key
       /\ header[r].sign = [rooted |-> kind[r].rooted, query |-> url[r],
                            nonce |-> WireNonce(r), data |-> body[r]]

\* The nonces of the requests about to be sent are new, and their own.
NonceInv ==
  \A r \in Requests : OnWire(r) /\ needSign[r] =>
    /\ WireNonce(r) \in 1 .. lastNonce
    /\ pc[r] = "prepared" => WireNonce(r) \notin used
    /\ \A q \in Requests :
         pc[r] = "prepared" /\ OnWire(q) /\ needSign[q] /\ q # r => WireNonce(q) # WireNonce(r)

\* Nothing is returned before the answer is read.
PendingInv(r) ==
  /\ OnWire(r) => result[r] = "none"
  /\ pc[r] = "new" => body[r] = NoBody

Wire    == \A r \in Requests : WireInv(r)
Pending == \A r \in Requests : PendingInv(r)

IInv == TypeOK /\ Wire /\ NonceInv /\ Pending /\ ResultsReal /\ TypedErrorsMeanRefused

---------------------------------------------------------------------------

LEMMA Records ==
  /\ NoParam \in Params /\ NoBody \in Bodies /\ NoSign \in Signed /\ NoHeader \in Headers
  /\ NoBody.params = NoParam /\ NoBody.nonce = 0 /\ NoHeader.key = FALSE
<1>1. NoParam \in Params
  BY DEF NoParam, Params
<1>2. NoBody \in Bodies /\ NoBody.params = NoParam /\ NoBody.nonce = 0
  BY <1>1 DEF NoBody, Bodies
<1>3. NoSign \in Signed
  BY <1>1, <1>2 DEF NoSign, Signed
<1> QED
  BY <1>1, <1>2, <1>3 DEF NoHeader, Headers

LEMMA DataTypes ==
  ASSUME TypeOK, NEW r \in Requests, NEW n \in Nat
  PROVE  /\ kind[r] \in Kinds /\ kind[r].method \in {"GET", "POST"} /\ kind[r].rooted \in BOOLEAN
         /\ Query(r) \in Params /\ PostData(r, n) \in Bodies /\ Sign(r, n) \in Signed
         /\ header[r].nonce \in Nat /\ header[r].key \in BOOLEAN /\ body[r].nonce \in Nat
<1>1. /\ kind[r] \in Kinds /\ kind[r].method \in {"GET", "POST"} /\ kind[r].rooted \in BOOLEAN
      /\ params[r] \in Params
  BY KindsAssumption DEF TypeOK
<1>2. Query(r) \in Params /\ PostData(r, n) \in Bodies
  BY <1>1, Records DEF Query, PostData, Bodies
<1>3. Sign(r, n) \in Signed
  BY <1>1, <1>2 DEF Sign, Signed
<1>4. header[r] \in Headers /\ body[r] \in Bodies
  BY DEF TypeOK
<1> QED
  BY <1>1, <1>2, <1>3, <1>4 DEF Headers, Bodies

LEMMA InitIInv == Init => IInv
<1> SUFFICES ASSUME Init PROVE IInv
  OBVIOUS
<1>1. TypeOK
  BY Records DEF Init, TypeOK
<1>2. \A r \in Requests : ~OnWire(r)
  BY DEF Init, OnWire
<1>3. Wire
  BY <1>2, Records DEF Init, Wire, WireInv
<1> QED
  BY <1>1, <1>2, <1>3 DEF Init, IInv, NonceInv, Pending, PendingInv, ResultsReal,
     TypedErrorsMeanRefused

---------------------------------------------------------------------------
\* Building a request: nothing is on the wire.

LEMMA BuildPreserves ==
  ASSUME IInv, NEW r \in Requests, Create(r) \/ SetParam(r) \/ WithSign(r)
  PROVE  IInv'
<1> USE DEF IInv
<1>1. UNCHANGED <<cred, lastNonce, kind, nonceParam, url, header, body, fate, answer, result, used>>
  BY DEF Create, SetParam, WithSign, resty, outcome
<1>2. TypeOK'
  <2>1. params' \in [Requests -> Params]
    <3>1. CASE Create(r)
      BY <3>1 DEF Create, TypeOK
    <3>2. CASE SetParam(r)
      <4>1. PICK k \in Keys, v \in Values : params' = [params EXCEPT ![r][k] = v]
        BY <3>2 DEF SetParam
      <4>2. [params[r] EXCEPT ![k] = v] \in Params
        BY DEF TypeOK, Params
      <4> QED
        BY <4>1, <4>2 DEF TypeOK
    <3>3. CASE WithSign(r)
      BY <3>3 DEF WithSign, TypeOK
    <3> QED
      BY <3>1, <3>2, <3>3
  <2>2. pc' \in [Requests -> {"new", "ready", "prepared", "sent", "answered"}]
        /\ needSign' \in [Requests -> BOOLEAN]
    BY DEF Create, SetParam, WithSign, TypeOK
  <2> QED
    BY <1>1, <2>1, <2>2 DEF TypeOK
<1>3. ~OnWire(r) /\ ~OnWire(r)' /\ pc'[r] = "ready"
  BY DEF Create, SetParam, WithSign, OnWire, TypeOK
<1>4. \A q \in Requests : q # r =>
        params'[q] = params[q] /\ needSign'[q] = needSign[q] /\ pc'[q] = pc[q]
  BY DEF Create, SetParam, WithSign, TypeOK
<1>5. \A q \in Requests : WireNonce(q)' = WireNonce(q) /\ (OnWire(q)' <=> OnWire(q))
  BY <1>1, <1>3, <1>4 DEF WireNonce, OnWire
<1>6. needSign[r] => needSign'[r]
  BY DEF Create, SetParam, WithSign, TypeOK
<1>7. params'[r] = NoParam => body[r].params = NoParam
  <2>1. CASE Create(r)
    BY <2>1, Records DEF Create, Pending, PendingInv
  <2>2. CASE SetParam(r)
    <3>1. PICK k \in Keys, v \in Values : params' = [params EXCEPT ![r][k] = v]
      BY <2>2 DEF SetParam
    <3>2. params'[r][k] = v
      BY <3>1 DEF TypeOK, Params
    <3> QED
      BY <3>2, ValuesAssumption DEF NoParam
  <2>3. CASE WithSign(r)
    BY <2>3 DEF WithSign, Wire, WireInv
  <2> QED
    BY <2>1, <2>2, <2>3
<1>8. Wire'
  <2> SUFFICES ASSUME NEW q \in Requests PROVE WireInv(q)'
    BY DEF Wire
  <2>1. CASE q = r
    BY <1>1, <1>3, <1>6, <1>7, <2>1 DEF Wire, WireInv
  <2>2. CASE q # r
    BY <1>1, <1>4, <1>5, <2>2 DEF Wire, WireInv, Query
  <2> QED
    BY <2>1, <2>2
<1>9. NonceInv'
  BY <1>1, <1>3, <1>4, <1>5 DEF NonceInv
<1>10. Pending'
  BY <1>1, <1>3, <1>4, <1>5 DEF Pending, PendingInv
<1> QED
  BY <1>1, <1>2, <1>8, <1>9, <1>10 DEF ResultsReal, TypedErrorsMeanRefused

---------------------------------------------------------------------------
\* prepare.

\* The values Outset writes.
LEMMA OutsetFacts ==
  ASSUME TypeOK, NEW r \in Requests, NEW res \in {"none", "error"}, Outset(r, res)
  PROVE  /\ fate' \in [Requests -> {"none", "executed", "refused", "lost"}]
         /\ answer' \in [Requests -> AllAnswers \cup {"none"}]
         /\ result' \in [Requests -> {"none", "result", "apiError", "problem", "error"}]
         /\ result'[r] = res
         /\ \A q \in Requests : q # r =>
              fate'[q] = fate[q] /\ answer'[q] = answer[q] /\ result'[q] = result[q]
BY DEF Outset, TypeOK

LEMMA OutsetResults ==
  ASSUME IInv, NEW r \in Requests, NEW res \in {"none", "error"}, Outset(r, res),
         UNCHANGED kind
  PROVE  ResultsReal' /\ TypedErrorsMeanRefused'
BY OutsetFacts DEF IInv, ResultsReal, TypedErrorsMeanRefused

\* A prepare that fails changes nothing that is on the wire.
LEMMA FailPreserves ==
  ASSUME IInv, NEW r \in Requests, PrepareNoAuth(r) \/ PrepareSignFails(r)
  PROVE  IInv'
<1> USE DEF IInv
<1>1. /\ UNCHANGED <<cred, pc, kind, params, needSign, header, body, used>>
      /\ SetURL(r) /\ Outset(r, "error") /\ pc[r] = "ready"
  BY DEF PrepareNoAuth, PrepareSignFails, request
<1>2. lastNonce' \in Nat /\ lastNonce' >= lastNonce /\ lastNonce \in Nat
  BY DEF PrepareNoAuth, PrepareSignFails, DrawNonce, TypeOK
<1>3. nonceParam' \in [Requests -> 0 .. lastNonce']
  BY <1>2 DEF PrepareNoAuth, PrepareSignFails, DrawNonce, TypeOK
<1>4. /\ url' \in [Requests -> Params]
      /\ \A q \in Requests : q # r => url'[q] = url[q]
  BY <1>1, DataTypes DEF SetURL, TypeOK
<1>5. TypeOK'
  BY <1>1, <1>2, <1>3, <1>4, OutsetFacts DEF TypeOK
<1>6. \A q \in Requests : /\ WireNonce(q)' = WireNonce(q) /\ (OnWire(q)' <=> OnWire(q))
                          /\ (OnWire(q) => q # r)
  BY <1>1 DEF WireNonce, OnWire
<1>7. Wire'
  BY <1>1, <1>4, <1>6 DEF Wire, WireInv, Query
<1>8. NonceInv'
  BY <1>1, <1>2, <1>6 DEF NonceInv
<1>9. Pending'
  BY <1>1, <1>6, OutsetFacts DEF Pending, PendingInv
<1> QED
  BY <1>1, <1>5, <1>7, <1>8, <1>9, OutsetResults

LEMMA UnsignedPreserves ==
  ASSUME IInv, NEW r \in Requests, PrepareUnsigned(r)
  PROVE  IInv'
<1> USE DEF IInv
<1>1. /\ UNCHANGED <<cred, lastNonce, kind, params, needSign, nonceParam, header, used>>
      /\ SetURL(r) /\ Outset(r, "none") /\ pc[r] = "ready" /\ ~needSign[r]
      /\ pc' = [pc EXCEPT ![r] = "prepared"]
      /\ body' = [body EXCEPT ![r] = IF params[r] # NoParam THEN PostData(r, 0) ELSE @]
  BY DEF PrepareUnsigned, request
<1>2. url' = [url EXCEPT ![r] = Query(r)]
  BY <1>1 DEF SetURL
<1>3. TypeOK'
  <2>1. Query(r) \in Params /\ PostData(r, 0) \in Bodies
    BY DataTypes
  <2>2. url' \in [Requests -> Params] /\ body' \in [Requests -> Bodies]
    BY <1>1, <1>2, <2>1 DEF TypeOK
  <2>3. pc' \in [Requests -> {"new", "ready", "prepared", "sent", "answered"}]
    BY <1>1 DEF TypeOK
  <2> QED
    BY <1>1, <2>2, <2>3, OutsetFacts DEF TypeOK
<1>4. \A q \in Requests : q # r =>
        pc'[q] = pc[q] /\ url'[q] = url[q] /\ body'[q] = body[q]
  BY <1>1, <1>2 DEF TypeOK
<1>5. pc'[r] = "prepared" /\ url'[r] = Query(r)
  BY <1>1, <1>2 DEF TypeOK
<1>6. body'[r] = IF params[r] # NoParam THEN PostData(r, 0) ELSE body[r]
  BY <1>1 DEF TypeOK
<1>7. WireInv(r)'
  <2>1. kind[r].method = "GET" => body'[r] = NoBody
    BY <1>6 DEF PostData, Wire, WireInv
  <2>2. kind[r].method # "GET" => body'[r].params = params[r]
    <3>1. CASE params[r] = NoParam
      BY <1>6, <3>1 DEF Wire, WireInv
    <3>2. CASE params[r] # NoParam
      BY <1>6, <3>2 DEF PostData
    <3> QED
      BY <3>1, <3>2
  <2>3. params[r] = NoParam => body'[r].params = NoParam
    BY <1>6 DEF Wire, WireInv
  <2>4. header[r].key => needSign[r]
    BY DEF Wire, WireInv
  <2>5. Query(r)' = Query(r)
    BY <1>1 DEF Query
  <2> QED
    BY <1>1, <1>5, <2>1, <2>2, <2>3, <2>4, <2>5 DEF WireInv
<1>8. Wire'
  <2> SUFFICES ASSUME NEW q \in Requests, q # r PROVE WireInv(q)'
    BY <1>7 DEF Wire
  <2> QED
    BY <1>1, <1>4 DEF Wire, WireInv, Query, OnWire, WireNonce
<1>9. NonceInv'
  BY <1>1, <1>4 DEF NonceInv, OnWire, WireNonce
<1>10. Pending'
  BY <1>4, <1>5, OutsetFacts, <1>1 DEF Pending, PendingInv, OnWire
<1> QED
  BY <1>1, <1>3, <1>8, <1>9, <1>10, OutsetResults

LEMMA SignedPreserves ==
  ASSUME IInv, NEW r \in Requests, PrepareSigned(r)
  PROVE  IInv'
<1> USE DEF IInv
<1> DEFINE n == lastNonce + 1
<1>1. /\ UNCHANGED <<cred, kind, params, needSign, used>>
      /\ SetURL(r) /\ Outset(r, "none") /\ DrawNonce(r) /\ SetHeaders(r, n)
      /\ pc[r] = "ready" /\ needSign[r]
      /\ pc' = [pc EXCEPT ![r] = "prepared"]
      /\ body' = [body EXCEPT ![r] = PostData(r, n)]
  BY DEF PrepareSigned, request
<1>2. lastNonce' = n /\ n \in Nat /\ lastNonce \in Nat
  BY <1>1 DEF DrawNonce, TypeOK
<1>3. /\ Query(r) \in Params /\ PostData(r, n) \in Bodies /\ Sign(r, n) \in Signed
      /\ header[r].nonce \in Nat /\ kind[r].method \in {"GET", "POST"}
  BY <1>2, DataTypes
<1> DEFINE h == [key |-> TRUE, sign |-> Sign(r, n),
                 nonce |-> IF kind[r].method = "GET" THEN n ELSE header[r].nonce]
<1>4. /\ h \in Headers /\ h.key = TRUE /\ h.sign = Sign(r, n)
      /\ kind[r].method = "GET" => h.nonce = n
  BY <1>2, <1>3 DEF Headers
<1>5. header' = [header EXCEPT ![r] = h]
  BY <1>1 DEF SetHeaders
<1> HIDE DEF h, n
<1>6. url' = [url EXCEPT ![r] = Query(r)]
  BY <1>1 DEF SetURL
<1>7. TypeOK'
  <2>1. url' \in [Requests -> Params] /\ body' \in [Requests -> Bodies]
    BY <1>1, <1>3, <1>6 DEF TypeOK
  <2>2. header' \in [Requests -> Headers]
    BY <1>4, <1>5 DEF TypeOK
  <2>3. pc' \in [Requests -> {"new", "ready", "prepared", "sent", "answered"}]
    BY <1>1 DEF TypeOK
  <2>4. nonceParam' \in [Requests -> 0 .. lastNonce'] /\ used' \subseteq 1 .. lastNonce'
    BY <1>1, <1>2 DEF DrawNonce, TypeOK, n
  <2> QED
    BY <1>1, <1>2, <2>1, <2>2, <2>3, <2>4, OutsetFacts DEF TypeOK
<1>8. \A q \in Requests : q # r =>
        pc'[q] = pc[q] /\ url'[q] = url[q] /\ body'[q] = body[q] /\ header'[q] = header[q]
  BY <1>1, <1>5, <1>6 DEF TypeOK
<1>9. /\ pc'[r] = "prepared" /\ url'[r] = Query(r) /\ body'[r] = PostData(r, n)
      /\ header'[r] = h
  BY <1>1, <1>5, <1>6 DEF TypeOK
<1>10. WireNonce(r)' = n
  BY <1>1, <1>3, <1>4, <1>9 DEF WireNonce, PostData
<1>11. WireInv(r)'
  <2>1. Query(r)' = Query(r)
    BY <1>1 DEF Query
  <2>2. kind[r].method = "GET" => body'[r] = NoBody
    BY <1>9 DEF PostData
  <2>3. kind[r].method # "GET" => body'[r].params = params[r]
    BY <1>9 DEF PostData
  <2>4. params[r] = NoParam => body'[r].params = NoParam
    BY <2>2, <2>3, Records
  <2>5. header'[r].sign = [rooted |-> kind[r].rooted, query |-> url'[r],
                           nonce |-> WireNonce(r)', data |-> body'[r]]
    BY <1>4, <1>9, <1>10 DEF Sign
  <2>6. header'[r].key
    BY <1>4, <1>9
  <2> QED
    BY <1>1, <1>9, <2>1, <2>2, <2>3, <2>4, <2>5, <2>6 DEF WireInv
<1>12. Wire'
  <2> SUFFICES ASSUME NEW q \in Requests, q # r PROVE WireInv(q)'
    BY <1>11 DEF Wire
  <2> QED
    BY <1>1, <1>8 DEF Wire, WireInv, Query, OnWire, WireNonce
<1>13. NonceInv'
  <2>1. \A q \in Requests : q # r => WireNonce(q)' = WireNonce(q) /\ (OnWire(q)' <=> OnWire(q))
    BY <1>1, <1>8 DEF WireNonce, OnWire
  <2>2. n \notin used /\ n \in 1 .. lastNonce'
    BY <1>2 DEF TypeOK, n
  <2>3. \A q \in Requests : q # r /\ OnWire(q) /\ needSign[q] =>
          WireNonce(q) \in 1 .. lastNonce' /\ WireNonce(q) # n
    BY <1>2 DEF NonceInv, n
  <2> SUFFICES ASSUME NEW q \in Requests, OnWire(q)', needSign[q]
               PROVE  /\ WireNonce(q)' \in 1 .. lastNonce'
                      /\ pc'[q] = "prepared" => WireNonce(q)' \notin used
                      /\ \A p \in Requests :
                           pc'[q] = "prepared" /\ OnWire(p)' /\ needSign[p] /\ p # q =>
                             WireNonce(p)' # WireNonce(q)'
    BY <1>1 DEF NonceInv
  <2>4. CASE q = r
    BY <1>10, <2>1, <2>2, <2>3, <2>4
  <2>5. CASE q # r
    <3>1. OnWire(q) /\ WireNonce(q)' = WireNonce(q) /\ pc'[q] = pc[q]
      BY <1>8, <2>1, <2>5
    <3>2. \A p \in Requests : pc'[q] = "prepared" /\ OnWire(p)' /\ needSign[p] /\ p # q =>
            WireNonce(p)' # WireNonce(q)'
      BY <1>10, <2>1, <2>3, <2>5, <3>1 DEF NonceInv
    <3> QED
      BY <2>3, <2>5, <3>1, <3>2 DEF NonceInv
  <2> QED
    BY <2>4, <2>5
<1>14. Pending'
  BY <1>8, <1>9, OutsetFacts, <1>1 DEF Pending, PendingInv, OnWire
<1> QED
  BY <1>1, <1>7, <1>12, <1>13, <1>14, OutsetResults

---------------------------------------------------------------------------
\* Sending, and reading the answer: the resty request stays as it is.

LEMMA TravelPreserves ==
  ASSUME IInv, NEW r \in Requests, Send(r) \/ Serve(r) \/ Receive(r)
  PROVE  IInv'
<1> USE DEF IInv
<1>1. UNCHANGED <<cred, lastNonce, kind, params, needSign, nonceParam, url, header, body>>
  BY DEF Send, Serve, Receive, request, resty
<1>2. /\ pc' \in [Requests -> {"new", "ready", "prepared", "sent", "answered"}]
      /\ OnWire(r) /\ pc'[r] \in {"ready", "sent", "answered"}
      /\ \A q \in Requests : q # r => pc'[q] = pc[q]
  BY DEF Send, Serve, Receive, OnWire, TypeOK
<1>3. \A q \in Requests : WireNonce(q)' = WireNonce(q) /\ (OnWire(q)' => OnWire(q))
  BY <1>1, <1>2 DEF WireNonce, OnWire
<1>4. used' = used \/ (Send(r) /\ header[r].key /\ used' = used \cup {WireNonce(r)})
  BY DEF Send, Serve, Receive
<1>5. header[r].key => needSign[r]
  BY DEF Wire, WireInv
<1>6. used' \subseteq 1 .. lastNonce
  BY <1>2, <1>4, <1>5 DEF NonceInv, TypeOK
<1>7. TypeOK' /\ Pending' /\ ResultsReal' /\ TypedErrorsMeanRefused'
  <2>1. CASE Send(r)
    <3>1. UNCHANGED <<fate, answer, result>>
      BY <2>1 DEF Send, outcome
    <3> QED
      BY <1>1, <1>2, <1>3, <1>6, <3>1
         DEF TypeOK, Pending, PendingInv, ResultsReal, TypedErrorsMeanRefused, OnWire
  <2>2. CASE Serve(r)
    <3>1. /\ UNCHANGED <<answer, result>>
          /\ fate' \in [Requests -> {"none", "executed", "refused", "lost"}]
          /\ \A q \in Requests : q # r => fate'[q] = fate[q]
      BY <2>2 DEF Serve, TypeOK
    <3>2. result[r] = "none"
      BY <1>2 DEF Pending, PendingInv
    <3>3. TypeOK'
      BY <1>1, <1>2, <1>6, <3>1 DEF TypeOK
    <3> QED
      BY <1>1, <1>2, <1>3, <3>1, <3>2, <3>3
         DEF Pending, PendingInv, ResultsReal, TypedErrorsMeanRefused, OnWire
  <2>3. CASE Receive(r)
    <3>1. PICK a \in Answers(r) :
            /\ answer' = [answer EXCEPT ![r] = a]
            /\ result' = [result EXCEPT ![r] = Outcome(kind[r].style, a)]
      BY <2>3 DEF Receive
    <3>2. UNCHANGED fate /\ pc'[r] = "ready"
      BY <2>3 DEF Receive, TypeOK
    <3>3. a \in AllAnswers
      BY DEF Answers, AllAnswers
    <3>4. Outcome(kind[r].style, a) \in {"result", "apiError", "problem", "error"}
      BY <3>3 DEF Outcome, AllAnswers
    <3>5. kind[r].style \in {"envelope", "bare", "file"}
      BY KindsAssumption DEF TypeOK
    <3>6. Outcome(kind[r].style, a) = "result" =>
            \/ fate[r] = "executed"
            \/ a = "json" /\ kind[r].style = "envelope"
            \/ a \in {"json", "page"} /\ kind[r].style = "file"
      BY <3>5 DEF Answers, Outcome
    <3>7. Outcome(kind[r].style, a) \in {"apiError", "problem"} => fate[r] = "refused"
      BY DEF Answers, Outcome
    <3>8. /\ answer' \in [Requests -> AllAnswers \cup {"none"}] /\ answer'[r] = a
          /\ \A q \in Requests : q # r => answer'[q] = answer[q]
      BY <3>1, <3>3 DEF TypeOK
    <3>9. /\ result' \in [Requests -> {"none", "result", "apiError", "problem", "error"}]
          /\ result'[r] = Outcome(kind[r].style, a)
          /\ \A q \in Requests : q # r => result'[q] = result[q]
      BY <3>1, <3>4 DEF TypeOK
    <3>10. TypeOK'
      BY <1>1, <1>2, <1>6, <3>2, <3>8, <3>9 DEF TypeOK
    <3>11. Pending'
      BY <1>1, <1>2, <1>3, <3>2, <3>9 DEF Pending, PendingInv, OnWire
    <3>12. ResultsReal'
      BY <1>1, <3>2, <3>6, <3>8, <3>9 DEF ResultsReal
    <3>13. TypedErrorsMeanRefused'
      BY <3>2, <3>7, <3>9 DEF TypedErrorsMeanRefused
    <3> QED
      BY <3>10, <3>11, <3>12, <3>13
  <2> QED
    BY <2>1, <2>2, <2>3
<1>8. Wire'
  BY <1>1, <1>3 DEF Wire, WireInv, Query
<1>9. NonceInv'
  <2> SUFFICES ASSUME NEW q \in Requests, OnWire(q)', needSign[q]
               PROVE  /\ WireNonce(q) \in 1 .. lastNonce
                      /\ pc'[q] = "prepared" => WireNonce(q) \notin used'
                      /\ \A p \in Requests :
                           pc'[q] = "prepared" /\ OnWire(p)' /\ needSign[p] /\ p # q =>
                             WireNonce(p) # WireNonce(q)
    BY <1>1, <1>3 DEF NonceInv
  <2>1. WireNonce(q) \in 1 .. lastNonce
    BY <1>3 DEF NonceInv
  <2>2. pc'[q] = "prepared" => q # r /\ pc[q] = "prepared"
    BY <1>2
  <2>3. pc'[q] = "prepared" => WireNonce(q) \notin used'
    BY <1>2, <1>3, <1>4, <1>5, <2>2 DEF NonceInv
  <2> QED
    BY <1>3, <2>1, <2>2, <2>3 DEF NonceInv
<1> QED
  BY <1>7, <1>8, <1>9

LEMMA StutterPreserves == IInv /\ UNCHANGED vars => IInv'
<1> SUFFICES ASSUME IInv, UNCHANGED vars PROVE IInv'
  OBVIOUS
<1>1. UNCHANGED <<cred, lastNonce, pc, kind, params, needSign, nonceParam, url, header, body,
                  fate, answer, result, used>>
  BY DEF vars, request, resty, outcome
<1> QED
  BY <1>1 DEF IInv, TypeOK, Wire, WireInv, NonceInv, Pending, PendingInv, ResultsReal,
     TypedErrorsMeanRefused, OnWire, WireNonce, Query

---------------------------------------------------------------------------
\* The invariant holds for all constants that satisfy the assumptions.
THEOREM Invariance == Spec => []IInv
<1>1. IInv /\ [Next]_vars => IInv'
  BY BuildPreserves, FailPreserves, UnsignedPreserves, SignedPreserves, TravelPreserves,
     StutterPreserves DEF Next, Prepare
<1> QED
  BY InitIInv, <1>1, PTL DEF Spec

\* Every variable keeps its type, and only drawn nonces travel.
THEOREM TypeCorrect == Spec => []TypeOK
<1>1. IInv => TypeOK
  BY DEF IInv
<1> QED
  BY Invariance, <1>1, PTL

\* The signature of every send is the one the exchange computes from what it receives.
THEOREM SignedIsSent == Spec => []SignatureHolds
<1>1. IInv => SignatureHolds
  <2> SUFFICES ASSUME IInv, NEW r \in Requests, OnWire(r), needSign[r], kind[r].rooted
               PROVE  Authentic(r)
    BY DEF SignatureHolds
  <2>1. kind[r].rooted = TRUE
    BY DataTypes DEF IInv
  <2> QED
    BY <2>1 DEF IInv, Wire, WireInv, Authentic
<1> QED
  BY Invariance, <1>1, PTL

\* What travels is what the program set last.
THEOREM SetIsSent == Spec => []SaysWhatWasSet
<1>1. IInv => SaysWhatWasSet
  BY DEF IInv, Wire, WireInv, SaysWhatWasSet, Query
<1> QED
  BY Invariance, <1>1, PTL

\* No nonce travels twice.
THEOREM NoncesFresh == Spec => FreshNonces
<1>1. IInv /\ [Next]_vars =>
        [\A r \in Requests : Send(r) /\ needSign[r] => WireNonce(r) \notin used]_vars
  BY DEF IInv, NonceInv, Send, OnWire
<1> QED
  BY Invariance, <1>1, PTL DEF Spec, FreshNonces

\* A result means the exchange executed the request, but for the two answers the code cannot tell.
THEOREM ResultsAreReal == Spec => []ResultsReal
<1>1. IInv => ResultsReal
  BY DEF IInv
<1> QED
  BY Invariance, <1>1, PTL

\* An APIError or a ProblemError means the exchange refused the request.
THEOREM ErrorsAreRefusals == Spec => []TypedErrorsMeanRefused
<1>1. IInv => TypedErrorsMeanRefused
  BY DEF IInv
<1> QED
  BY Invariance, <1>1, PTL
=============================================================================
