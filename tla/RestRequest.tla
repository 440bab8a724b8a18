---------------------------- MODULE RestRequest ----------------------------
(***************************************************************************)
(* The REST request engine (request/request.go, send.go, sign.go): a       *)
(* Request is built, signed, sent, and possibly changed and sent again,    *)
(* while its resty request keeps the URL, headers and body of the last     *)
(* time.  Requests share one client and draw their nonces from it.         *)
(*                                                                         *)
(* Outside the module's sources: the exchange, which verifies signatures   *)
(* and answers in the endpoint's style ("envelope": {error, result};       *)
(* "bare": the object, or a problem with an error status; "file": raw      *)
(* bytes, or an envelope with errors), intermediaries that answer in its   *)
(* place, with an error status, by a page or a JSON object that names none *)
(* of the members the code reads, and the HTTP client.                     *)
(***************************************************************************)
EXTENDS Naturals

CONSTANTS
  Requests, Keys, Values,
  Kinds,          \* methods, styles of the endpoint, paths
  Empty,          \* a parameter that is not set
  MaxNonce        \* bound: nonces drawn

ASSUME ValuesAssumption == Empty \notin Values
ASSUME NonceAssumption == MaxNonce \in Nat
ASSUME KindsAssumption ==
  Kinds \subseteq
    [method : {"GET", "POST"}, style : {"envelope", "bare", "file"}, rooted : BOOLEAN]

VARIABLES
  cred,           \* the client's credentials
  lastNonce,      \* the client's nonce generator
  pc,             \* each Request: its place
  kind,           \* its method, its endpoint's style, whether its path begins with a slash
  params, nonceParam, needSign,   \* its parameters, the nonce apart; its mark
  url, header, body,              \* its resty request: query, headers, body
  fate,           \* what the exchange did with the last send
  answer, result, \* what came back, and what the call made of it
  used            \* history: nonces that travelled

request == <<kind, params, needSign>>
resty   == <<url, header, body>>
outcome == <<fate, answer, result>>
vars    == <<cred, lastNonce, pc, request, nonceParam, resty, outcome, used>>

Params  == [Keys -> Values \cup {Empty}]
NoParam == [k \in Keys |-> Empty]

\* A form body: the parameters and the nonce, 0 where there is none.
Bodies == [params : Params, nonce : Nat]
NoBody == [params |-> NoParam, nonce |-> 0]

\* What API-Sign covers.
Signed == [rooted : BOOLEAN, query : Params, nonce : Nat, data : Bodies]
NoSign == [rooted |-> FALSE, query |-> NoParam, nonce |-> 0, data |-> NoBody]

\* API-Key, API-Sign, API-Nonce.
Headers  == [key : BOOLEAN, sign : Signed, nonce : Nat]
NoHeader == [key |-> FALSE, sign |-> NoSign, nonce |-> 0]

AllAnswers ==
  {"envelope", "errors", "object", "problem", "bytes", "misfit", "page", "json", "nothing"}

TypeOK ==
  /\ cred \in {"missing", "undecodable", "valid"}
  /\ lastNonce \in Nat
  /\ pc \in [Requests -> {"new", "ready", "prepared", "sent", "answered"}]
  /\ kind \in [Requests -> Kinds]
  /\ params \in [Requests -> Params]
  /\ nonceParam \in [Requests -> 0 .. lastNonce]
  /\ needSign \in [Requests -> BOOLEAN]
  /\ url \in [Requests -> Params]
  /\ header \in [Requests -> Headers]
  /\ body \in [Requests -> Bodies]
  /\ fate \in [Requests -> {"none", "executed", "refused", "lost"}]
  /\ answer \in [Requests -> AllAnswers \cup {"none"}]
  /\ result \in [Requests -> {"none", "result", "apiError", "problem", "error"}]
  /\ used \subseteq 1 .. lastNonce

Init ==
  /\ cred \in {"missing", "undecodable", "valid"}
  /\ lastNonce = 0 /\ used = {}
  /\ pc = [r \in Requests |-> "new"]
  /\ kind \in [Requests -> Kinds]
  /\ params = [r \in Requests |-> NoParam] /\ nonceParam = [r \in Requests |-> 0]
  /\ needSign = [r \in Requests |-> FALSE]
  /\ url = [r \in Requests |-> NoParam] /\ header = [r \in Requests |-> NoHeader]
  /\ body = [r \in Requests |-> NoBody]
  /\ fate = [r \in Requests |-> "none"] /\ answer = [r \in Requests |-> "none"]
  /\ result = [r \in Requests |-> "none"]

---------------------------------------------------------------------------
\* Building.

\* Get, Post: parameters with an empty value are dropped.
Create(r) ==
  /\ pc[r] = "new"
  /\ pc' = [pc EXCEPT ![r] = "ready"]
  /\ \E p \in Params : params' = [params EXCEPT ![r] = p]
  /\ UNCHANGED <<cred, lastNonce, kind, needSign, nonceParam, resty, outcome, used>>

\* An empty value would leave the parameter alone.
SetParam(r) ==
  /\ pc[r] = "ready"
  /\ \E k \in Keys, v \in Values : params' = [params EXCEPT ![r][k] = v]
  /\ UNCHANGED <<cred, lastNonce, pc, kind, needSign, nonceParam, resty, outcome, used>>

WithSign(r) ==
  /\ pc[r] = "ready"
  /\ needSign' = [needSign EXCEPT ![r] = TRUE]
  /\ UNCHANGED <<cred, lastNonce, pc, kind, params, nonceParam, resty, outcome, used>>

---------------------------------------------------------------------------
\* prepare.

Query(r) == IF kind[r].method = "GET" THEN params[r] ELSE NoParam

\* Mutation: the URL of an earlier signed send is kept.
SetURL_keeps(r) == url' = [url EXCEPT ![r] = IF header[r].key THEN @ ELSE Query(r)]

\* fullURL.
SetURL(r) == url' = [url EXCEPT ![r] = Query(r)]

\* A send begins, or fails at once.
Outset(r, res) ==
  /\ fate' = [fate EXCEPT ![r] = "none"] /\ answer' = [answer EXCEPT ![r] = "none"]
  /\ result' = [result EXCEPT ![r] = res]

\* The form a POST is signed over and sent with.
PostData(r, nonce) ==
  IF kind[r].method = "GET" THEN NoBody ELSE [params |-> params[r], nonce |-> nonce]

\* A public POST sets a body when it has parameters.
PrepareUnsigned(r) ==
  /\ pc[r] = "ready" /\ ~needSign[r]
  /\ SetURL(r) /\ Outset(r, "none")
  /\ body' = [body EXCEPT ![r] = IF params[r] # NoParam THEN PostData(r, 0) ELSE @]
  /\ pc' = [pc EXCEPT ![r] = "prepared"]
  /\ UNCHANGED <<cred, lastNonce, request, nonceParam, header, used>>

PrepareNoAuth(r) ==
  /\ pc[r] = "ready" /\ needSign[r] /\ cred = "missing"
  /\ SetURL(r) /\ Outset(r, "error")
  /\ UNCHANGED <<cred, lastNonce, pc, request, nonceParam, header, body, used>>

\* The nonce is drawn, and kept among the parameters of a POST, before the signer is called.
DrawNonce(r) ==
  /\ lastNonce < MaxNonce
  /\ lastNonce' = lastNonce + 1
  /\ nonceParam' = [nonceParam EXCEPT ![r] =
       IF kind[r].method = "GET" THEN @ ELSE lastNonce + 1]

PrepareSignFails(r) ==
  /\ pc[r] = "ready" /\ needSign[r] /\ cred = "undecodable"
  /\ SetURL(r) /\ Outset(r, "error")
  /\ DrawNonce(r)
  /\ UNCHANGED <<cred, pc, request, header, body, used>>

\* HMACSign, over the path as it was given.
Sign(r, nonce) ==
  [rooted |-> kind[r].rooted, query |-> Query(r), nonce |-> nonce, data |-> PostData(r, nonce)]

\* Mutation: a signed GET carries its nonce nowhere.
SetHeaders_noNonce(r, nonce) ==
  header' = [header EXCEPT ![r] = [key |-> TRUE, sign |-> Sign(r, nonce), nonce |-> @.nonce]]

\* Mutation: the headers of an earlier send are kept.
SetHeaders_once(r, nonce) ==
  header' = [header EXCEPT ![r] =
    IF @.key THEN @
    ELSE [key |-> TRUE, sign |-> Sign(r, nonce),
          nonce |-> IF kind[r].method = "GET" THEN nonce ELSE @.nonce]]

SetHeaders(r, nonce) ==
  header' = [header EXCEPT ![r] =
    [key |-> TRUE, sign |-> Sign(r, nonce),
     nonce |-> IF kind[r].method = "GET" THEN nonce ELSE @.nonce]]

\* Mutation: a request that has a nonce keeps it when it is sent again.
PrepareSigned_keepsNonce(r) ==
  /\ pc[r] = "ready" /\ needSign[r] /\ cred = "valid"
  /\ SetURL(r) /\ Outset(r, "none")
  /\ IF nonceParam[r] > 0 THEN UNCHANGED <<lastNonce, nonceParam>> ELSE DrawNonce(r)
  /\ LET nonce == IF nonceParam[r] > 0 THEN nonceParam[r] ELSE lastNonce + 1
     IN  SetHeaders(r, nonce) /\ body' = [body EXCEPT ![r] = PostData(r, nonce)]
  /\ pc' = [pc EXCEPT ![r] = "prepared"]
  /\ UNCHANGED <<cred, request, used>>

PrepareSigned(r) ==
  /\ pc[r] = "ready" /\ needSign[r] /\ cred = "valid"
  /\ SetURL(r) /\ Outset(r, "none")
  /\ DrawNonce(r)
  /\ SetHeaders(r, lastNonce + 1)
  /\ body' = [body EXCEPT ![r] = PostData(r, lastNonce + 1)]
  /\ pc' = [pc EXCEPT ![r] = "prepared"]
  /\ UNCHANGED <<cred, request, used>>

Prepare(r) == PrepareUnsigned(r) \/ PrepareNoAuth(r) \/ PrepareSignFails(r) \/ PrepareSigned(r)

---------------------------------------------------------------------------
\* Sending, and reading the answer.

\* The nonce as the exchange finds it.
WireNonce(r) == IF kind[r].method = "GET" THEN header[r].nonce ELSE body[r].nonce

Send(r) ==
  /\ pc[r] = "prepared"
  /\ used' = IF header[r].key THEN used \cup {WireNonce(r)} ELSE used
  /\ pc' = [pc EXCEPT ![r] = "sent"]
  /\ UNCHANGED <<cred, lastNonce, request, nonceParam, resty, outcome>>

\* The signature is the one the exchange computes from what it receives; the path on the wire
\* always begins with a slash.
Authentic(r) ==
  header[r].sign = [rooted |-> TRUE, query |-> url[r], nonce |-> WireNonce(r), data |-> body[r]]

\* The exchange executes or refuses the request, or it never gets there.
Serve(r) ==
  /\ pc[r] = "sent"
  /\ \E f \in {"executed", "refused", "lost"} :
       /\ f = "executed" /\ header[r].key => Authentic(r)
       /\ fate' = [fate EXCEPT ![r] = f]
  /\ pc' = [pc EXCEPT ![r] = "answered"]
  /\ UNCHANGED <<cred, lastNonce, request, nonceParam, resty, answer, result, used>>

\* What may come back.  A result that does not fit the type decoded into is a misfit.
Answers(r) ==
  LET own == CASE fate[r] = "executed" -> IF kind[r].style = "envelope" THEN {"envelope", "misfit"}
                                          ELSE IF kind[r].style = "bare" THEN {"object", "misfit"}
                                          ELSE {"bytes"}
               [] fate[r] = "refused"  -> {IF kind[r].style = "bare" THEN "problem" ELSE "errors"}
               [] OTHER                -> {}
  IN  own \cup {"nothing", "page", "json"}

\* Mutation: an envelope is a result once it decodes.
Outcome_ignoresErrors(style, a) ==
  CASE a \in {"envelope", "object", "bytes", "errors"} -> "result"
    [] a = "problem"                                   -> "problem"
    [] a \in {"misfit", "nothing"}                     -> "error"
    [] a = "page" -> IF style = "file" THEN "result" ELSE "error"
    [] a = "json" -> IF style = "bare" THEN "error" ELSE "result"

\* Mutation: whatever does not decode is reported as an error of the API.
Outcome_wrapsAll(style, a) ==
  CASE a \in {"envelope", "object", "bytes"} -> "result"
    [] a = "problem"                         -> "problem"
    [] a = "nothing"                         -> "error"
    [] OTHER                                 -> "apiError"

\* Do and DoRawResult, DoBare, and DoRaw with the inspection RetrieveDataExportService adds.
\* Only DoBare looks at the status; any JSON object without errors passes for an envelope.
Outcome(style, a) ==
  CASE a \in {"envelope", "object", "bytes"} -> "result"
    [] a = "errors"                          -> "apiError"
    [] a = "problem"                         -> "problem"
    [] a \in {"misfit", "nothing"}           -> "error"
    [] a = "page" -> IF style = "file" THEN "result" ELSE "error"
    [] a = "json" -> IF style = "bare" THEN "error" ELSE "result"

Receive(r) ==
  /\ pc[r] = "answered"
  /\ \E a \in Answers(r) :
       /\ answer' = [answer EXCEPT ![r] = a]
       /\ result' = [result EXCEPT ![r] = Outcome(kind[r].style, a)]
  /\ pc' = [pc EXCEPT ![r] = "ready"]
  /\ UNCHANGED <<cred, lastNonce, request, nonceParam, resty, fate, used>>

Next ==
  \E r \in Requests :
    \/ Create(r) \/ SetParam(r) \/ WithSign(r)
    \/ Prepare(r) \/ Send(r) \/ Serve(r) \/ Receive(r)

Spec == Init /\ [][Next]_vars

---------------------------------------------------------------------------
\* Correctness.

OnWire(r) == pc[r] \in {"prepared", "sent", "answered"}

\* The signature of every send covers "the exact bytes that go on the wire" (send.go, lines
\* 143-144), also of a request that was changed, that failed or that was sent before; provided
\* its path was given with the slash that fullURL otherwise adds and the signer does not see.
SignatureHolds ==
  \A r \in Requests : OnWire(r) /\ needSign[r] /\ kind[r].rooted => Authentic(r)

\* What travels is what the program set last, whatever an earlier send left in the resty request.
SaysWhatWasSet ==
  \A r \in Requests : OnWire(r) =>
    params[r] = IF kind[r].method = "GET" THEN url[r] ELSE body[r].params

\* No nonce travels twice, with another request or with the same one sent again.
FreshNonces ==
  [][\A r \in Requests : Send(r) /\ needSign[r] => WireNonce(r) \notin used]_vars

\* A result means that the exchange executed the request, except where the code cannot tell:
\* Do takes any JSON object without errors for an envelope, DoRaw any answer for the file.
ResultsReal ==
  \A r \in Requests : result[r] = "result" =>
    \/ fate[r] = "executed"
    \/ answer[r] = "json" /\ kind[r].style = "envelope"
    \/ answer[r] \in {"json", "page"} /\ kind[r].style = "file"

\* After an APIError or a ProblemError the request was not executed: it is safe to send again.
TypedErrorsMeanRefused ==
  \A r \in Requests : result[r] \in {"apiError", "problem"} => fate[r] = "refused"
=============================================================================
