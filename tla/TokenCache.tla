----------------------------- MODULE TokenCache -----------------------------
(***************************************************************************)
(* The token cache of client/websocket.go as its two kinds of caller use   *)
(* it: subscribeBytes (request/ws.go), which has dialled already and sends *)
(* the token at once, and DialWsTrade (request/ws_trade.go), which takes   *)
(* the token first and then spends up to HandshakeTimeout on the dial.     *)
(* Token holds c.mu across the whole fetch.                                *)
(*                                                                         *)
(* Outside the module's sources: the REST endpoint that issues tokens,     *)
(* each valid for some number of time units from its issue.                *)
(***************************************************************************)
EXTENDS Integers, Sequences

CONSTANTS
  Subscribers, Dialers,   \* calls of subscribeBytes and of DialWsTrade
  NoCaller,               \* c.mu is free
  Margin,                 \* tokens are refreshed this long before their expiry (30s)
  HandshakeTimeout,       \* of the default dialer (45s)
  Validities,             \* what the endpoint may grant
  MaxLatency,             \* longest time an issued token takes to arrive
  MaxTime, MaxIssues      \* bounds: the clock, tokens issued

Callers == Subscribers \cup Dialers

ASSUME CallersAssumption == NoCaller \notin Callers
ASSUME TimesAssumption ==
  /\ Margin \in Nat /\ HandshakeTimeout \in Nat /\ Validities \subseteq Nat
  /\ MaxLatency \in Nat
  /\ MaxTime \in Nat /\ MaxIssues \in Nat

VARIABLES
  now,               \* the clock (Go compares its monotonic reading)
  mu,                \* the caller holding c.mu
  token, tokenExp,   \* the cache: index of a token in issued (0: none); when to refresh it
  issued,            \* history of the endpoint: [at, valid, cached] of each token
  pc, tok, since     \* each caller: its place, the token it got, when its dial began

vars == <<now, mu, token, tokenExp, issued, pc, tok, since>>

Token == [at : Nat, valid : Validities, cached : BOOLEAN]

TypeOK ==
  /\ now \in Nat
  /\ mu \in Callers \cup {NoCaller}
  /\ issued \in Seq(Token)
  /\ token \in 0 .. Len(issued)
  /\ tokenExp \in Int
  /\ pc \in [Callers -> {"start", "locked", "fetching", "arriving", "got", "dialling",
                         "done", "failed"}]
  /\ tok \in [Callers -> 0 .. Len(issued)]
  /\ since \in [Callers -> Nat]
  /\ \A c \in Callers : mu = c <=> pc[c] \in {"locked", "fetching", "arriving"}

Init ==
  /\ now = 0
  /\ mu = NoCaller
  /\ token = 0 /\ tokenExp = 0
  /\ issued = <<>>
  /\ pc = [c \in Callers |-> "start"]
  /\ tok = [c \in Callers |-> 0]
  /\ since = [c \in Callers |-> 0]

Expiry(t) == issued[t].at + issued[t].valid

---------------------------------------------------------------------------
\* Token.

Lock(c) ==
  /\ pc[c] = "start" /\ mu = NoCaller
  /\ mu' = c
  /\ pc' = [pc EXCEPT ![c] = "locked"]
  /\ UNCHANGED <<now, token, tokenExp, issued, tok, since>>

Fresh == token # 0 /\ now < tokenExp

UseCached(c) ==
  /\ pc[c] = "locked" /\ Fresh
  /\ tok' = [tok EXCEPT ![c] = token]
  /\ pc' = [pc EXCEPT ![c] = "got"]
  /\ mu' = NoCaller
  /\ UNCHANGED <<now, token, tokenExp, issued, since>>

\* Mutation: the cache is not looked up again once the mutex is taken.
StartFetch_always(c) ==
  /\ pc[c] = "locked"
  /\ pc' = [pc EXCEPT ![c] = "fetching"]
  /\ UNCHANGED <<now, mu, token, tokenExp, issued, tok, since>>

StartFetch(c) ==
  /\ pc[c] = "locked" /\ ~Fresh
  /\ pc' = [pc EXCEPT ![c] = "fetching"]
  /\ UNCHANGED <<now, mu, token, tokenExp, issued, tok, since>>

\* The endpoint issues a token; its answer is on the way.
Issue(c) ==
  /\ pc[c] = "fetching" /\ Len(issued) < MaxIssues
  /\ \E v \in Validities : issued' = Append(issued, [at |-> now, valid |-> v, cached |-> FALSE])
  /\ pc' = [pc EXCEPT ![c] = "arriving"]
  /\ UNCHANGED <<now, mu, token, tokenExp, tok, since>>

\* Mutation: the expiry is cached as granted, without the margin.
StoreToken_noMargin(c) ==
  /\ pc[c] = "arriving"
  /\ token' = Len(issued)
  /\ tokenExp' = now + issued[Len(issued)].valid
  /\ issued' = [issued EXCEPT ![Len(issued)].cached = TRUE]
  /\ tok' = [tok EXCEPT ![c] = Len(issued)]
  /\ pc' = [pc EXCEPT ![c] = "got"]
  /\ mu' = NoCaller
  /\ UNCHANGED <<now, since>>

StoreToken(c) ==
  /\ pc[c] = "arriving"
  /\ token' = Len(issued)
  /\ tokenExp' = now + issued[Len(issued)].valid - Margin
  /\ issued' = [issued EXCEPT ![Len(issued)].cached = TRUE]
  /\ tok' = [tok EXCEPT ![c] = Len(issued)]
  /\ pc' = [pc EXCEPT ![c] = "got"]
  /\ mu' = NoCaller
  /\ UNCHANGED <<now, since>>

\* Mutation: the mutex stays locked when the fetch fails.
FetchFails_keepsLock(c) ==
  /\ pc[c] \in {"fetching", "arriving"}
  /\ pc' = [pc EXCEPT ![c] = "failed"]
  /\ UNCHANGED <<now, mu, token, tokenExp, issued, tok, since>>

\* The fetch fails, before or after the endpoint issued a token, or no tokenFn is set; the cache
\* keeps what it has.
FetchFails(c) ==
  /\ pc[c] \in {"fetching", "arriving"}
  /\ pc' = [pc EXCEPT ![c] = "failed"]
  /\ mu' = NoCaller
  /\ UNCHANGED <<now, token, tokenExp, issued, tok, since>>

---------------------------------------------------------------------------
\* What the callers do with the token.

\* The caller is done with its token.
Forget(c) == tok' = [tok EXCEPT ![c] = 0] /\ since' = [since EXCEPT ![c] = 0]

\* subscribeBytes writes it in the subscribe frame.
SendSubscribe(c) ==
  /\ c \in Subscribers /\ pc[c] = "got"
  /\ pc' = [pc EXCEPT ![c] = "done"]
  /\ Forget(c)
  /\ UNCHANGED <<now, mu, token, tokenExp, issued>>

StartDial(c) ==
  /\ c \in Dialers /\ pc[c] = "got"
  /\ pc' = [pc EXCEPT ![c] = "dialling"]
  /\ since' = [since EXCEPT ![c] = now]
  /\ UNCHANGED <<now, mu, token, tokenExp, issued, tok>>

\* The handshake completes, or fails, the latest when it times out.
EndDial(c) ==
  /\ pc[c] = "dialling"
  /\ pc' \in {[pc EXCEPT ![c] = "done"], [pc EXCEPT ![c] = "failed"]}
  /\ Forget(c)
  /\ UNCHANGED <<now, mu, token, tokenExp, issued>>

---------------------------------------------------------------------------
\* Time passes, but not beyond MaxLatency while a token is on its way nor beyond
\* HandshakeTimeout while a caller dials; what a caller does after Token returned is immediate.
Tick ==
  /\ now < MaxTime
  /\ \A c \in Callers :
       /\ pc[c] # "got"
       /\ pc[c] = "arriving" => now < issued[Len(issued)].at + MaxLatency
       /\ pc[c] = "dialling" => now < since[c] + HandshakeTimeout
  /\ now' = now + 1
  /\ UNCHANGED <<mu, token, tokenExp, issued, pc, tok, since>>

TokenStep(c) == UseCached(c) \/ StartFetch(c) \/ StoreToken(c) \/ FetchFails(c)
UseStep(c) == SendSubscribe(c) \/ StartDial(c) \/ EndDial(c)

Next ==
  \/ \E c \in Callers : Lock(c) \/ TokenStep(c) \/ Issue(c) \/ UseStep(c)
  \/ Tick

Spec == Init /\ [][Next]_vars

\* A waiter gets the mutex once it stays free, the holder looks at the cache, and a caller
\* goes on with what it got.  Nothing makes a fetch end: the default HTTP client has no timeout.
Fairness ==
  \A c \in Callers :
    /\ WF_vars(Lock(c))
    /\ WF_vars(UseCached(c) \/ StartFetch(c))
    /\ WF_vars(UseStep(c))

FairSpec == Spec /\ Fairness

---------------------------------------------------------------------------
\* Correctness.

\* A token served from the cache has more than Margin - MaxLatency to live: tokenExp is
\* computed when the answer arrives, the endpoint counts from the issue (lines 113, 125).
CachedTokenLives == Fresh => Expiry(token) - now > Margin - MaxLatency

\* "Token returns a valid WebSocket auth token, fetching (and caching) a fresh one when the cached
\* token is missing or near expiry" (lines 107-108): the endpoint is not asked again while a token
\* the cache received is further than Margin from its expiry, however many callers arrive at
\* once.  That tokens "may be reused across connections" is what line 109 says; for the other
\* opinion see SingleUse.
NoNeedlessFetch ==
  \A i, j \in 1 .. Len(issued) :
    i < j /\ issued[i].cached => issued[j].at >= Expiry(i) - Margin

\* Nothing but a fetch that never ends keeps a caller waiting, whatever became of the fetches
\* before: again and again it has returned or a fetch is under way, and as each caller fetches
\* once, one stays under way for ever.  (It holds c.mu, and those behind it cannot even give up.)
FetchUnderWay == \E c \in Callers : pc[c] \in {"fetching", "arriving"}
TokenReturns ==
  \A c \in Callers :
    pc[c] \notin {"done", "failed"} ~> pc[c] \in {"done", "failed"} \/ FetchUnderWay

\* "Refresh a little early to avoid using a token that expires mid-handshake" (line 124): a
\* token that was valid when the dial began is valid when the dial succeeds.
NoExpiryMidHandshake ==
  \A c \in Dialers : pc[c] = "dialling" /\ since[c] < Expiry(tok[c]) => now < Expiry(tok[c])

\* "a single-use authentication token" (websocket.go of the package kraken, line 13): no two
\* callers hold the same one.
SingleUse == \A c, d \in Callers : c # d /\ tok[c] # 0 => tok[c] # tok[d]
=============================================================================
