-------------------------- MODULE TokenCacheProofs --------------------------
(***************************************************************************)
(* Proofs about TokenCache, for any callers, margin, timeout, validities   *)
(* and latency: how long a cached token has to live, and that no token is  *)
(* fetched while the cached one need not be refreshed.                     *)
(***************************************************************************)
EXTENDS TokenCache, TLAPS

\* An answer arrives within MaxLatency of its token's issue, which was not in the future.
ArrivalInv ==
  /\ \A i \in 1 .. Len(issued) : issued[i].at <= now
  /\ \A c \in Callers : pc[c] = "arriving" =>
       Len(issued) > 0 /\ now <= issued[Len(issued)].at + MaxLatency

\* tokenExp is Margin before the true expiry, or up to MaxLatency later than that; the cached
\* token is the last one the cache received; a caller that fetches has found it stale.
CacheInv ==
  /\ token # 0 => /\ tokenExp <= Expiry(token) - Margin + MaxLatency
                  /\ tokenExp >= Expiry(token) - Margin
  /\ \A i \in 1 .. Len(issued) : issued[i].cached => i <= token
  /\ \A c \in Callers : pc[c] = "fetching" => ~Fresh

IInv == TypeOK /\ ArrivalInv /\ CacheInv /\ NoNeedlessFetch

---------------------------------------------------------------------------
LEMMA InitIInv == Init => IInv
<1> SUFFICES ASSUME Init PROVE IInv
  OBVIOUS
<1>1. issued \in Seq(Token) /\ Len(issued) = 0
  BY DEF Init
<1> QED
  BY <1>1, CallersAssumption
     DEF Init, IInv, TypeOK, ArrivalInv, CacheInv, Fresh, NoNeedlessFetch

\* What the endpoint grants: times, so an expiry is one too.
LEMMA Granted ==
  ASSUME TypeOK, NEW i \in 1 .. Len(issued)
  PROVE  /\ issued[i] \in Token /\ issued[i].at \in Nat /\ issued[i].valid \in Nat
         /\ Expiry(i) \in Nat
<1>1. issued \in Seq(Token) /\ Len(issued) \in Nat
  BY DEF TypeOK
<1>2. issued[i] \in Token
  BY <1>1
<1>3. issued[i].at \in Nat /\ issued[i].valid \in Nat
  BY <1>2, TimesAssumption DEF Token
<1> QED
  BY <1>2, <1>3 DEF Expiry

\* A caller that holds the mutex is the only one inside Token.
LEMMA Exclusive ==
  ASSUME TypeOK, NEW c \in Callers, NEW d \in Callers,
         pc[c] \in {"locked", "fetching", "arriving"},
         pc[d] \in {"locked", "fetching", "arriving"}
  PROVE  c = d
BY DEF TypeOK

\* The steps that neither issue nor store a token, nor let time pass.
LEMMA QuietPreserves ==
  ASSUME IInv, NEW c \in Callers,
         Lock(c) \/ UseCached(c) \/ StartFetch(c) \/ FetchFails(c)
           \/ SendSubscribe(c) \/ StartDial(c) \/ EndDial(c)
  PROVE  IInv'
<1> USE CallersAssumption DEF IInv
<1>1. UNCHANGED <<now, token, tokenExp, issued>>
  BY DEF Lock, UseCached, StartFetch, FetchFails, SendSubscribe, StartDial, EndDial
<1>2. /\ \A d \in Callers : pc'[d] = "arriving" => pc[d] = "arriving"
      /\ \A d \in Callers : pc'[d] = "fetching" => pc[d] = "fetching" \/ ~Fresh
  BY DEF Lock, UseCached, StartFetch, FetchFails, SendSubscribe, StartDial, EndDial, TypeOK
<1>3. ArrivalInv' /\ NoNeedlessFetch'
  BY <1>1, <1>2 DEF ArrivalInv, NoNeedlessFetch, Expiry
<1>4. CacheInv'
  BY <1>1, <1>2 DEF CacheInv, Expiry, Fresh
<1>5. TypeOK'
  <2>1. CASE Lock(c)
    BY <2>1 DEF Lock, TypeOK
  <2>2. CASE UseCached(c)
    BY <2>2 DEF UseCached, TypeOK
  <2>3. CASE StartFetch(c)
    BY <2>3 DEF StartFetch, TypeOK
  <2>4. CASE FetchFails(c)
    BY <2>4 DEF FetchFails, TypeOK
  <2>5. CASE SendSubscribe(c)
    BY <2>5 DEF SendSubscribe, Forget, TypeOK
  <2>6. CASE StartDial(c)
    BY <2>6 DEF StartDial, TypeOK
  <2>7. CASE EndDial(c)
    <3>1. pc' = [pc EXCEPT ![c] = "done"] \/ pc' = [pc EXCEPT ![c] = "failed"]
      BY <2>7 DEF EndDial
    <3>2. /\ tok' = [tok EXCEPT ![c] = 0] /\ since' = [since EXCEPT ![c] = 0]
          /\ UNCHANGED <<now, mu, token, tokenExp, issued>> /\ pc[c] = "dialling"
      BY <2>7 DEF EndDial, Forget
    <3>3. CASE pc' = [pc EXCEPT ![c] = "done"]
      BY <3>2, <3>3 DEF TypeOK
    <3>4. CASE pc' = [pc EXCEPT ![c] = "failed"]
      BY <3>2, <3>4 DEF TypeOK
    <3> QED
      BY <3>1, <3>3, <3>4
  <2> QED
    BY <2>1, <2>2, <2>3, <2>4, <2>5, <2>6, <2>7
<1> QED
  BY <1>3, <1>4, <1>5

\* A token is issued only when the cached one, and with it every earlier one, is within Margin
\* of its expiry.
LEMMA IssuePreserves ==
  ASSUME IInv, NEW c \in Callers, Issue(c)
  PROVE  IInv'
<1> USE CallersAssumption, TimesAssumption DEF IInv
<1>1. PICK v \in Validities :
        issued' = Append(issued, [at |-> now, valid |-> v, cached |-> FALSE])
  BY DEF Issue
<1> DEFINE new == [at |-> now, valid |-> v, cached |-> FALSE]
<1>2. new \in Token /\ issued \in Seq(Token) /\ now \in Nat /\ v \in Nat
  BY DEF Token, TypeOK
<1> HIDE DEF new
<1>3. /\ Len(issued') = Len(issued) + 1 /\ Len(issued) \in Nat /\ issued' \in Seq(Token)
      /\ \A i \in 1 .. Len(issued) : issued'[i] = issued[i]
      /\ issued'[Len(issued) + 1] = new
  BY <1>1, <1>2 DEF new
<1>4. new.at = now /\ new.valid = v /\ new.cached = FALSE
  BY DEF new
<1>5. UNCHANGED <<now, mu, token, tokenExp, tok, since>> /\ pc[c] = "fetching"
  BY DEF Issue
<1>6. \A d \in Callers :
        /\ pc'[d] = "arriving" => d = c
        /\ pc'[d] = "fetching" => pc[d] = "fetching"
  BY <1>5, Exclusive DEF Issue, TypeOK
<1>7. TypeOK'
  BY <1>3, <1>5 DEF Issue, TypeOK
<1>8. ArrivalInv'
  <2>1. ASSUME NEW i \in 1 .. Len(issued') PROVE issued'[i].at <= now'
    <3>1. CASE i \in 1 .. Len(issued)
      BY <1>3, <1>5, <3>1 DEF ArrivalInv
    <3>2. CASE i = Len(issued) + 1
      BY <1>2, <1>3, <1>4, <1>5, <3>2
    <3> QED
      BY <1>3, <3>1, <3>2
  <2>2. ASSUME NEW d \in Callers, pc'[d] = "arriving"
        PROVE Len(issued') > 0 /\ now' <= issued'[Len(issued')].at + MaxLatency
    BY <1>2, <1>3, <1>4, <1>5
  <2> QED
    BY <2>1, <2>2 DEF ArrivalInv
<1>9. token \in 0 .. Len(issued) /\ (token # 0 => Expiry(token)' = Expiry(token))
  BY <1>3, <1>5 DEF TypeOK, Expiry
<1>10. CacheInv'
  <2>1. ASSUME NEW i \in 1 .. Len(issued'), issued'[i].cached PROVE i <= token'
    BY <1>3, <1>4, <1>5, <2>1 DEF CacheInv
  <2> QED
    BY <1>5, <1>6, <1>9, <2>1 DEF CacheInv, Fresh
<1>11. \A i \in 1 .. Len(issued) : issued[i].cached => now >= Expiry(i) - Margin
  <2> SUFFICES ASSUME NEW i \in 1 .. Len(issued), issued[i].cached PROVE now >= Expiry(i) - Margin
    OBVIOUS
  <2>1. i <= token /\ token \in 1 .. Len(issued)
    BY <1>9 DEF CacheInv
  <2>2. issued[i].at \in Nat /\ issued[i].valid \in Nat /\ issued[token].at \in Nat
    BY <2>1, Granted
  <2>3. CASE i = token
    <3>1. token # 0 /\ ~Fresh /\ tokenExp \in Int
      BY <1>5, <2>1 DEF CacheInv, TypeOK
    <3>2. now >= tokenExp
      BY <1>2, <3>1 DEF Fresh
    <3>3. tokenExp >= Expiry(i) - Margin /\ Expiry(i) \in Nat
      BY <2>3, <3>1, Granted DEF CacheInv
    <3> QED
      BY <1>2, <3>1, <3>2, <3>3
  <2>4. CASE i < token
    <3>1. issued[token].at >= Expiry(i) - Margin
      BY <2>1, <2>4 DEF NoNeedlessFetch
    <3>2. issued[token].at <= now
      BY <2>1 DEF ArrivalInv
    <3>3. Expiry(i) \in Nat
      BY Granted
    <3> QED
      BY <1>2, <2>2, <3>1, <3>2, <3>3
  <2> QED
    BY <2>1, <2>3, <2>4
<1>12. NoNeedlessFetch'
  <2> SUFFICES ASSUME NEW i \in 1 .. Len(issued'), NEW j \in 1 .. Len(issued'),
                      i < j, issued'[i].cached
               PROVE  issued'[j].at >= Expiry(i)' - Margin
    BY DEF NoNeedlessFetch
  <2>1. i \in 1 .. Len(issued) /\ issued'[i] = issued[i] /\ Expiry(i)' = Expiry(i)
    BY <1>3 DEF Expiry
  <2>2. CASE j \in 1 .. Len(issued)
    BY <1>3, <2>1, <2>2 DEF NoNeedlessFetch
  <2>3. CASE j = Len(issued) + 1
    BY <1>3, <1>4, <1>11, <2>1, <2>3
  <2> QED
    BY <1>3, <2>2, <2>3
<1> QED
  BY <1>7, <1>8, <1>10, <1>12

\* Storing a token computes tokenExp from the arrival, at most MaxLatency after the issue.
LEMMA StorePreserves ==
  ASSUME IInv, NEW c \in Callers, StoreToken(c)
  PROVE  IInv'
<1> USE CallersAssumption, TimesAssumption DEF IInv
<1> DEFINE L == Len(issued)
<1>1. pc[c] = "arriving" /\ L \in Nat /\ L > 0 /\ issued \in Seq(Token) /\ now \in Nat
  BY DEF StoreToken, ArrivalInv, TypeOK
<1>2. issued' = [issued EXCEPT ![L].cached = TRUE]
  BY DEF StoreToken
<1>3. /\ Len(issued') = L /\ issued' \in Seq(Token)
      /\ \A i \in 1 .. L : i # L => issued'[i] = issued[i]
      /\ issued'[L].at = issued[L].at /\ issued'[L].valid = issued[L].valid
      /\ issued[L].at \in Nat /\ issued[L].valid \in Nat
  <2>1. issued[L] \in Token /\ issued[L].at \in Nat /\ issued[L].valid \in Nat
    BY <1>1, Granted
  <2>2. [issued[L] EXCEPT !.cached = TRUE] \in Token
    BY <2>1 DEF Token
  <2>3. issued' = [issued EXCEPT ![L] = [issued[L] EXCEPT !.cached = TRUE]]
    BY <1>1, <1>2
  <2>4. issued'[L] = [issued[L] EXCEPT !.cached = TRUE]
    <3>1. L \in DOMAIN issued
      BY <1>1
    <3> QED
      BY <2>3, <3>1
  <2>5. Len(issued') = L /\ issued' \in Seq(Token)
    BY <1>1, <2>2, <2>3
  <2>6. \A i \in 1 .. L : i # L => issued'[i] = issued[i]
    BY <1>1, <2>3
  <2>7. issued'[L].at = issued[L].at /\ issued'[L].valid = issued[L].valid
    BY <2>1, <2>4 DEF Token
  <2> QED
    BY <2>1, <2>5, <2>6, <2>7
<1>4. \A i \in 1 .. L : issued'[i].at = issued[i].at /\ issued'[i].valid = issued[i].valid
  BY <1>3
<1>5. /\ token' = L /\ tokenExp' = now + issued[L].valid - Margin
      /\ UNCHANGED <<now, since>>
  BY DEF StoreToken
<1>6. \A d \in Callers : pc'[d] \notin {"fetching", "arriving"}
  BY <1>1, Exclusive DEF StoreToken, TypeOK
<1>7. TypeOK'
  <2>1. token' \in 0 .. Len(issued') /\ tokenExp' \in Int
    BY <1>1, <1>3, <1>5
  <2>2. tok' \in [Callers -> 0 .. Len(issued')]
    BY <1>1, <1>3 DEF StoreToken, TypeOK
  <2>3. /\ mu' \in Callers \cup {NoCaller}
        /\ pc' \in [Callers -> {"start", "locked", "fetching", "arriving", "got", "dialling",
                               "done", "failed"}]
        /\ \A d \in Callers : mu' = d <=> pc'[d] \in {"locked", "fetching", "arriving"}
    BY <1>1 DEF StoreToken, TypeOK
  <2> QED
    BY <1>3, <1>5, <2>1, <2>2, <2>3 DEF TypeOK
<1>8. ArrivalInv'
  BY <1>3, <1>4, <1>5, <1>6 DEF ArrivalInv
<1>9. Expiry(token)' = issued[L].at + issued[L].valid
  BY <1>3, <1>5 DEF Expiry
<1>10. issued[L].at <= now /\ now <= issued[L].at + MaxLatency
  BY <1>1 DEF ArrivalInv
<1>11. CacheInv'
  <2>1. tokenExp' <= Expiry(token)' - Margin + MaxLatency
    BY <1>1, <1>3, <1>5, <1>9, <1>10
  <2>2. tokenExp' >= Expiry(token)' - Margin
    BY <1>1, <1>3, <1>5, <1>9, <1>10
  <2> QED
    BY <1>3, <1>5, <1>6, <2>1, <2>2 DEF CacheInv
<1>12. NoNeedlessFetch'
  BY <1>3, <1>4 DEF NoNeedlessFetch, Expiry
<1> QED
  BY <1>7, <1>8, <1>11, <1>12

LEMMA TickPreserves ==
  ASSUME IInv, Tick
  PROVE  IInv'
<1> USE CallersAssumption, TimesAssumption DEF IInv
<1>1. now' = now + 1 /\ now \in Nat /\ UNCHANGED <<mu, token, tokenExp, issued, pc, tok, since>>
  BY DEF Tick, TypeOK
<1>2. TypeOK' /\ NoNeedlessFetch'
  BY <1>1 DEF TypeOK, NoNeedlessFetch, Expiry
<1>3. ArrivalInv'
  <2>1. \A i \in 1 .. Len(issued) : issued[i].at \in Nat
    BY Granted
  <2>2. ASSUME NEW i \in 1 .. Len(issued') PROVE issued'[i].at <= now'
    BY <1>1, <2>1 DEF ArrivalInv
  <2>3. ASSUME NEW c \in Callers, pc'[c] = "arriving"
        PROVE Len(issued') > 0 /\ now' <= issued'[Len(issued')].at + MaxLatency
    <3>1. Len(issued) > 0 /\ Len(issued) \in Nat /\ issued[Len(issued)].at \in Nat
      BY <1>1, <2>1, <2>3 DEF ArrivalInv, TypeOK
    <3> QED
      BY <1>1, <2>3, <3>1 DEF Tick
  <2> QED
    BY <2>2, <2>3 DEF ArrivalInv
<1>4. CacheInv'
  BY <1>1 DEF CacheInv, Expiry, Fresh, TypeOK
<1> QED
  BY <1>2, <1>3, <1>4

LEMMA StutterPreserves == IInv /\ UNCHANGED vars => IInv'
BY DEF IInv, vars, TypeOK, ArrivalInv, CacheInv, Expiry, Fresh, NoNeedlessFetch

---------------------------------------------------------------------------
\* The invariant holds for all constants that satisfy the assumptions; it contains type
\* correctness and NoNeedlessFetch.
THEOREM Invariance == Spec => []IInv
<1>1. IInv /\ [Next]_vars => IInv'
  BY QuietPreserves, IssuePreserves, StorePreserves, TickPreserves, StutterPreserves
     DEF Next, TokenStep, UseStep
<1> QED
  BY InitIInv, <1>1, PTL DEF Spec

\* Every variable of the token cache keeps its type.
THEOREM TypeCorrect == Spec => []TypeOK
<1>1. IInv => TypeOK
  BY DEF IInv
<1> QED
  BY Invariance, <1>1, PTL

\* A token served from the cache has more than Margin - MaxLatency to live.
THEOREM CachedLives == Spec => []CachedTokenLives
<1>1. IInv => CachedTokenLives
  <2> SUFFICES ASSUME IInv, Fresh PROVE Expiry(token) - now > Margin - MaxLatency
    BY DEF CachedTokenLives
  <2>1. token \in 1 .. Len(issued) /\ issued[token] \in Token
    BY DEF IInv, TypeOK, Fresh
  <2>2. Expiry(token) \in Nat /\ now \in Nat /\ tokenExp \in Int
    BY <2>1, Granted DEF IInv, TypeOK
  <2> QED
    BY <2>1, <2>2, TimesAssumption DEF Fresh, IInv, CacheInv
<1> QED
  BY Invariance, <1>1, PTL

\* No token is issued while one the cache received is further than Margin from its expiry.
THEOREM FetchesNeeded == Spec => []NoNeedlessFetch
<1>1. IInv => NoNeedlessFetch
  BY DEF IInv
<1> QED
  BY Invariance, <1>1, PTL

---------------------------------------------------------------------------
\* How stale a token can get between Token and the end of the dial.

\* What a token has to spare, but for the time it took to arrive, when Token returns it: the
\* margin if it comes from the cache, all of its life if it is new.
Spare(t) == IF issued[t].valid < Margin THEN issued[t].valid ELSE Margin

DialInv ==
  \A c \in Callers :
    /\ pc[c] = "got" => /\ tok[c] \in 1 .. Len(issued)
                        /\ now + Spare(tok[c]) <= Expiry(tok[c]) + MaxLatency
    /\ pc[c] = "dialling" => /\ tok[c] \in 1 .. Len(issued)
                             /\ since[c] + Spare(tok[c]) <= Expiry(tok[c]) + MaxLatency
                             /\ now <= since[c] + HandshakeTimeout

\* No dial goes on with a token that died more than HandshakeTimeout + MaxLatency - Spare ago.
BoundedOverrun ==
  \A c \in Dialers : pc[c] = "dialling" =>
    now + Spare(tok[c]) <= Expiry(tok[c]) + HandshakeTimeout + MaxLatency

LEMMA DialInit == Init => DialInv
BY DEF Init, DialInv

\* Every step of a caller but Issue and StoreToken; the cache is used only while it is fresh.
LEMMA DialQuiet ==
  ASSUME IInv, DialInv, NEW c \in Callers,
         Lock(c) \/ UseCached(c) \/ StartFetch(c) \/ FetchFails(c)
           \/ SendSubscribe(c) \/ StartDial(c) \/ EndDial(c)
  PROVE  DialInv'
<1> USE TimesAssumption
<1>1. UNCHANGED <<now, issued>>
  BY DEF Lock, UseCached, StartFetch, FetchFails, SendSubscribe, StartDial, EndDial
<1>2. TypeOK /\ now \in Nat /\ Len(issued) \in Nat
  BY DEF IInv, TypeOK
<1>3. \A i \in 1 .. Len(issued) : Expiry(i)' = Expiry(i)
  BY <1>1 DEF Expiry
<1>4. CASE UseCached(c)
  <2>1. Fresh /\ tok'[c] = token /\ pc'[c] = "got" /\ token \in 1 .. Len(issued)
    BY <1>2, <1>4 DEF UseCached, Fresh, TypeOK
  <2>2. Expiry(token) \in Nat /\ tokenExp \in Int /\ now < tokenExp
        /\ tokenExp <= Expiry(token) - Margin + MaxLatency
    BY <1>2, <2>1, Granted DEF Fresh, IInv, CacheInv, TypeOK
  <2>3. now + Spare(token) <= Expiry(token) + MaxLatency
    <3>1. issued[token].valid \in Nat
      BY <1>2, <2>1, Granted
    <3>2. Spare(token) <= Margin /\ Spare(token) \in Nat
      BY <3>1 DEF Spare
    <3> QED
      BY <1>2, <2>2, <3>2
  <2>4. ASSUME NEW d \in Callers, d # c
        PROVE pc'[d] = pc[d] /\ tok'[d] = tok[d] /\ since'[d] = since[d]
    BY <1>2, <1>4, <2>4 DEF UseCached, TypeOK
  <2> QED
    BY <1>1, <2>1, <2>3, <2>4 DEF DialInv, Expiry, Spare
<1>5. CASE StartDial(c)
  <2>1. /\ tok' = tok /\ pc[c] = "got" /\ pc'[c] = "dialling" /\ since'[c] = now
        /\ \A d \in Callers : d # c => pc'[d] = pc[d] /\ since'[d] = since[d]
    BY <1>2, <1>5 DEF StartDial, TypeOK
  <2> QED
    BY <1>1, <1>2, <2>1 DEF DialInv, Expiry, Spare
<1>6. CASE Lock(c) \/ StartFetch(c) \/ FetchFails(c)
  <2>1. /\ tok' = tok /\ since' = since /\ pc'[c] \notin {"got", "dialling"}
        /\ \A d \in Callers : d # c => pc'[d] = pc[d]
    BY <1>2, <1>6 DEF Lock, StartFetch, FetchFails, TypeOK
  <2> QED
    BY <1>1, <2>1 DEF DialInv, Expiry, Spare
<1>7. CASE SendSubscribe(c) \/ EndDial(c)
  <2>1. /\ pc'[c] \notin {"got", "dialling"}
        /\ \A d \in Callers : d # c =>
             pc'[d] = pc[d] /\ tok'[d] = tok[d] /\ since'[d] = since[d]
    BY <1>2, <1>7 DEF SendSubscribe, EndDial, Forget, TypeOK
  <2> QED
    BY <1>1, <2>1 DEF DialInv, Expiry, Spare
<1> QED
  BY <1>4, <1>5, <1>6, <1>7

\* Issuing a token changes none that was issued.
LEMMA DialIssue ==
  ASSUME IInv, DialInv, NEW c \in Callers, Issue(c)
  PROVE  DialInv'
<1>1. PICK v \in Validities :
        issued' = Append(issued, [at |-> now, valid |-> v, cached |-> FALSE])
  BY DEF Issue
<1> DEFINE new == [at |-> now, valid |-> v, cached |-> FALSE]
<1>2. new \in Token /\ issued \in Seq(Token)
  BY DEF Token, IInv, TypeOK
<1> HIDE DEF new
<1>3. /\ Len(issued') = Len(issued) + 1 /\ Len(issued) \in Nat
      /\ \A i \in 1 .. Len(issued) : issued'[i] = issued[i]
  BY <1>1, <1>2 DEF new
<1>4. /\ UNCHANGED <<now, tok, since>> /\ pc'[c] = "arriving"
      /\ \A d \in Callers : d # c => pc'[d] = pc[d]
  BY DEF Issue, IInv, TypeOK
<1> QED
  BY <1>3, <1>4 DEF DialInv, Expiry, Spare

\* A token that arrives was issued at most MaxLatency ago.
LEMMA DialStore ==
  ASSUME IInv, DialInv, NEW c \in Callers, StoreToken(c)
  PROVE  DialInv'
<1> USE TimesAssumption
<1> DEFINE L == Len(issued)
<1>1. pc[c] = "arriving" /\ L \in 1 .. Len(issued) /\ issued \in Seq(Token) /\ now \in Nat
  BY DEF StoreToken, IInv, ArrivalInv, TypeOK
<1>2. /\ issued[L] \in Token /\ issued[L].at \in Nat /\ issued[L].valid \in Validities
      /\ issued[L].valid \in Nat /\ now <= issued[L].at + MaxLatency
  BY <1>1, Granted DEF IInv, ArrivalInv, Token
<1>3. /\ Len(issued') = L
      /\ \A i \in 1 .. L : issued'[i].at = issued[i].at /\ issued'[i].valid = issued[i].valid
  <2>1. issued' = [issued EXCEPT ![L] = [issued[L] EXCEPT !.cached = TRUE]]
    BY <1>1 DEF StoreToken
  <2>2. Len(issued') = L
    BY <1>1, <2>1
  <2>3. issued'[L] = [issued[L] EXCEPT !.cached = TRUE]
    <3>1. L \in DOMAIN issued
      BY <1>1
    <3> QED
      BY <2>1, <3>1
  <2>4. issued'[L].at = issued[L].at /\ issued'[L].valid = issued[L].valid
    BY <1>2, <2>3 DEF Token
  <2>5. \A i \in 1 .. L : i # L => issued'[i] = issued[i]
    BY <1>1, <2>1
  <2> QED
    BY <2>2, <2>4, <2>5
<1>4. /\ UNCHANGED <<now, since>> /\ pc'[c] = "got" /\ tok'[c] = L
      /\ \A d \in Callers : d # c => pc'[d] = pc[d] /\ tok'[d] = tok[d]
  BY <1>1 DEF StoreToken, IInv, TypeOK
<1>5. now + Spare(L) <= issued[L].at + issued[L].valid + MaxLatency
  <2>1. Spare(L) <= issued[L].valid /\ Spare(L) \in Nat
    BY <1>2 DEF Spare
  <2> QED
    BY <1>1, <1>2, <2>1
<1>6. \A i \in 1 .. L : Expiry(i)' = Expiry(i) /\ Spare(i)' = Spare(i)
  BY <1>3 DEF Expiry, Spare
<1>7. Expiry(L) = issued[L].at + issued[L].valid
  BY DEF Expiry
<1> HIDE DEF L
<1>8. ASSUME NEW d \in Callers
      PROVE  /\ pc'[d] = "got" => tok'[d] \in 1 .. L
                                  /\ now + Spare(tok'[d]) <= Expiry(tok'[d]) + MaxLatency
             /\ pc'[d] = "dialling" =>
                  /\ tok'[d] \in 1 .. L
                  /\ since[d] + Spare(tok'[d]) <= Expiry(tok'[d]) + MaxLatency
                  /\ now <= since[d] + HandshakeTimeout
  <2>1. CASE d = c
    BY <1>1, <1>4, <1>5, <1>7, <2>1 DEF L
  <2>2. CASE d # c
    BY <1>4, <2>2 DEF DialInv, L
  <2> QED
    BY <2>1, <2>2
<1>9. /\ tok' \in [Callers -> 0 .. L]
      /\ \A d \in Callers : tok'[d] \in 1 .. L =>
           /\ Expiry(tok[d])' = Expiry(tok'[d])
           /\ Spare(tok[d])' = Spare(tok'[d])
  <2>1. tok' \in [Callers -> 0 .. L]
    BY StorePreserves, <1>3 DEF IInv, TypeOK, L
  <2> QED
    BY <2>1, <1>6 DEF Expiry, Spare
<1> QED
  BY <1>3, <1>4, <1>8, <1>9 DEF DialInv

\* Time does not pass between Token's return and the dial, nor beyond the dial's timeout.
LEMMA DialTick ==
  ASSUME IInv, DialInv, Tick
  PROVE  DialInv'
<1>1. /\ now' = now + 1 /\ now \in Nat /\ UNCHANGED <<issued, pc, tok, since>>
      /\ \A c \in Callers : pc[c] # "got" /\ since[c] \in Nat
      /\ \A c \in Callers : pc[c] = "dialling" => now < since[c] + HandshakeTimeout
  BY DEF Tick, IInv, TypeOK
<1> QED
  BY <1>1, TimesAssumption DEF DialInv, Expiry, Spare

LEMMA DialInvariance == Spec => [](IInv /\ DialInv)
<1>1. IInv /\ DialInv /\ [Next]_vars => DialInv'
  <2> SUFFICES ASSUME IInv, DialInv, [Next]_vars PROVE DialInv'
    OBVIOUS
  <2>1. CASE UNCHANGED vars
    BY <2>1 DEF vars, DialInv, Expiry, Spare
  <2>2. ASSUME NEW c \in Callers, Lock(c) \/ TokenStep(c) \/ Issue(c) \/ UseStep(c)
        PROVE  DialInv'
    BY <2>2, DialQuiet, DialIssue, DialStore DEF TokenStep, UseStep
  <2> QED
    BY <2>1, <2>2, DialTick DEF Next
<1> QED
  BY Invariance, DialInit, <1>1, PTL DEF Spec

LEMMA Overrun == IInv /\ DialInv => BoundedOverrun
<1> SUFFICES ASSUME IInv, DialInv, NEW c \in Dialers, pc[c] = "dialling"
             PROVE  now + Spare(tok[c]) <= Expiry(tok[c]) + HandshakeTimeout + MaxLatency
  BY DEF BoundedOverrun
<1>1. c \in Callers
  BY DEF Callers
<1>2. tok[c] \in 1 .. Len(issued) /\ now \in Nat /\ since[c] \in Nat
  BY <1>1 DEF IInv, TypeOK, DialInv
<1>3. Expiry(tok[c]) \in Nat /\ Spare(tok[c]) \in Nat
  BY <1>2, Granted, TimesAssumption DEF IInv, Spare
<1> QED
  BY <1>1, <1>2, <1>3, TimesAssumption DEF DialInv

\* A token may die mid-handshake, as the run token_handshake shows, but it is used at most
\* HandshakeTimeout + MaxLatency - Margin after its expiry (with the code's 45s and 30s: 15s
\* and the latency), or as much longer as it was granted for less than the margin.
THEOREM OverrunIsBounded == Spec => []BoundedOverrun
BY DialInvariance, Overrun, PTL

\* The margin, and all that is granted, exceed a handshake and the latency. The code's values
\* (30s against 45s) do not.
MarginCovers ==
  /\ Margin > HandshakeTimeout + MaxLatency
  /\ \A v \in Validities : v > HandshakeTimeout + MaxLatency

\* "Refresh a little early to avoid using a token that expires mid-handshake" (websocket.go
\* line 124) would be true of such a margin.
COROLLARY HandshakesFit ==
  ASSUME MarginCovers
  PROVE  Spec => []NoExpiryMidHandshake
<1>1. IInv /\ DialInv => NoExpiryMidHandshake
  <2> SUFFICES ASSUME IInv, DialInv, NEW c \in Dialers, pc[c] = "dialling"
               PROVE  now < Expiry(tok[c])
    BY DEF NoExpiryMidHandshake
  <2>1. c \in Callers
    BY DEF Callers
  <2>2. tok[c] \in 1 .. Len(issued) /\ now \in Nat
    BY <2>1 DEF IInv, TypeOK, DialInv
  <2>3. Expiry(tok[c]) \in Nat /\ issued[tok[c]].valid \in Validities
    BY <2>2, Granted DEF IInv, Token
  <2>4. Spare(tok[c]) \in Nat /\ Spare(tok[c]) > HandshakeTimeout + MaxLatency
    BY <2>3, TimesAssumption DEF Spare, MarginCovers
  <2>5. now + Spare(tok[c]) <= Expiry(tok[c]) + HandshakeTimeout + MaxLatency
    BY Overrun DEF BoundedOverrun
  <2> QED
    BY <2>2, <2>3, <2>4, <2>5, TimesAssumption
<1> QED
  BY DialInvariance, <1>1, PTL
=============================================================================
