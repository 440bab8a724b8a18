--------------------------- MODULE ClientOptions ---------------------------
(***************************************************************************)
(* The clients a program builds, and their options (client/options.go,     *)
(* client/client.go, client/websocket.go, ws.go).  Options apply in the    *)
(* order given, some store a value and some change an HTTP client at once, *)
(* and an HTTP client may be the program's own or another client's.        *)
(***************************************************************************)
EXTENDS Naturals, Sequences

CONSTANTS
  Nil,            \* nil, or the empty text
  NetworkURL,     \* the network's address
  DefaultNonce,   \* the client's own nonce generator
  Environment,    \* whatever proxy the process environment names
  Shared,         \* an HTTP client of the program's
  Told,           \* an address, a key or a generator an option is given
  MaxOptions,     \* bound: options given, over all clients
  MaxClients      \* bound: REST clients built

ASSUME OptionsAssumption ==
  /\ Shared \notin Nat \cup {Nil} /\ Nil \notin Nat /\ Nil \notin {Told, NetworkURL}
  /\ {MaxOptions, MaxClients} \subseteq Nat

VARIABLES
  http,           \* the HTTP clients there are
  clients,        \* the REST clients built on them
  option,         \* the option record of the NewClient under way
  streamOption,   \* the option record of the NewWebSocketClient under way
  stream,         \* the WebSocket client it built
  optionLog       \* history: the options of REST clients, in the order they were given

optionVars == <<http, clients, option, streamOption, stream, optionLog>>

\* An option: its field or effect, and what it is given.
Option(field, to) == [field |-> field, to |-> to]
\* A proxy, by its scheme: "http" for http and https, "socks5" for socks5 and socks5h, "other" for
\* one that is not supported, "invalid" for a text that is no URL.
Proxy(scheme, name) == [scheme |-> scheme, name |-> name]
NoProxy == Proxy("none", Nil)
Proxies ==
  {Proxy("http", "a"), Proxy("socks5", "b"), Proxy("other", "c"), Proxy("invalid", "d")}

\* How an HTTP client or a dialer reaches the exchange: what it dials through, and what it then asks
\* to forward.
Direct == [proxy |-> Proxy("environment", Environment), dial |-> NoProxy]
HTTPClient == [baseURL |-> Nil, proxy |-> Direct.proxy, dial |-> Direct.dial]

Route(way) == <<way.dial, way.proxy>>

OrElse(value, default) == IF value = Nil THEN default ELSE value

NoOption == [client |-> Nil]
NotBuilt == [token |-> Nil]

---------------------------------------------------------------------------
\* REST.

\* The client built by the NewClient under way, or by the next one.
Own == Len(clients) + 1

\* defaultOption, with an HTTP client of its own.
BeginClient ==
  /\ option = NoOption /\ Len(clients) < MaxClients
  /\ http' = [h \in DOMAIN http \cup {Own} |-> IF h = Own THEN HTTPClient ELSE http[h]]
  /\ option' = [client |-> Own, baseURL |-> Nil, auth |-> Nil, nonceFn |-> DefaultNonce]
  /\ UNCHANGED <<clients, streamOption, stream, optionLog>>

\* resty's SetProxy keeps the transport and its dialer; SetTransport replaces both.
WithProxy(way, p) ==
  CASE p.scheme = "http"   -> [way EXCEPT !.proxy = p]
    [] p.scheme = "socks5" -> [way EXCEPT !.proxy = NoProxy, !.dial = p]
    [] OTHER               -> way

\* An option that stores what it is given, unless that is nil where nil is ignored.
Store(o, field, to) ==
  CASE field = "client"  -> [o EXCEPT !.client = OrElse(to, @)]
    [] field = "nonceFn" -> [o EXCEPT !.nonceFn = OrElse(to, @)]
    [] field = "baseURL" -> [o EXCEPT !.baseURL = to]
    [] field = "auth"    -> [o EXCEPT !.auth = to]

\* GetHttpClient hands out the HTTP client of a client built before.
RestOptions ==
  {Option("baseURL", to) : to \in {Nil, Told}}
  \cup {Option("client", to) : to \in {Nil, Shared} \cup {clients[c].http : c \in DOMAIN clients}}
  \cup {Option("nonceFn", to) : to \in {Nil, Told}} \cup {Option("auth", to) : to \in {Nil, Told}}
  \cup {Option("proxy", p) : p \in Proxies}

GiveOption ==
  /\ option # NoOption /\ Len(optionLog) < MaxOptions
  /\ \E o \in RestOptions :
       /\ optionLog' = Append(optionLog, [by |-> Own, field |-> o.field, to |-> o.to])
       /\ IF o.field = "proxy"
          THEN /\ http' = [http EXCEPT ![option.client] = WithProxy(@, o.to)]
               /\ UNCHANGED option
          ELSE /\ option' = Store(option, o.field, o.to)
               /\ UNCHANGED http
  /\ UNCHANGED <<clients, streamOption, stream>>

\* Mutation: the base URL is set only on an HTTP client that has none.
SetBaseURL_keepsURL(way, url) == [way EXCEPT !.baseURL = OrElse(@, OrElse(url, NetworkURL))]

SetBaseURL(way, url) == [way EXCEPT !.baseURL = OrElse(url, NetworkURL)]

BuildClient ==
  /\ option # NoOption
  /\ http' = [http EXCEPT ![option.client] = SetBaseURL(@, option.baseURL)]
  /\ clients' = Append(clients,
       [http |-> option.client, auth |-> option.auth, nonceFn |-> option.nonceFn])
  /\ option' = NoOption
  /\ UNCHANGED <<streamOption, stream, optionLog>>

---------------------------------------------------------------------------
\* WebSocket.

\* Mutation: a dialer set for SOCKS stays.
WithWebSocketProxy_keepsDial(o, p) ==
  CASE p.scheme = "http"   -> [o EXCEPT !.proxyURL = p, !.dialer.proxy = p]
    [] p.scheme = "socks5" -> [o EXCEPT !.proxyURL = p, !.dialer = [proxy |-> NoProxy, dial |-> p]]
    [] p.scheme = "other"  -> [o EXCEPT !.proxyURL = p]
    [] OTHER               -> o

\* A URL is noted before its scheme is looked at.
WithWebSocketProxy(o, p) ==
  CASE p.scheme = "http"   -> [o EXCEPT !.proxyURL = p, !.dialer = [proxy |-> p, dial |-> NoProxy]]
    [] p.scheme = "socks5" -> [o EXCEPT !.proxyURL = p, !.dialer = [proxy |-> NoProxy, dial |-> p]]
    [] p.scheme = "other"  -> [o EXCEPT !.proxyURL = p]
    [] OTHER               -> o

\* Each option may be given again and again: the last one counts.
GiveStreamOption ==
  /\ stream = NotBuilt
  /\ \/ \E p \in Proxies : streamOption' = WithWebSocketProxy(streamOption, p)
     \/ \E url \in {Nil, Told} : streamOption' = [streamOption EXCEPT !.publicURL = url]
     \/ \E url \in {Nil, Told} : streamOption' = [streamOption EXCEPT !.privateURL = url]
     \/ \E auth \in {Nil, Told} : streamOption' = [streamOption EXCEPT !.auth = auth]
  /\ UNCHANGED <<http, clients, option, stream, optionLog>>

\* The REST client that fetches the tokens: NewClient, with the credentials and the proxy noted.
TokenClient(auth, proxyURL) ==
  [http |-> SetBaseURL(IF proxyURL = NoProxy THEN HTTPClient ELSE WithProxy(HTTPClient, proxyURL), Nil),
   auth |-> auth]

\* A client without credentials gets no tokens.
BuildStream ==
  /\ stream = NotBuilt
  /\ stream' = [publicURL |-> OrElse(streamOption.publicURL, NetworkURL),
                privateURL |-> OrElse(streamOption.privateURL, NetworkURL),
                auth |-> streamOption.auth, proxyURL |-> streamOption.proxyURL,
                dialer |-> streamOption.dialer,
                token |-> IF streamOption.auth = Nil THEN NoOption
                          ELSE TokenClient(streamOption.auth, streamOption.proxyURL)]
  /\ UNCHANGED <<http, clients, option, streamOption, optionLog>>

---------------------------------------------------------------------------
OptionsInit ==
  /\ http = [h \in {Shared} |-> HTTPClient] /\ clients = <<>> /\ option = NoOption
  /\ streamOption = [publicURL |-> Nil, privateURL |-> Nil, auth |-> Nil,
                     proxyURL |-> NoProxy, dialer |-> Direct]
  /\ stream = NotBuilt /\ optionLog = <<>>

RestNext == BeginClient \/ GiveOption \/ BuildClient

StreamNext == GiveStreamOption \/ BuildStream

OptionsNext == RestNext \/ StreamNext

OptionsSpec == OptionsInit /\ [][OptionsNext]_optionVars

---------------------------------------------------------------------------
\* What a log of options says.

Latest(S) == CHOOSE n \in S : \A m \in S : m <= n

\* What the last option of S gives, or the default.
ToldLast(log, S, default) == IF S = {} THEN default ELSE log[Latest(S)].to

\* The options client c was given for a field, among the first n; those that are not nil.
Says(log, c, field, n) == {m \in 1 .. n : log[m].by = c /\ log[m].field = field}
Gives(log, c, field, n) == {m \in Says(log, c, field, n) : log[m].to # Nil}

\* The HTTP client that option n of client c finds in place.
InPlace(log, c, n) == ToldLast(log, Gives(log, c, "client", n), c)

\* What client c is told: the HTTP client, the credentials and generator.
ClientTold(log, c) ==
  [http |-> InPlace(log, c, Len(log)),
   auth |-> ToldLast(log, Says(log, c, "auth", Len(log)), Nil),
   nonceFn |-> ToldLast(log, Gives(log, c, "nonceFn", Len(log)), DefaultNonce)]

\* The address it is told, "an empty value is ignored" (client/options.go, line 88); and whether its
\* last option for it is an empty one after one that was not.
URLTold(log, c) == ToldLast(log, Gives(log, c, "baseURL", Len(log)), NetworkURL)
EmptyLast(log, c) ==
  /\ Gives(log, c, "baseURL", Len(log)) # {}
  /\ ToldLast(log, Says(log, c, "baseURL", Len(log)), Nil) = Nil

\* The options that name a proxy for an HTTP client, and those of n clients that send on it.
Names(log, h) ==
  {m \in DOMAIN log : /\ log[m].field = "proxy" /\ log[m].to.scheme \in {"http", "socks5"}
                      /\ InPlace(log, log[m].by, m) = h}
Senders(log, n, h) == {c \in 1 .. n : InPlace(log, c, Len(log)) = h}

---------------------------------------------------------------------------
\* Correctness.

\* A client's requests go to the address, and through the proxy, named last for the HTTP client it
\* sends on: by its own options, after the one that brings the HTTP client, or by those of a
\* client built later on the same one; and they are signed with the credentials and numbered by the
\* generator its own options gave last (client/options.go, lines 68-164, client/client.go,
\* lines 31-51).  Excepted is the address of a client that is given an empty one last: the code does
\* not ignore it but drops the earlier one for the network's, against line 88.
GoesWhereTold ==
  \A c \in DOMAIN clients :
    LET h    == InPlace(optionLog, c, Len(optionLog))
        last == Latest(Senders(optionLog, Len(clients), h))
    IN  /\ clients[c] = ClientTold(optionLog, c)
        /\ EmptyLast(optionLog, last) \/ http[h].baseURL = URLTold(optionLog, last)
        /\ IF Names(optionLog, h) = {} THEN Route(http[h]) = Route(Direct)
           ELSE /\ ToldLast(optionLog, Names(optionLog, h), NoProxy) \in {http[h].dial, http[h].proxy}
                /\ Direct.proxy \notin {http[h].dial, http[h].proxy}

\* Tokens are fetched with the credentials of the stream and over the way it is dialled
\* (client/websocket.go, lines 158-161), except when the last proxy named is one the stream does
\* not support: the stream keeps an earlier one, the tokens go without.
TokenFollowsStream ==
  stream # NotBuilt =>
    IF stream.auth = Nil THEN stream.token = NoOption
    ELSE /\ stream.token.auth = stream.auth
         /\ IF stream.proxyURL.scheme = "other" THEN Route(stream.token.http) = Route(Direct)
            ELSE Route(stream.token.http) = Route(stream.dialer)
=============================================================================
