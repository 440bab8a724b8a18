# go-kraken: TLA+ models, checks and proofs

go-kraken is a Go SDK for the Kraken exchange: signed REST requests, streaming
subscriptions and order entry over Kraken's WebSocket v2 API. This directory models the
parts of it where several goroutines, the network and the gateway meet, every service a
program builds its requests with, and the pure algorithms between them; it checks them with
TLC on small instances, and proves what matters most with TLAPS for all instances.

## The system

| Component (source) | State it keeps | Operations | What is hard | What makes it correct |
|---|---|---|---|---|
| Trading connection (`request/ws_trade.go`, used by `ws_trade.go`) | pending map, id counter, done channel, connection | `DialWsTrade`, `WsTradeCall`/`call`, `readLoop`, `keepAlive`, `failAll`, `Close` | any number of callers share one connection and one map with two goroutines; cancellation, late and duplicate replies, a dying link | a call gets the answer to its own frame or an error, nobody blocks for ever, nothing is left behind |
| Subscription (`request/ws.go`, used by `ws_public.go`, `ws_private.go`) | connection, `doneC`, `stopC`, the flag `silent` | `subscribeBytes`, its reader and stopper goroutines, `wsKeepAlive` | three goroutines tear down one connection; either side ends the stream; callbacks panic | frames in order, exactly one final error, then `stopC`; no connection or goroutine left |
| WebSocket client (`client/websocket.go`, `ws.go`) | options; the cached token and its deadline under a mutex | `Token`, `SetTokenFn`, options | the mutex is held over a network call; tokens expire between check and use | no dead token served, no needless fetch, no caller stuck but behind a fetch that never ends |
| REST client (`client/client.go`, `client/options.go`) | options; the nonce floor | `Nonce` (`newNonceFn`), options | lock-free loop under concurrency; clock set back; restart; two generators on one key | nonces of a generator strictly increase |
| REST request engine (`request/request.go`, `send.go`, `sign.go`, `client/errors.go`) | one `Request`: method, path, params, headers, body | `SetParam`, `WithSign`, `prepare`, `Do`, `DoRawResult`, `DoBare`, `DoRaw` | what is signed must be what is sent; re-sending; classifying a response by its body | the signature covers the wire bytes and a fresh nonce; errors are not taken for results |
| Order book checksum (`book_checksum.go`) | bids and asks by price; the pair's decimals | `Reset`, `ApplySnapshot`, `ApplyUpdate`, `Checksum`, `Verify` | lost updates, reuse across connections, levels that leave the depth and come back | a consumer that missed nothing has the exchange's levels and is never alarmed |
| Endpoint services (`account.go`, `market.go`, `trade.go`, `funding.go`, `earn.go`, `affiliate.go`, `algo.go`, `subaccount.go`, `transparency.go`) | a parameter map per service | setters and `Do` | parameters that stick between calls; batch encoding; positional JSON columns | the request says what the setters said |
| WebSocket services (`ws_public.go`, `ws_private.go`, `ws_trade.go`, `websocket.go`) | a parameter map | setters, `Do`, trading methods | several replies to one frame (`cancel_order` with many ids) | as above |
| Client order ids (`clordid.go`) | none | `ValidateClOrdID` | boundaries of three formats | accepts exactly the documented forms |
| JSON codec (`common/json*.go`) | registered codecs | time and decimal encode/decode | negative times, fraction digits, overflow | decode after encode is the identity |
| Logger, `kraw`, `internal/apitest` | none of interest | | I/O | not modelled |

How they interact: an endpoint service builds a `Request`, which draws a nonce from the REST
client, signs and sends it. `kraken.NewWebSocketClient` makes a REST client of its own and
installs its token endpoint as the `WebSocketClient`'s `TokenFn`. A subscription dials first
and then asks `Token`; `DialWsTrade` asks `Token` first and then dials. A typed service is a
callback wrapped around `subscribeBytes` or a method name given to `WsTradeCall`. What a
service's Do hands to `request.Post` or `Get` (module `Services`) is what a `Request` begins
with (module `RestRequest`), and the kinds of request the latter is checked for are read off
the catalog of the services (`Endpoints!RestEndpoints`).

## Modules

| Module | Models | Extends / instantiates |
|---|---|---|
| `RequestReply` | abstract: what a trading connection promises each call | |
| `WsTradeConn` | `request/ws_trade.go`: callers, `readLoop`, `keepAlive`, `Close` | implements `RequestReply` |
| `WsTradeConnProofs` | its inductive invariant, its properties and the refinement | `WsTradeConn` |
| `EventStream` | abstract: what a subscription promises its consumer | |
| `Subscription` | `subscribeBytes` and its goroutines | implements `EventStream` |
| `SubscriptionProofs` | its inductive invariant and the refinement | `Subscription` |
| `TokenCache` | `Token`, used by `subscribeBytes` and `DialWsTrade` | |
| `TokenCacheProofs` | its inductive invariant, freshness, no needless fetch, how stale a token in use can be | `TokenCache` |
| `NonceSource` | abstract: an atomic strictly increasing source | |
| `Nonce` | `newNonceFn` under concurrent signed requests, clock and restarts | implements `NonceSource` |
| `NonceProofs` | its inductive invariant, the refinement, restarts under a steady clock | `Nonce` |
| `BookChecksum` | `book_checksum.go` fed by a consumer of the book channel | |
| `BookChecksumProofs` | its inductive invariant, no false alarms, what one can come from | `BookChecksum` |
| `RestRequest` | `request/request.go`, `send.go`, `sign.go`: one client's requests, built, signed, sent again | |
| `RestRequestProofs` | its inductive invariant and six results | `RestRequest` |
| `Endpoints` | the 77 services: constructor, setters, endpoint, method, signing, style | |
| `OrderEncoding` | `toParams` and the batches of `trade.go` and `ws_trade.go`, and how they are read | |
| `Services` | any one service of a catalog: setters, legs, `Do`, `DoConsolidated` | `OrderEncoding` |
| `ServicesProofs` | the inductive invariants of `Services`, `ClientOptions` and the inputs of `Algorithms`, and all properties of the three | `Services`, `Algorithms`, `ClientOptions`, `UnixTimeProofs` |
| `UnixTime` | `common/json_timeunix.go` and the Unix part of `json_time.go` | |
| `UnixTimeProofs` | times and texts of any length, for any width of a word and precision of a second | `UnixTime` |
| `Rows` | `decodeColumns`, `encodeColumns`, `splitResultLast` and the rows of `market.go`; `MethodLimit` | `UnixTime` |
| `ClOrdID` | `clordid.go` | |
| `ClientOptions` | a program that builds clients: the options of both kinds, in the order given, and their constructors | |
| `Algorithms` | the pure algorithms against their references, over an input that changes step by step | `OrderEncoding`, `Rows`, `ClOrdID` |
| `MC*` | instances for TLC; `MCServices` joins `Services` over `Endpoints` with `Algorithms`, `ClientOptions` and `BookChecksum` | |

### WsTradeConn

Each call has a program counter that names where in `call` it is: `idle`, `register` (after
`nextID.Add`), `send` (registered), `writing` (inside `WriteMessage`), `wait` (the select),
`clear` (about to run `clearPending`), `returned`. A critical section under `t.mu` is one
action, and so is an atomic add; between any two of them other goroutines run. A capacity-1
channel is a buffer `buf[c]` and a flag `closed[c]`. `readLoop` is `read`, `lookup` (a frame
in hand), `send` (the lock released, the channel in hand), `failing`, `stopped`.
`WriteMessage` is entered and left in two steps, because nothing in the code serialises its
callers; writers that overlap are recorded in `clash`, and the library's reaction (a panic,
or a garbled stream the gateway drops) is nondeterministic. The gateway processes a frame at
most once, in any order, possibly after the call failed or the connection closed, and may
answer more than once. `Frame.from` and `got` are history: they name the frame that a reply
answers, which the code cannot see; so is `late`, the calls that registered after `failAll`
swept the map. Such a call waits for its context or `Close`, which is what the code offers it:
`NoLostReply` speaks of the others.

### Subscription

`setup` is the progress of `subscribeBytes` (dial, token, subscribe). Frames are numbered as
the gateway sends them and are one of the kinds the reader tells apart. The reader, the
stopper and `wsKeepAlive` each have a place; `silent` is the unsynchronised flag of the code.
Reading it is an atomic step here: the proof shows it is always false when it is read, so
the data race on it has no other outcome.

### TokenCache

The mutex is held from `Lock` to the step that returns. Time is a counter; the endpoint
counts a token's validity from its issue, the cache from the arrival of the answer, at most
`MaxLatency` later. Subscribers use the token at once; dialers start a handshake that may
last `HandshakeTimeout`. `issued` is the endpoint's history. A fetch may take for ever: the
HTTP client behind `tokenFn` has no timeout unless the program gives it one
(`client/options.go:41`).

### Nonce

The loop of `newNonceFn` is `Begin` (read the clock), `Load` (load the floor and correct),
`SwapSucceeds` or `SwapFails`. The wall clock may be set to any reading at any time. Each
client has its own generator. A restart clears the floors and the goroutines but not the
requests on the wire, which arrive in any order or never. `old`, `alone` and `behind` are
history variables.

### BookChecksum

`book` is the two maps, with quantity 0 for no entry; prices and quantities are exact at the
pair's precision, where the keys of the code are injective. The CRC32 of the sorted levels
stands for these levels. The exchange's book and what it shows of it, the best `Depth` levels
a side, are external, and so is what it sends about a level that a better one pushes out of
the depth: `EvictionsSent` is a parameter. The consumer verifies after each frame, may miss
any of them (`missed` is history), and may subscribe anew with or without `Reset`.

### RestRequest

A `Request` is `new`, `ready` (built, or returned from a send), `prepared` (after `prepare`),
`sent` and `answered`. `params` and `needSign` are its own, `url`, `header` and `body` those of
the resty request it keeps between sends; the nonce a signed POST leaves among its parameters
is `nonceParam`. `prepare` is one action per way through it: unsigned, without credentials,
with a signer that fails (the nonce is spent), signed. A signature is the record of what it
covers. A path without its leading slash is signed as given and sent with one; `kind` says
which it is. The answer depends on the endpoint's style, which also picks the function that
reads it: `Do` and `DoRawResult`, `DoBare`, or `DoRaw` with the inspection
`RetrieveDataExportService.Do` adds. What stands before the exchange may answer in its place,
after the request was executed or not. `Do` takes a JSON object of such a kind for a success
with an empty result, and `DoRaw` takes any page for the file: `ResultsReal` says exactly this.

### Endpoints and Services

`Endpoints` is the SDK's catalog as data: for each service the parameters its constructor
writes, those its setters write, and what its Do asks of the request engine. An argument is a
text (which may be empty), a value (a number, flag, time or list, never empty) or a constant.
`Services` is one service, whichever: its map, its legs and the last request. A setter
overwrites its parameter, Do copies the map and lets it be, so that a service may be told
more and asked again. An empty text leaves nothing in a request over HTTP but is sent in a
subscription. `said` and `made` are history: what was said last. Three services do more:
`AddOrder`'s `SetCloseOrder` writes up to three parameters and skips zero prices,
`GetOpenPositions` has `DoConsolidated`, which leaves its parameter behind, and the batches
write one indexed group of parameters per leg. `AddOrderBatch` keeps fields in place of a map,
which comes to the same: a field that is empty or false writes nothing. `left` is history
too: the parameters such an operation left behind without a setter saying so. A nonce and a
token go into the copy, not the service.

`OrderEncoding` turns orders into parameters as the code does, field by field under the
parameter's name, and back as the exchange reads them (external).

### UnixTime, Rows, ClOrdID, ClientOptions, Algorithms

Texts are a sign, digits and a fraction. `AppendTime` and `ParseTime` have the code's cases,
its two's complement (`ToInt`, `ToUint`) and its overflow; the width of a word and the
precision of a second are constants, and `Meaning` says what a text denotes without either.
A row of `market.go` is how many columns it wants, the field each is read into and the field
each is written from. Characters of an order id count by the classes `clordid.go` tells apart.

`ClientOptions` is a state machine: `BeginClient` is `defaultOption`, `GiveOption` one option
applied, `BuildClient` the end of `NewClient`. `WithProxy` and `NewClient` change the HTTP
client itself, which may be the program's or an earlier client's (`WithHTTPClient` with what
`GetHttpClient` returned), so one client can move another; SOCKS replaces its transport, an HTTP
proxy does not. `optionLog` is history: `GoesWhereTold` reads off it what was named last for the
HTTP client a client sends on. `GiveStreamOption` and `BuildStream` are the same for the
WebSocket client and the REST client that fetches its tokens.

`Algorithms` has one variable, the input: an order id with characters put in, taken out or
replaced; an instant; a text that gets longer; a row or an order with one more field set; a
batch with one more leg. Each property compares the code's operator with a reference for every
input so reached.

## Runs

| Run | What it shows | Bounds, and why they are enough |
|---|---|---|
| `trade_safety` | a call gets its own answer or an error; the reader neither blocks nor panics; no waiter is forgotten while the reader runs, or left out when it stops; the map holds no returned call; `RequestReply` is implemented | 2 calls, 1 ping, 2 replies per frame: two calls and the ping are all kinds of writers overlapping; a duplicate reply needs 2. One verdict: whose reply a call got is told apart by `got`, and the proofs cover any set of verdicts. Calls are symmetric and the properties are not temporal formulas over single calls, so symmetry is used |
| `trade_liveness` | `Close` and a dead reader release waiters; `Close` ends both goroutines | 2 calls, no ping (keepAlive still starts and stops), 1 reply |
| `trade_writers` (violation) | two calls overlap inside `WriteMessage` | 2 calls suffice |
| `subscription` | implements `EventStream`, leaks no connection, ends completely | 3 frames (order needs 2, a skipped one 3), 2 pings |
| `token_cache` | no dead token, no needless fetch, no caller stuck but behind a fetch that never ends | 3 callers of both kinds, units of 15 s: margin 2, handshake 3; validities 1 (below the margin) and 4; 3 issues, so that each caller may fetch |
| `token_handshake` (violation) | a cached token expires during the handshake | units of 5 s: margin 6, handshake 9, validity 12 |
| `token_reuse` (violation) | a second caller is served a token already used | as above |
| `nonce` | the loop is atomic and strictly increasing, ends, and a request alone on its key is accepted | 3 requests over 2 generators, 2 clock readings, 1 restart: two compete for a floor while a third is observed; going back needs 2 readings |
| `nonce_restart` (violation) | nonces repeat after a restart on a clock set back | as above, 1 generator |
| `rest` | signature, parameters and nonce on the wire are right on every send; results and typed errors mean what they say | 2 requests, 1 parameter, 2 nonces: one request sent twice, or two overlapping; the kinds of request of the whole catalog (`Endpoints`) and `kraw`, and one without the slash |
| `services` | each service's requests say what it was told; batches carry their legs; a second Do repeats the first; order ids, Unix times, orders, rows, limits and options agree with their references; a consumer of the book that missed nothing holds what is shown and sees no mismatch | every service of the catalog; 2 calls of setters with 2 values or none, any number of Dos between; 2 legs: an order of calls needs 2, so does an index. A second of 1000 ns and a word of 20 bits, with instants and texts around its limits, so that the cut of an overflowing whole part happens; order ids two edits from the documented forms; 2 fields set of each order or row; 4 options over 2 REST clients, which may share an HTTP client: enough for one that moves the other; a stream's options in any number and order. A book of 3 bids and 1 ask, quantities to 2, checksum over 1 level, depth 2: a level inside the checksum, one beyond it, one beyond the depth |
| `book_truncation` (violation) | without announced evictions a stale level enters the checksum | 3 asks and 1 bid, depth and checksum 2 |

Deadlock checking is off: each of these systems may really come to rest (all calls returned,
the connection closed, the clock's bound reached, an input that cannot be made longer).

`services` has a service, an input, a program that builds clients and a consumer of the book side
by side and moves one of them while the others rest. They have nothing to say to each other and share a run only to be
checked over the same constants.

## Fairness

- `WsTradeConn`: a goroutine that can run is scheduled; reads and writes return once the
  connection is gone (the dialer's TCP keep-alive notices a dead peer); a `Close` that began
  goes on. No caller has to cancel or close, the gateway need not answer, and a write to a
  live peer need not end.
- `Subscription`: goroutines run, the callback returns (it runs on the reader goroutine),
  writes end, and ticks keep coming. The consumer need not close `doneC`.
- `TokenCache`: a waiter gets the mutex if it stays free (each caller takes it once), its holder
  goes on, and a caller uses what it got. Nothing makes a fetch answer or fail: `TokenReturns`
  says that a caller returns or a fetch is under way, again and again. The mutex is held over the
  fetch and `Lock` ignores the context, so one fetch that stalls blocks everyone behind it.
- `Nonce`: a goroutine in the loop is scheduled. With finitely many requests each failed swap
  has a winner, so the loop ends; with an endless supply it is lock-free but not wait-free.

## Where documents and code disagree

- `trade_writers`: `request/ws_trade.go:18` promises any number of concurrent calls, but no
  lock covers `WriteMessage` (lines 100 and 141) and the connection allows one writer.
- `token_handshake`: `client/websocket.go:124` says the early refresh avoids a token that
  expires mid-handshake; it covers 30 of the 45 seconds a handshake may take.
- `token_reuse`: `websocket.go:13` calls the token single-use, `client/websocket.go:109` lets it be
  reused across connections; `Token` does the second (`NoNeedlessFetch`).
- `nonce_restart`: `client/options.go:49` says nonces increase across restarts; that needs a
  wall clock that is never set back and no generator ahead of it (`SteadyClockSuffices`).
- `book_truncation`: `book_checksum.go:93` promises the checksum of the current top-10 book,
  but `applyLevels` never drops what left the subscribed depth, and by `ws_public.go:91` an
  update carries only changed levels. The promise holds if the exchange also announces the
  levels that leave the depth.

Smaller observations, written into the properties as their exceptions or left to the reader:

- After `DoConsolidated`, a plain Do asks for consolidated positions as well
  (`account.go:719`), and `SetCloseOrder` without a price keeps an earlier one
  (`trade.go:123`): `SaysWhatWasSaid` excepts both (`left`).
- `WithWebSocketProxy` notes the URL before it looks at the scheme (`client/websocket.go:171`):
  after a proxy it does not support, the stream keeps an earlier one while tokens are fetched
  without any. `TokenFollowsStream` excepts this.
- `WithBaseURL("")` is documented as ignored (`client/options.go:88`), but takes back the address
  an earlier `WithBaseURL` gave: the network's is used. `GoesWhereTold` demands what the document
  says, and excepts a client whose last address was empty (`EmptyLast`).
- The epoch is written as `0`, the form of a time that is not set, and is read as the zero time
  (`common/json_time.go:132`). `TimesRoundTrip` and `StructsReadBack` except it.
- `BatchAdd` drops each leg's own symbol for the batch's (`ws_trade.go:139`).
- `TradeConn.CancelOrder` takes several ids but is answered by one reply (`ws_trade.go:246`);
  should the exchange answer each id, `WsTradeConn` drops all replies after the first, which
  its runs cover as duplicates.

## Proofs

Assumed are only the named assumptions on the constants (distinct markers, natural bounds,
finitely many prices; no two setters of a service share a parameter; a second is a power of ten
and a word a power of two that holds its square and begins with the digit 1, as 2^64 does: TLC
evaluates all of them for the instances it checks), and what the theorem itself names:
`EvictionsSent` (the exchange's choice), a steady clock. A latency above the margin is allowed:
the theorem then says by how much a cached token may be dead. The bounds on pings, replies, frames, restarts, time, calls and legs
are arbitrary naturals in the theorems, so they are bounds for TLC only.

- `WsTradeConnProofs`. `OwnReply` is not inductive. Its strengthening says: ids are distinct
  and at most `nextID`, the ping's included (`IdsInv`); an entry of `pending` maps a call's id
  to that call (`PendingInv`); a channel is filled or closed only after its call left the map
  (`ChannelInv`); the frame in the reader's hands answers a frame the gateway processed
  (`ReaderInv`); the gateway only has frames of calls that wrote one (`GatewayInv`);
  results and waiting calls agree with both (`ResultInv`, `WaitInv`). One lemma per action. Beside
  it, once the reader stopped only calls in `late` are registered (`LateInv`).
  From the invariant: type correctness, `OwnReply`, `ReaderNeverStuck`, `NoLostReply`,
  `ReturnedNotPending`, and the refinement of `RequestReply`.
- `SubscriptionProofs`. The unread frames are the last ones sent (`FramesInv`); `silent`
  implies `stopC`, which implies that the final error was reported (`EndInv`); the connection
  belongs to `subscribeBytes`, then to the stopper (`ConnInv`). From it: `NoConnLeft` and the
  refinement of `EventStream`.
- `TokenCacheProofs`. `tokenExp` lies between `Margin` before the true expiry and `MaxLatency`
  after that; the cached token is the last one received; who fetches has found it stale.
  From it: `CachedTokenLives` and `NoNeedlessFetch`. What a caller holds has `Spare` to live,
  but for the latency, when `Token` returns and when the dial begins (`DialInv`): a token is
  used at most `HandshakeTimeout + MaxLatency - Margin` after its expiry (`OverrunIsBounded`;
  15s and the latency with the code's values), and never after it if the margin covers the
  handshake (`HandshakesFit`).
- `NonceProofs`. A nonce under way, or accepted, is bounded by some generator's floor of this
  or an earlier life; a request alone is the only one under way. From it:
  `LoneRequestAccepted` and the refinement of `NonceSource`. `SteadyClockSuffices`: what earlier
  lives handed out is below the clock (`RestartInv`) if the clock is never set back and no
  floor is ahead of it; then `IncreasingAcrossRestarts` holds.
- `RestRequestProofs`. What the resty request holds on the wire is what `prepare` computed
  (`WireInv`, with what it keeps between sends: a body appears only with parameters or a
  signature, and parameters never shrink); the nonces of prepared requests are unused and
  distinct (`NonceInv`); nothing is returned before the answer (`PendingInv`). From it: type
  correctness and the five properties of the run.
- `BookChecksumProofs`. The best `k` levels of a side truncated to a depth `d >= k` are the
  best `k` of the whole side (`TruncationCommutes`, from `AheadMonotone`); a snapshot gives
  what is shown, an update leads from what was shown to what is shown. From them, under
  `EvictionsSent`: `InStep` and `NoFalseAlarm`, which are inductive together. Without it, every
  shown level is still held right (`HoldsShown`), for an update carries whatever is newly shown
  (`UpdateCarries`), and a false alarm needs an entry that is no longer shown (`OnlyLeftovers`):
  truncation is all that is missing.

- `ServicesProofs`. The map agrees with the history everywhere but at what was left behind:
  a parameter holds what its setter said last, else what the constructor said, and no two
  setters share one (`CatalogAssumption`, which TLC evaluates for the SDK's catalog). That
  holds in every state and is what Do copies; and while nothing more is said, the last
  request is the next one (`Steady`). For batches: within a leg's parameters no two fields
  share a name (`BatchOrderApart`), so the legs read back whatever their number
  (`ReadBatchParams`). From them: type correctness, `SaysWhatWasSaid`, `CarriesItsLegs`,
  `RepeatsItself` for any catalog, values, bounds; `WsOrdersReadBack` for the orders of the
  trading connection.
- `ServicesProofs`, second part: `ClientOptions`. `GoesWhereTold` speaks of clients that are
  built; the invariant (`OptionsInv`) says the same of the one under way (`UnderWay`: its option
  record is what its options said so far), that a client that is built stays what its options
  said (`Built`), and that every HTTP client, shared or not, has the address named by the last
  client that sends on it (`Addressed`) and a proxy only if one was named for it (`Proxied`).
  `SaidIsTold`: if a client's last address is not empty, the last one said is the one told. The
  lemmas `ToldKept`, `LogGrows` and `LogSays` say what one more option changes of what was
  said last. For streams: the proxy noted is the one dialled, if it is supported (`Dialled`).
- `ServicesProofs`, third part: `Algorithms`. The inputs stay well formed however long they get
  (`InputInvariant`), and each property holds of every well-formed input. `ValidExactly`: four
  hyphens with 8, 4, 4, 4 and 12 hexadecimal digits between them stand exactly where the code
  looks for them. `RowReadsBack`: a row whose columns are written in the order they are read in,
  none twice, reads back, and every row of `market.go` is one (`RowsReadInOrder`). Orders and
  batches rest on the shapes whose fields have a parameter each (`ReadParams`).
- `UnixTimeProofs`. Values of digits are recursive functions, which the prover sees as choices:
  `Recursion` shows that a function with the wanted recursion exists, `Induct` is induction over a
  set of natural numbers (from a well-founded order), and with them `Pow10Steps` and
  `PaddedSteps` say what the functions are. `ParseUint` is then exact for the numerals that fit a
  word, and only for them (`ParseUintExact`, `NumeralFacts`). `ParseTimeExact` goes through the
  code's cases: the whole part as it is, or cut in two when it overflows, scaled to seconds and
  nanoseconds; the fraction padded or cut; the sign turned by complement, borrow and the check of
  the frontier (`TurnedIs`, `NegateExact`). `AppendTimeExact` goes the other way, from the digits
  written to the text's meaning, and ends in `ParseTimeExact`; `UnixTimeReadsBack` combines both.

Every invariant and action property that a passing run checks is so proved for all values of the
constants. Only model-checked: the liveness properties (`CloseReleases`, `DeathReleases`,
`CloseStopsGoroutines`, `EndsCompletely`, `TokenReturns`, `DrawReturns`), which rest on fairness
and `ENABLED` and are out of the prover's reach.

## Plan

1. Done: the six concurrent components, the services and the pure algorithms, with their runs
   and proofs.
2. `RestRequest` composed with `Nonce`: the generator as the source of its nonces; a base URL
   with a path.
3. `TokenCache` composed with `WsTradeConn`'s dial and `Subscription`'s setup.
4. Safety lemmas on the way to liveness: who may still release a goroutine that waits.

## Not modelled

Which member of an answer goes into which field of a Go struct (the DTOs of every file), and
what the answers mean; endpoint paths beyond their names; times in the layouts of package
`time` (`json_time.go`, the RFC 3339 checks), the registry of codecs and the names of enums;
options that only store a value another one already stands for (logger, signer, network); the
trading methods that only pass ids or a number; the WebSocket and HTTP libraries beyond how
the code uses them; the logger, the `kraw` command and the live-API test harness. A write to
a peer that is alive but never reads again is outside the fairness assumed for subscriptions.
The type invariant of the input (`InputTypes`) is stated with the proofs: TLC meets only the
finite sets its first values and its steps name.
