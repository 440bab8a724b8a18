---------------------------- MODULE BookChecksum ----------------------------
(***************************************************************************)
(* A consumer of the book channel that feeds every frame it receives to a  *)
(* BookChecksummer (book_checksum.go) and verifies it; it may miss frames  *)
(* and resubscribe.  Prices and quantities are exact at the pair's         *)
(* precision, where StringFixed is injective; the CRC32 of the sorted,     *)
(* concatenated levels stands for these levels, and the CRC32 of nothing   *)
(* is 0.                                                                   *)
(*                                                                         *)
(* Outside the module's sources: the exchange's book and its frames, which *)
(* show the best Depth levels of each side.  What it sends for a level     *)
(* pushed out of that depth by a better one is a parameter.                *)
(***************************************************************************)
EXTENDS Integers, FiniteSets

CONSTANTS
  AskPrices, BidPrices,
  MaxQty,          \* bound: quantities
  Top,             \* levels a checksum covers (10)
  Depth,           \* subscribed depth
  EvictionsSent    \* an update removes a level that a better one pushed out of the depth

ASSUME BookAssumption ==
  /\ AskPrices \subseteq Int /\ BidPrices \subseteq Int
  /\ IsFiniteSet(AskPrices) /\ IsFiniteSet(BidPrices)
  /\ MaxQty \in Nat /\ Top \in Nat /\ Depth \in Nat /\ Top <= Depth
  /\ EvictionsSent \in BOOLEAN

VARIABLES
  exch,        \* the exchange's book
  book,        \* the checksummer's: quantity 0 where it has no entry
  verdict,     \* what Verify said of this connection's last frame
  missed,      \* a frame was lost since the last snapshot
  subscribed   \* a snapshot was received since the last Reset

bookVars == <<exch, book, verdict, missed, subscribed>>

Sides     == {"asks", "bids"}
Prices(s) == IF s = "asks" THEN AskPrices ELSE BidPrices
Qty       == 0 .. MaxQty
NoLevels  == [s \in Sides |-> [p \in Prices(s) |-> 0]]

BookTypeOK ==
  /\ DOMAIN exch = Sides /\ \A s \in Sides : exch[s] \in [Prices(s) -> Qty]
  /\ DOMAIN book = Sides /\ \A s \in Sides : book[s] \in [Prices(s) -> Qty]
  /\ verdict \in {"ok", "mismatch"}
  /\ missed \in BOOLEAN /\ subscribed \in BOOLEAN

---------------------------------------------------------------------------
\* The checksummer.

Better(s, p, q) == IF s = "asks" THEN p < q ELSE p > q

\* The k best levels of one side, quantity 0 elsewhere.
Best(s, side, k) ==
  LET live == {p \in Prices(s) : side[p] > 0}
  IN  [p \in Prices(s) |->
         IF p \in live /\ Cardinality({q \in live : Better(s, q, p)}) < k THEN side[p] ELSE 0]

Checksum(b) == [s \in Sides |-> Best(s, b[s], Top)]

\* Mutation: a removed level stays with its old quantity.
ApplyLevels_keepsRemoved(side, levels) ==
  [p \in DOMAIN side |->
     IF p \in DOMAIN levels /\ levels[p] > 0 THEN levels[p] ELSE side[p]]

\* Mutation: the book is replaced by the levels of the frame.
ApplyLevels_replaces(side, levels) == levels

\* A level of the frame replaces the entry, quantity 0 deletes it.
ApplyLevels(side, levels) ==
  [p \in DOMAIN side |-> IF p \in DOMAIN levels THEN levels[p] ELSE side[p]]

ApplyUpdate(b, frame) == [s \in Sides |-> ApplyLevels(b[s], frame[s])]

\* Mutation: the snapshot is merged into the old book.
ApplySnapshot_merges(b, frame) == ApplyUpdate(b, frame)

ApplySnapshot(b, frame) == ApplyUpdate(NoLevels, frame)

\* Checksum 0 means the frame carries none.
Verify(sum, b) ==
  IF sum = NoLevels \/ Checksum(b) = sum THEN "ok" ELSE "mismatch"

---------------------------------------------------------------------------
\* The exchange.

\* What a subscriber is shown of a book.
Shown(b) == [s \in Sides |-> Best(s, b[s], Depth)]

Snapshot(b) ==
  LET shown == Shown(b)
  IN  [s \in Sides |-> [p \in {q \in Prices(s) : shown[s][q] > 0} |-> shown[s][p]]]

\* The levels that left the view though they are still in the book.
Pushed(was, now, side) == {p \in DOMAIN was : was[p] > 0 /\ now[p] = 0 /\ side[p] > 0}

\* The levels whose view changed, those pushed out of the depth only if the exchange says so.
Update(old, new) ==
  LET was == Shown(old)
      now == Shown(new)
      sent(s) == {p \in Prices(s) : was[s][p] # now[s][p]}
                   \ (IF EvictionsSent THEN {} ELSE Pushed(was[s], now[s], new[s]))
  IN  [s \in Sides |-> [p \in sent(s) |-> now[s][p]]]

\* An order changes the quantity at one price, which the exchange announces, or not if nothing
\* it shows has changed.
Order == \E s \in Sides : \E p \in Prices(s), q \in Qty : exch' = [exch EXCEPT ![s][p] = q]
Announced(frame) == \E s \in Sides : DOMAIN frame[s] # {}

---------------------------------------------------------------------------
\* The consumer.

BookInit ==
  /\ exch = NoLevels /\ book = NoLevels
  /\ verdict = "ok" /\ missed = FALSE /\ subscribed = FALSE

\* The first frame after subscribing, then Verify.
Receive ==
  /\ ~subscribed
  /\ book' = ApplySnapshot(book, Snapshot(exch))
  /\ verdict' = Verify(Checksum(exch), book')
  /\ missed' = FALSE /\ subscribed' = TRUE
  /\ UNCHANGED exch

\* The book changes and the update reaches the consumer, then Verify.
Follow ==
  /\ subscribed
  /\ Order
  /\ LET frame == Update(exch, exch')
     IN  Announced(frame) /\ book' = ApplyUpdate(book, frame)
  /\ verdict' = Verify(Checksum(exch'), book')
  /\ UNCHANGED <<missed, subscribed>>

\* The book changes and the consumer does not get to know.
Miss ==
  /\ Order
  /\ missed' = (missed \/ Announced(Update(exch, exch')))
  /\ UNCHANGED <<book, verdict, subscribed>>

\* The connection ends; the consumer subscribes anew, with or without Reset.
Reconnect ==
  /\ subscribed
  /\ verdict' = "ok"
  /\ book' \in {book, NoLevels}
  /\ subscribed' = FALSE
  /\ UNCHANGED <<exch, missed>>

BookNext == Receive \/ Follow \/ Miss \/ Reconnect

BookSpec == BookInit /\ [][BookNext]_bookVars

---------------------------------------------------------------------------
\* Correctness.

\* A consumer that missed nothing has exactly what the exchange shows, to the full depth and
\* whatever an earlier connection left behind (book_checksum.go, lines 67-91).
InStep == subscribed /\ ~missed => book = Shown(exch)

\* "Checksum computes the CRC32 (IEEE) of the current top-10 book" (line 93): a consumer that
\* applied every frame it was sent never sees a mismatch.
NoFalseAlarm == verdict = "mismatch" => missed
=============================================================================
