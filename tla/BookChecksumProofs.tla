------------------------- MODULE BookChecksumProofs -------------------------
(***************************************************************************)
(* Proofs about BookChecksum, for all prices, quantities and depths: if    *)
(* the exchange announces the levels that leave the depth, the             *)
(* checksummer's book is what the exchange shows and Verify raises no      *)
(* false alarm.                                                            *)
(***************************************************************************)
EXTENDS BookChecksum, FiniteSetTheorems, TLAPS

IsBook(b) == DOMAIN b = Sides /\ \A s \in Sides : b[s] \in [Prices(s) -> Qty]

\* The levels ahead of price p.
Ahead(s, side, p) == {q \in Prices(s) : side[q] > 0 /\ Better(s, q, p)}

IInv == BookTypeOK /\ InStep /\ NoFalseAlarm

---------------------------------------------------------------------------
\* The best levels of a side.

LEMMA SidePrices ==
  ASSUME NEW s \in Sides
  PROVE  Prices(s) \subseteq Int /\ IsFiniteSet(Prices(s))
BY BookAssumption DEF Sides, Prices

LEMMA AheadFinite ==
  ASSUME NEW s \in Sides, NEW side, NEW p
  PROVE  IsFiniteSet(Ahead(s, side, p)) /\ Cardinality(Ahead(s, side, p)) \in Nat
<1>1. IsFiniteSet(Prices(s)) /\ Ahead(s, side, p) \subseteq Prices(s)
  BY SidePrices DEF Ahead
<1> QED
  BY <1>1, FS_Subset, FS_CardinalityType

\* A level is kept when it is in the book and fewer than k are ahead of it.
LEMMA BestLevel ==
  ASSUME NEW s \in Sides, NEW side \in [Prices(s) -> Qty], NEW k \in Nat, NEW p \in Prices(s)
  PROVE  Best(s, side, k)[p] = IF Cardinality(Ahead(s, side, p)) < k THEN side[p] ELSE 0
<1>1. Ahead(s, side, p) = {q \in {r \in Prices(s) : side[r] > 0} : Better(s, q, p)}
  BY DEF Ahead
<1>2. side[p] > 0 \/ side[p] = 0
  BY BookAssumption DEF Qty
<1> QED
  BY <1>1, <1>2 DEF Best

LEMMA BestType ==
  ASSUME NEW s \in Sides, NEW side \in [Prices(s) -> Qty], NEW k \in Nat
  PROVE  Best(s, side, k) \in [Prices(s) -> Qty]
<1>1. \A p \in Prices(s) : Best(s, side, k)[p] \in Qty
  BY BestLevel, BookAssumption DEF Qty
<1>2. Best(s, side, k) = [p \in Prices(s) |-> Best(s, side, k)[p]]
  BY DEF Best
<1> QED
  BY <1>1, <1>2

\* Fewer levels are ahead of a better price than of a worse one.
LEMMA AheadMonotone ==
  ASSUME NEW s \in Sides, NEW side, NEW p \in Prices(s), NEW q \in Ahead(s, side, p)
  PROVE  Cardinality(Ahead(s, side, q)) <= Cardinality(Ahead(s, side, p))
<1>1. Ahead(s, side, q) \subseteq Ahead(s, side, p)
  BY SidePrices DEF Ahead, Better
<1> QED
  BY <1>1, AheadFinite, FS_Subset

\* The best levels of what was already truncated to a larger depth are the best of the whole.
LEMMA TruncationCommutes ==
  ASSUME NEW s \in Sides, NEW side \in [Prices(s) -> Qty],
         NEW k \in Nat, NEW d \in Nat, k <= d
  PROVE  Best(s, Best(s, side, d), k) = Best(s, side, k)
<1> DEFINE shown == Best(s, side, d)
<1>1. shown \in [Prices(s) -> Qty]
  BY BestType
<1>2. ASSUME NEW p \in Prices(s)
      PROVE  Best(s, shown, k)[p] = Best(s, side, k)[p]
  <2>1. CASE Cardinality(Ahead(s, side, p)) < d
    <3>1. \A q \in Ahead(s, side, p) : shown[q] = side[q]
      <4> TAKE q \in Ahead(s, side, p)
      <4>1. q \in Prices(s)
        BY DEF Ahead
      <4>2. Cardinality(Ahead(s, side, q)) <= Cardinality(Ahead(s, side, p))
        BY AheadMonotone
      <4>3. Cardinality(Ahead(s, side, q)) \in Nat /\ Cardinality(Ahead(s, side, p)) \in Nat
        BY AheadFinite
      <4>4. Cardinality(Ahead(s, side, q)) < d
        BY <2>1, <4>2, <4>3
      <4> QED
        BY <4>1, <4>4, BestLevel
    <3>2. Ahead(s, shown, p) \subseteq Ahead(s, side, p)
      <4> SUFFICES ASSUME NEW q \in Prices(s), shown[q] > 0, Better(s, q, p)
                   PROVE  side[q] > 0
        BY DEF Ahead
      <4> QED
        BY BestLevel
    <3>3. Ahead(s, shown, p) = Ahead(s, side, p)
      BY <3>1, <3>2 DEF Ahead
    <3>4. shown[p] = side[p]
      BY <2>1, BestLevel
    <3> QED
      BY <1>1, <3>3, <3>4, BestLevel
  <2>2. CASE ~(Cardinality(Ahead(s, side, p)) < d)
    <3>1. shown[p] = 0
      BY <2>2, BestLevel
    <3>2. ~(Cardinality(Ahead(s, side, p)) < k)
      BY <2>2, AheadFinite
    <3> QED
      BY <1>1, <3>1, <3>2, BestLevel
  <2> QED
    BY <2>1, <2>2
<1>3. /\ Best(s, shown, k) = [p \in Prices(s) |-> Best(s, shown, k)[p]]
      /\ Best(s, side, k) = [p \in Prices(s) |-> Best(s, side, k)[p]]
  BY DEF Best
<1> QED
  BY <1>2, <1>3

---------------------------------------------------------------------------
\* Frames.

LEMMA ShownBook ==
  ASSUME NEW b, IsBook(b)
  PROVE  IsBook(Shown(b))
BY BestType, BookAssumption DEF IsBook, Shown

\* The checksum of what is shown is the checksum of the book.
LEMMA ShownChecksum ==
  ASSUME NEW b, IsBook(b)
  PROVE  Checksum(Shown(b)) = Checksum(b)
<1>1. \A s \in Sides : Best(s, Shown(b)[s], Top) = Best(s, b[s], Top)
  BY TruncationCommutes, BookAssumption DEF IsBook, Shown
<1> QED
  BY <1>1 DEF Checksum

\* A snapshot puts the checksummer in step, whatever it held.
LEMMA SnapshotShows ==
  ASSUME NEW b, NEW e, IsBook(e)
  PROVE  ApplySnapshot(b, Snapshot(e)) = Shown(e)
<1> DEFINE shown == Shown(e)
<1>1. IsBook(shown) /\ shown = [s \in Sides |-> shown[s]]
  BY ShownBook DEF Shown
<1> HIDE DEF shown
<1>2. ASSUME NEW s \in Sides
      PROVE  ApplyLevels(NoLevels[s], Snapshot(e)[s]) = shown[s]
  <2>1. Snapshot(e)[s] = [p \in {q \in Prices(s) : shown[s][q] > 0} |-> shown[s][p]]
    BY DEF Snapshot, shown
  <2>2. \A p \in Prices(s) : shown[s][p] > 0 \/ shown[s][p] = 0
    BY <1>1, BookAssumption DEF IsBook, Qty
  <2>3. NoLevels[s] = [p \in Prices(s) |-> 0]
    BY DEF NoLevels
  <2>4. shown[s] = [p \in Prices(s) |-> shown[s][p]]
    BY <1>1 DEF IsBook
  <2> QED
    BY <2>1, <2>2, <2>3, <2>4 DEF ApplyLevels
<1> QED
  BY <1>1, <1>2 DEF ApplySnapshot, ApplyUpdate, shown

\* The domain of an update: every level whose view changed.
LEMMA UpdateLevels ==
  ASSUME EvictionsSent, NEW e, NEW n, NEW s \in Sides
  PROVE  Update(e, n)[s] =
           [p \in {q \in Prices(s) : Shown(e)[s][q] # Shown(n)[s][q]} |-> Shown(n)[s][p]]
BY DEF Update

\* An update keeps a checksummer in step that was in step.
LEMMA UpdateShows ==
  ASSUME EvictionsSent, NEW e, NEW n, IsBook(e), IsBook(n)
  PROVE  ApplyUpdate(Shown(e), Update(e, n)) = Shown(n)
<1> DEFINE was == Shown(e)
           now == Shown(n)
<1>1. IsBook(was) /\ IsBook(now) /\ now = [s \in Sides |-> now[s]]
  BY ShownBook DEF Shown
<1> HIDE DEF was, now
<1>2. ASSUME NEW s \in Sides
      PROVE  ApplyLevels(was[s], Update(e, n)[s]) = now[s]
  <2>1. Update(e, n)[s] = [p \in {q \in Prices(s) : was[s][q] # now[s][q]} |-> now[s][p]]
    BY UpdateLevels DEF was, now
  <2>2. now[s] = [p \in Prices(s) |-> now[s][p]] /\ DOMAIN was[s] = Prices(s)
    BY <1>1 DEF IsBook
  <2> QED
    BY <2>1, <2>2 DEF ApplyLevels
<1> QED
  BY <1>1, <1>2 DEF ApplyUpdate, was, now

\* What the exchange does not announce does not change what it shows.
LEMMA SilentSame ==
  ASSUME EvictionsSent, NEW e, NEW n, IsBook(e), IsBook(n), ~Announced(Update(e, n))
  PROVE  Shown(n) = Shown(e)
<1>1. ASSUME NEW s \in Sides PROVE Shown(n)[s] = Shown(e)[s]
  <2>1. \A p \in Prices(s) : Shown(e)[s][p] = Shown(n)[s][p]
    <3> DEFINE changed == {q \in Prices(s) : Shown(e)[s][q] # Shown(n)[s][q]}
    <3>1. DOMAIN Update(e, n)[s] = {}
      BY DEF Announced
    <3>2. Update(e, n)[s] = [p \in changed |-> Shown(n)[s][p]]
      BY UpdateLevels
    <3>3. DOMAIN Update(e, n)[s] = changed
      BY <3>2
    <3> QED
      BY <3>1, <3>3
  <2>2. Shown(e)[s] \in [Prices(s) -> Qty] /\ Shown(n)[s] \in [Prices(s) -> Qty]
    BY ShownBook DEF IsBook
  <2> QED
    BY <2>1, <2>2
<1> QED
  BY <1>1 DEF Shown

---------------------------------------------------------------------------
\* Type correctness needs nothing of the exchange.

LEMMA LevelsType ==
  ASSUME NEW s \in Sides, NEW side \in [Prices(s) -> Qty], NEW levels,
         \A p \in DOMAIN levels : levels[p] \in Qty
  PROVE  ApplyLevels(side, levels) \in [Prices(s) -> Qty]
BY DEF ApplyLevels

LEMMA EmptyBook == IsBook(NoLevels)
BY BookAssumption DEF IsBook, NoLevels, Qty

LEMMA SnapshotType ==
  ASSUME NEW b, NEW e, IsBook(e)
  PROVE  IsBook(ApplySnapshot(b, Snapshot(e)))
BY SnapshotShows, ShownBook

LEMMA UpdateType ==
  ASSUME NEW b, NEW e, NEW n, IsBook(b), IsBook(n)
  PROVE  IsBook(ApplyUpdate(b, Update(e, n)))
<1>1. ASSUME NEW s \in Sides
      PROVE  ApplyLevels(b[s], Update(e, n)[s]) \in [Prices(s) -> Qty]
  <2>1. /\ DOMAIN Update(e, n)[s] \subseteq Prices(s)
        /\ \A p \in DOMAIN Update(e, n)[s] : Update(e, n)[s][p] = Shown(n)[s][p]
    BY DEF Update
  <2>2. Shown(n)[s] \in [Prices(s) -> Qty]
    BY ShownBook DEF IsBook
  <2> QED
    BY <2>1, <2>2, LevelsType DEF IsBook
<1> QED
  BY <1>1 DEF ApplyUpdate, IsBook

LEMMA ChangeType ==
  ASSUME IsBook(exch), Order
  PROVE  IsBook(exch')
<1>1. PICK s \in Sides : \E p \in Prices(s), q \in Qty : exch' = [exch EXCEPT ![s][p] = q]
  BY DEF Order
<1>2. PICK p \in Prices(s), q \in Qty : exch' = [exch EXCEPT ![s][p] = q]
  BY <1>1
<1> QED
  BY <1>2 DEF IsBook

LEMMA TypeStep == BookTypeOK /\ [BookNext]_bookVars => BookTypeOK'
<1> SUFFICES ASSUME BookTypeOK, [BookNext]_bookVars PROVE BookTypeOK'
  OBVIOUS
<1>1. IsBook(exch) /\ IsBook(book)
  BY DEF BookTypeOK, IsBook
<1>2. \A sum, b : Verify(sum, b) \in {"ok", "mismatch"}
  BY DEF Verify
<1>3. CASE Receive
  <2>1. IsBook(exch') /\ IsBook(book')
    BY <1>1, <1>3, SnapshotType DEF Receive
  <2> QED
    BY <1>2, <1>3, <2>1 DEF Receive, BookTypeOK, IsBook
<1>4. CASE Follow
  <2>1. IsBook(exch')
    BY <1>1, <1>4, ChangeType DEF Follow
  <2>2. IsBook(book')
    BY <1>1, <1>4, <2>1, UpdateType DEF Follow
  <2> QED
    BY <1>2, <1>4, <2>1, <2>2 DEF Follow, BookTypeOK, IsBook
<1>5. CASE Miss
  <2>1. IsBook(exch')
    BY <1>1, <1>5, ChangeType DEF Miss
  <2>2. missed' \in BOOLEAN
    BY <1>5 DEF Miss, BookTypeOK
  <2> QED
    BY <1>5, <2>1, <2>2 DEF Miss, BookTypeOK, IsBook
<1>6. CASE Reconnect
  <2>1. IsBook(book')
    BY <1>1, <1>6, EmptyBook DEF Reconnect
  <2> QED
    BY <1>6, <2>1 DEF Reconnect, BookTypeOK, IsBook
<1>7. CASE UNCHANGED bookVars
  BY <1>7 DEF bookVars, BookTypeOK
<1> QED
  BY <1>3, <1>4, <1>5, <1>6, <1>7 DEF BookNext

LEMMA InitIInv == BookInit => IInv
<1> SUFFICES ASSUME BookInit PROVE IInv
  OBVIOUS
<1>1. BookTypeOK
  BY EmptyBook DEF BookInit, BookTypeOK, IsBook
<1> QED
  BY <1>1 DEF BookInit, IInv, InStep, NoFalseAlarm

\* Every variable keeps its type, whatever the exchange announces.
THEOREM TypeCorrect == BookSpec => []BookTypeOK
<1>1. BookInit => BookTypeOK
  BY InitIInv DEF IInv
<1> QED
  BY <1>1, TypeStep, PTL DEF BookSpec

---------------------------------------------------------------------------
\* A book in step verifies.
LEMMA InStepVerifies ==
  ASSUME NEW e, IsBook(e)
  PROVE  Verify(Checksum(e), Shown(e)) = "ok"
BY ShownChecksum DEF Verify

LEMMA IInvStep ==
  ASSUME EvictionsSent, IInv, [BookNext]_bookVars
  PROVE  IInv'
<1>1. BookTypeOK' /\ IsBook(exch)
  BY TypeStep DEF IInv, BookTypeOK, IsBook
<1>2. IsBook(exch')
  BY <1>1 DEF BookTypeOK, IsBook
<1>3. CASE Receive
  <2>1. book' = Shown(exch') /\ verdict' = "ok"
    BY <1>1, <1>3, SnapshotShows, InStepVerifies DEF Receive
  <2> QED
    BY <1>1, <2>1 DEF IInv, InStep, NoFalseAlarm
<1>4. CASE Follow
  <2>1. CASE ~missed
    <3>1. book' = Shown(exch')
      BY <1>1, <1>2, <1>4, <2>1, UpdateShows DEF Follow, IInv, InStep
    <3>2. verdict' = "ok"
      BY <1>2, <1>4, <3>1, InStepVerifies DEF Follow
    <3> QED
      BY <1>1, <3>1, <3>2 DEF IInv, InStep, NoFalseAlarm
  <2>2. CASE missed
    BY <1>1, <1>4, <2>2 DEF Follow, IInv, InStep, NoFalseAlarm
  <2> QED
    BY <2>1, <2>2
<1>5. CASE Miss
  <2>1. missed' \/ (~missed /\ Shown(exch') = Shown(exch))
    BY <1>1, <1>2, <1>5, SilentSame DEF Miss
  <2> QED
    BY <1>1, <1>5, <2>1 DEF Miss, IInv, InStep, NoFalseAlarm
<1>6. CASE Reconnect
  BY <1>1, <1>6 DEF Reconnect, IInv, InStep, NoFalseAlarm
<1>7. CASE UNCHANGED bookVars
  <2>1. UNCHANGED <<exch, book, verdict, missed, subscribed>>
    BY <1>7 DEF bookVars
  <2> QED
    BY <1>1, <2>1 DEF IInv, InStep, NoFalseAlarm
<1> QED
  BY <1>3, <1>4, <1>5, <1>6, <1>7 DEF BookNext

\* The invariant holds if the exchange announces the levels that leave the depth.
THEOREM Invariance == ASSUME EvictionsSent PROVE BookSpec => []IInv
BY InitIInv, IInvStep, PTL DEF BookSpec

\* A consumer that missed no frame holds exactly the levels the exchange shows.
THEOREM StaysInStep == ASSUME EvictionsSent PROVE BookSpec => []InStep
<1>1. IInv => InStep
  BY DEF IInv
<1> QED
  BY Invariance, <1>1, PTL

\* Verify reports a mismatch only to a consumer that missed a frame.
THEOREM AlarmsAreReal == ASSUME EvictionsSent PROVE BookSpec => []NoFalseAlarm
<1>1. IInv => NoFalseAlarm
  BY DEF IInv
<1> QED
  BY Invariance, <1>1, PTL

---------------------------------------------------------------------------
\* Whatever the exchange says of the levels that leave the depth.

\* A consumer that missed nothing has every level the exchange shows, at its quantity.
HoldsShown ==
  subscribed /\ ~missed =>
    \A s \in Sides : \A p \in Prices(s) : Shown(exch)[s][p] > 0 => book[s][p] = Shown(exch)[s][p]

\* An entry of the checksummer at a price the exchange does not show.
Leftover == \E s \in Sides : \E p \in Prices(s) : book[s][p] > 0 /\ Shown(exch)[s][p] = 0

\* Leftovers are the only false alarms.
AlarmNeedsLeftover == verdict = "mismatch" => missed \/ (subscribed /\ Leftover)

HeldInv == BookTypeOK /\ HoldsShown /\ AlarmNeedsLeftover

\* An update carries every level that is shown and was not, or was shown otherwise.
LEMMA UpdateCarries ==
  ASSUME NEW e, NEW n, NEW s \in Sides, NEW p \in Prices(s),
         Shown(n)[s][p] > 0, Shown(e)[s][p] # Shown(n)[s][p],
         Shown(n)[s][p] \in Nat
  PROVE  p \in DOMAIN Update(e, n)[s] /\ Update(e, n)[s][p] = Shown(n)[s][p]
<1>1. p \notin Pushed(Shown(e)[s], Shown(n)[s], n[s])
  BY DEF Pushed
<1> QED
  BY <1>1 DEF Update

LEMMA UpdateHolds ==
  ASSUME NEW b, NEW e, NEW n, IsBook(b), IsBook(e), IsBook(n),
         \A s \in Sides : \A p \in Prices(s) : Shown(e)[s][p] > 0 => b[s][p] = Shown(e)[s][p]
  PROVE  \A s \in Sides : \A p \in Prices(s) :
           Shown(n)[s][p] > 0 => ApplyUpdate(b, Update(e, n))[s][p] = Shown(n)[s][p]
<1> SUFFICES ASSUME NEW s \in Sides, NEW p \in Prices(s), Shown(n)[s][p] > 0
             PROVE  ApplyUpdate(b, Update(e, n))[s][p] = Shown(n)[s][p]
  OBVIOUS
<1>1. Shown(n)[s][p] \in Nat /\ p \in DOMAIN b[s]
  BY ShownBook, BookAssumption DEF IsBook, Qty
<1>2. ApplyUpdate(b, Update(e, n))[s][p] =
        IF p \in DOMAIN Update(e, n)[s] THEN Update(e, n)[s][p] ELSE b[s][p]
  BY <1>1 DEF ApplyUpdate, ApplyLevels
<1>3. CASE p \in DOMAIN Update(e, n)[s]
  <2>1. Update(e, n)[s][p] = Shown(n)[s][p]
    BY <1>3 DEF Update
  <2> QED
    BY <1>2, <1>3, <2>1
<1>4. CASE p \notin DOMAIN Update(e, n)[s]
  <2>1. Shown(e)[s][p] = Shown(n)[s][p]
    BY <1>1, <1>4, UpdateCarries
  <2> QED
    BY <1>2, <1>4, <2>1
<1> QED
  BY <1>3, <1>4

\* A book that holds what is shown, and nothing left over, is what is shown.
LEMMA HeldExactly ==
  ASSUME NEW b, NEW e, IsBook(b), IsBook(e),
         \A s \in Sides : \A p \in Prices(s) : Shown(e)[s][p] > 0 => b[s][p] = Shown(e)[s][p],
         \A s \in Sides : \A p \in Prices(s) : Shown(e)[s][p] = 0 => ~(b[s][p] > 0)
  PROVE  \A s \in Sides : b[s] = Shown(e)[s]
<1> SUFFICES ASSUME NEW s \in Sides PROVE b[s] = Shown(e)[s]
  OBVIOUS
<1>1. b[s] \in [Prices(s) -> Qty] /\ Shown(e)[s] \in [Prices(s) -> Qty]
  BY ShownBook DEF IsBook
<1>2. ASSUME NEW p \in Prices(s) PROVE b[s][p] = Shown(e)[s][p]
  <2>1. b[s][p] \in Nat /\ Shown(e)[s][p] \in Nat
    BY <1>1, BookAssumption DEF Qty
  <2> QED
    BY <2>1
<1> QED
  BY <1>1, <1>2

\* Verify finds no fault with such a book.
LEMMA HeldVerifies ==
  ASSUME NEW b, NEW e, IsBook(b), IsBook(e),
         \A s \in Sides : \A p \in Prices(s) : Shown(e)[s][p] > 0 => b[s][p] = Shown(e)[s][p],
         \A s \in Sides : \A p \in Prices(s) : Shown(e)[s][p] = 0 => ~(b[s][p] > 0)
  PROVE  Verify(Checksum(e), b) = "ok"
<1>1. Checksum(b) = Checksum(Shown(e))
  BY HeldExactly DEF Checksum
<1> QED
  BY <1>1, ShownChecksum DEF Verify

\* What is not announced shows no new level.
LEMMA SilentShows ==
  ASSUME NEW e, NEW n, IsBook(e), IsBook(n), ~Announced(Update(e, n)),
         NEW s \in Sides, NEW p \in Prices(s), Shown(n)[s][p] > 0
  PROVE  Shown(e)[s][p] = Shown(n)[s][p]
<1>1. Shown(n)[s][p] \in Nat
  BY ShownBook, BookAssumption DEF IsBook, Qty
<1>2. DOMAIN Update(e, n)[s] = {}
  BY DEF Announced
<1> QED
  BY <1>1, <1>2, UpdateCarries

LEMMA HeldStep ==
  ASSUME HeldInv, [BookNext]_bookVars
  PROVE  HeldInv'
<1>1. BookTypeOK' /\ IsBook(exch) /\ IsBook(book) /\ IsBook(exch') /\ IsBook(book')
  BY TypeStep DEF HeldInv, BookTypeOK, IsBook
<1>2. CASE Receive
  <2>1. book' = Shown(exch) /\ exch' = exch /\ subscribed' /\ ~missed'
    BY <1>1, <1>2, SnapshotShows DEF Receive
  <2>2. verdict' = "ok"
    BY <1>1, <1>2, <2>1, InStepVerifies DEF Receive
  <2> QED
    BY <1>1, <2>1, <2>2 DEF HeldInv, HoldsShown, AlarmNeedsLeftover
<1>3. CASE Follow
  <2>1. CASE missed
    BY <1>1, <1>3, <2>1 DEF Follow, HeldInv, HoldsShown, AlarmNeedsLeftover
  <2>2. CASE ~missed
    <3>1. /\ book' = ApplyUpdate(book, Update(exch, exch')) /\ subscribed'
          /\ verdict' = Verify(Checksum(exch'), book')
      BY <1>3 DEF Follow
    <3>2. \A s \in Sides : \A p \in Prices(s) :
            Shown(exch)[s][p] > 0 => book[s][p] = Shown(exch)[s][p]
      BY <1>3, <2>2 DEF Follow, HeldInv, HoldsShown
    <3>3. \A s \in Sides : \A p \in Prices(s) :
            Shown(exch')[s][p] > 0 => book'[s][p] = Shown(exch')[s][p]
      BY <1>1, <3>1, <3>2, UpdateHolds
    <3>4. HoldsShown'
      BY <3>3 DEF HoldsShown
    <3>5. Leftover' \/ verdict' = "ok"
      <4>1. CASE \A s \in Sides : \A p \in Prices(s) :
                   Shown(exch')[s][p] = 0 => ~(book'[s][p] > 0)
        BY <1>1, <3>1, <3>3, <4>1, HeldVerifies
      <4> QED
        BY <4>1 DEF Leftover
    <3> QED
      BY <1>1, <3>1, <3>4, <3>5 DEF HeldInv, AlarmNeedsLeftover
  <2> QED
    BY <2>1, <2>2
<1>4. CASE Miss
  <2>1. UNCHANGED <<book, verdict, subscribed>>
    BY <1>4 DEF Miss
  <2>2. CASE missed'
    BY <1>1, <2>2 DEF HeldInv, HoldsShown, AlarmNeedsLeftover
  <2>3. CASE ~missed'
    <3>1. ~missed /\ ~Announced(Update(exch, exch'))
      BY <1>4, <2>3 DEF Miss
    <3>2. \A s \in Sides : \A p \in Prices(s) :
            Shown(exch')[s][p] > 0 => Shown(exch)[s][p] = Shown(exch')[s][p]
      BY <1>1, <3>1, SilentShows
    <3>3. HoldsShown'
      BY <2>1, <3>1, <3>2 DEF HeldInv, HoldsShown
    <3>4. Leftover => Leftover'
      <4> SUFFICES ASSUME NEW s \in Sides, NEW p \in Prices(s),
                          book[s][p] > 0, Shown(exch)[s][p] = 0
                   PROVE  book'[s][p] > 0 /\ Shown(exch')[s][p] = 0
        BY DEF Leftover
      <4>1. Shown(exch')[s][p] \in Nat
        BY <1>1, ShownBook, BookAssumption DEF IsBook, Qty
      <4> QED
        BY <2>1, <3>2, <4>1
    <3> QED
      BY <1>1, <2>1, <3>1, <3>3, <3>4 DEF HeldInv, AlarmNeedsLeftover
  <2> QED
    BY <2>2, <2>3
<1>5. CASE Reconnect
  BY <1>1, <1>5 DEF Reconnect, HeldInv, HoldsShown, AlarmNeedsLeftover
<1>6. CASE UNCHANGED bookVars
  <2>1. UNCHANGED <<exch, book, verdict, missed, subscribed>>
    BY <1>6 DEF bookVars
  <2> QED
    BY <1>1, <2>1 DEF HeldInv, HoldsShown, AlarmNeedsLeftover, Leftover
<1> QED
  BY <1>2, <1>3, <1>4, <1>5, <1>6 DEF BookNext

\* With or without word of the levels pushed out, a consumer that missed no frame holds every
\* shown level right, and Verify raises an alarm only over entries that are no longer shown:
\* truncating the book to the depth is all the checksummer lacks.
THEOREM OnlyLeftovers == BookSpec => [](HoldsShown /\ AlarmNeedsLeftover)
<1>1. BookInit => HeldInv
  BY InitIInv DEF BookInit, IInv, HeldInv, HoldsShown, AlarmNeedsLeftover
<1>2. HeldInv => HoldsShown /\ AlarmNeedsLeftover
  BY DEF HeldInv
<1> QED
  BY <1>1, <1>2, HeldStep, PTL DEF BookSpec
=============================================================================
