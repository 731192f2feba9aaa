-------------------------- MODULE BacktestProofs ---------------------------
(***************************************************************************)
(* The replay's ledger agrees with its history, and stops and targets stay *)
(* apart from their entries, for every history, parameter and indicator.   *)
(***************************************************************************)
EXTENDS Backtest, SequenceTheorems, FiniteSetTheorems, TLAPS

-----------------------------------------------------------------------------
(* Planning: the orders are well-formed and their stops apart. *)

\* Rounding moves a price by at most half a point, which is one unit.
LEMMA SnapIsNear ==
    ASSUME NEW x \in Int
    PROVE  Snap(x) \in Int /\ x - 1 <= Snap(x) /\ Snap(x) <= x + 1
BY DEF Snap

\* A distance of at least one point survives the rounding.
LEMMA StopsApartFromEntry ==
    ASSUME NEW side \in Sides, NEW entry \in Int,
           NEW d \in Int, d >= 2, NEW e \in Int, e >= 2
    PROVE  /\ StopAt(side, entry, d) \in Int /\ TargetAt(side, entry, e) \in Int
           /\ Apart(side, entry, StopAt(side, entry, d), TargetAt(side, entry, e))
PROOF
  <1>1. CASE side = "BUY"
    <2>1. entry - d \in Int /\ entry + e \in Int
      OBVIOUS
    <2>2. /\ Snap(entry - d) \in Int /\ Snap(entry - d) <= (entry - d) + 1
          /\ Snap(entry + e) \in Int /\ (entry + e) - 1 <= Snap(entry + e)
      BY <2>1, SnapIsNear
    <2>3. Snap(entry - d) < entry /\ entry < Snap(entry + e)
      BY <2>2
    <2> QED BY <1>1, <2>2, <2>3 DEF StopAt, TargetAt, Apart
  <1>2. CASE side = "SELL"
    <2>1. entry + d \in Int /\ entry - e \in Int
      OBVIOUS
    <2>2. /\ Snap(entry + d) \in Int /\ (entry + d) - 1 <= Snap(entry + d)
          /\ Snap(entry - e) \in Int /\ Snap(entry - e) <= (entry - e) + 1
      BY <2>1, SnapIsNear
    <2>3. entry < Snap(entry + d) /\ Snap(entry - e) < entry
      BY <2>2
    <2> QED BY <1>2, <2>2, <2>3 DEF StopAt, TargetAt, Apart
  <1> QED BY <1>1, <1>2 DEF Sides

\* The strategies see a full window that ends with the current bar.
LEMMA WindowIsFull ==
    ASSUME TypeOK
    PROVE  /\ VisibleBars(BarsCount) \in Windows /\ CurrentBar \in Bars
           /\ Len(VisibleBars(BarsCount)) = BarsCount
PROOF
  <1> DEFINE first == IF index > BarsCount THEN index - BarsCount + 1 ELSE 1
             w == SubSeq(bars, first, index)
  <1>1. first \in Int /\ index \in Int /\ 1 <= first /\ first = index - BarsCount + 1
    BY ReplayAssumption DEF TypeOK
  <1> HIDE DEF first
  <1>2. \A i \in first .. index : bars[i] \in Bars
    <2> TAKE i \in first .. index
    <2>1. i \in 1 .. Length
      BY <1>1, ReplayAssumption DEF TypeOK
    <2> QED BY <2>1 DEF TypeOK
  <1>3. w \in Seq(Bars) /\ Len(w) = IF first <= index THEN index - first + 1 ELSE 0
    BY <1>1, <1>2, SubSeqProperties
  <1>4. Len(w) = BarsCount
    BY <1>1, <1>3, ReplayAssumption
  <1>5. w \in [1 .. Len(w) -> Bars]
    BY <1>3, LenProperties
  <1>6. CurrentBar \in Bars
    BY ReplayAssumption DEF CurrentBar, TypeOK
  <1>7. VisibleBars(BarsCount) = w
    BY DEF first, VisibleBars
  <1> QED BY <1>4, <1>5, <1>6, <1>7 DEF Windows

\* The grid's levels and distances are prices; no distance is below a point.
LEMMA GridLevelsOK ==
    ASSUME NEW w \in Windows, Len(w) = BarsCount, NEW side \in Sides, NEW mult \in Nat
    PROVE  /\ GridDistance(w, mult) \in Int /\ GridDistance(w, mult) >= 2
           /\ ReferencePrice(w, side) \in Int
PROOF
  <1>1. Atr(w) \in Int /\ Center(w) \in Int
    BY IndicatorAssumption
  <1>2. \A m \in Nat : GridDistance(w, m) \in Int /\ GridDistance(w, m) >= 2
    BY <1>1, ReplayAssumption DEF GridDistance, AtLeast
  <1>3. w[Len(w)].close \in Int
    BY BarAssumption, ReplayAssumption DEF Windows
  <1>4. GridCenter(w) \in Int
    BY <1>1, <1>3 DEF GridCenter
  <1>5. GridDistance(w, StepMult) \in Int
    BY <1>2, ReplayAssumption
  <1>6. ReferencePrice(w, side) \in Int
    BY <1>4, <1>5 DEF ReferencePrice
  <1> QED BY <1>2, <1>6

LEMMA MarketPrices ==
    ASSUME CurrentBar \in Bars
    PROVE  Bid \in Int /\ Ask \in Int
BY BarAssumption, ReplayAssumption DEF Bid, Ask, HalfSpreadPrice

LEMMA GridOrderOK ==
    ASSUME TypeOK, NEW side \in Sides, NEW ticket \in Nat
    PROVE  LET o == GridOrder(VisibleBars(BarsCount), side, ticket)
           IN  o \in PendingOrder /\ Apart(o.side, o.price, o.sl, o.tp) /\ o.placed_at = index
PROOF
  <1> DEFINE w == VisibleBars(BarsCount)
             price == NormalizeLimitPrice(ReferencePrice(w, side), side)
             sl == StopAt(side, price, GridDistance(w, SlMult))
             tp == TargetAt(side, price, GridDistance(w, TpMult))
  <1>1. w \in Windows /\ Len(w) = BarsCount /\ CurrentBar \in Bars
    BY WindowIsFull
  <1> HIDE DEF w
  <1>2. /\ ReferencePrice(w, side) \in Int
        /\ GridDistance(w, SlMult) \in Int /\ GridDistance(w, SlMult) >= 2
        /\ GridDistance(w, TpMult) \in Int /\ GridDistance(w, TpMult) >= 2
    BY <1>1, GridLevelsOK, ReplayAssumption
  <1>3. price \in Int
    <2>1. Bid \in Int /\ Ask \in Int /\ Gap \in Int
      BY <1>1, MarketPrices, ReplayAssumption
    <2>2. Bid - Gap - 6 \in Int /\ Ask + Gap + 6 \in Int
      BY <2>1
    <2>3. /\ Snap(ReferencePrice(w, side)) \in Int /\ Snap(Bid - Gap - 6) \in Int
          /\ Snap(Ask + Gap + 6) \in Int
      BY <1>2, <2>2, SnapIsNear
    <2> QED BY <2>3 DEF NormalizeLimitPrice
  <1>4. sl \in Int /\ tp \in Int /\ Apart(side, price, sl, tp)
    BY <1>2, <1>3, StopsApartFromEntry
  <1>5. index \in 1 .. Length
    BY ReplayAssumption DEF TypeOK
  <1>6. GridOrder(w, side, ticket) = [ticket |-> ticket, side |-> side, price |-> price,
                                      sl |-> sl, tp |-> tp, placed_at |-> index]
    BY DEF GridOrder
  <1> HIDE DEF price, sl, tp
  <1>7. LET o == GridOrder(w, side, ticket)
        IN  o \in PendingOrder /\ Apart(o.side, o.price, o.sl, o.tp) /\ o.placed_at = index
    BY <1>3, <1>4, <1>5, <1>6 DEF PendingOrder
  <1> QED BY <1>7 DEF w

LEMMA RunnerPositionOK ==
    ASSUME TypeOK, NEW side \in Sides, NEW ticket \in Nat
    PROVE  LET p == RunnerPosition(VisibleBars(BarsCount), side, ticket)
           IN  /\ p \in OpenPosition /\ Apart(p.side, p.price_open, p.sl, p.tp)
               /\ p.magic = "runner" /\ p.placed_at = index /\ p.opened_at = index
PROOF
  <1> DEFINE w == VisibleBars(BarsCount)
             fill == IF side = "BUY" THEN Ask ELSE Bid
             sl == StopAt(side, fill, StopBase(w) * RunnerSl)
             tp == TargetAt(side, fill, StopBase(w) * RunnerTp)
  <1>1. w \in Windows /\ Len(w) = BarsCount /\ CurrentBar \in Bars
    BY WindowIsFull
  <1> HIDE DEF w
  <1>2. w[Len(w)] \in Bars
    BY <1>1, ReplayAssumption DEF Windows
  <1>3. StopBase(w) \in Int /\ StopBase(w) >= 2
    <2>1. /\ w[Len(w)].close \div StopFraction \in Int
          /\ w[Len(w)].close \div StopFraction >= 2
      BY <1>2, BarAssumption, IndicatorAssumption, ReplayAssumption
    <2>2. Atr(w) \in Int
      BY <1>1, IndicatorAssumption
    <2> QED BY <2>1, <2>2, ReplayAssumption DEF StopBase, AtLeast
  <1>4. \A a, b \in Int : a >= 2 /\ b >= 1 => a * b \in Int /\ a * b >= 2
    OBVIOUS
  <1>5. /\ StopBase(w) * RunnerSl \in Int /\ StopBase(w) * RunnerSl >= 2
        /\ StopBase(w) * RunnerTp \in Int /\ StopBase(w) * RunnerTp >= 2
    BY <1>3, <1>4, ReplayAssumption
  <1>6. fill \in Int
    BY <1>1, MarketPrices
  <1>7. sl \in Int /\ tp \in Int /\ Apart(side, fill, sl, tp)
    BY <1>5, <1>6, StopsApartFromEntry
  <1>8. index \in 1 .. Length
    BY ReplayAssumption DEF TypeOK
  <1>9. RunnerPosition(w, side, ticket) =
          [ticket |-> ticket, side |-> side, price_open |-> fill, sl |-> sl, tp |-> tp,
           magic |-> "runner", placed_at |-> index, opened_at |-> index]
    BY DEF RunnerPosition
  <1> HIDE DEF fill, sl, tp
  <1>10. LET p == RunnerPosition(w, side, ticket)
         IN  /\ p \in OpenPosition /\ Apart(p.side, p.price_open, p.sl, p.tp)
             /\ p.magic = "runner" /\ p.placed_at = index /\ p.opened_at = index
    BY <1>6, <1>7, <1>8, <1>9 DEF OpenPosition, Magics
  <1> QED BY <1>10 DEF w

-----------------------------------------------------------------------------
(* The three steps. *)

\* After a check or a cycle the bar at the cursor has been checked.
LEMMA CheckedAfter ==
    ASSUME TypeOK, Advance
    PROVE  Checked' = index /\ index' \in BarsCount .. Length /\ pc' \in {"check", "ended"}
BY ReplayAssumption DEF TypeOK, Advance, Checked

\* A filled order is a position of the current bar at the order's price.
LEMMA FilledOrderOK ==
    ASSUME TypeOK, NEW o \in PendingOrder
    PROVE  LET p == FillPendingOrder(o)
           IN  /\ p \in OpenPosition /\ p.opened_at = index /\ p.magic = "grid"
               /\ p.placed_at = o.placed_at /\ p.price_open = o.price
               /\ p.side = o.side /\ p.sl = o.sl /\ p.tp = o.tp
PROOF
  <1>1. index \in 1 .. Length
    BY ReplayAssumption DEF TypeOK
  <1> QED BY <1>1 DEF FillPendingOrder, PendingOrder, OpenPosition, Magics

\* An exit closes an open position at the price of what its bar reached.
LEMMA ExitOK ==
    ASSUME TypeOK, NEW t \in Exits(CurrentBar, open)
    PROVE  /\ t \in ClosedTrade /\ t.position \in open /\ t.closed_at = index
           /\ Exit(CurrentBar, t.position)
           /\ IF StopHit(CurrentBar, t.position)
              THEN t.reason = "SL" /\ t.price_close = t.position.sl
              ELSE t.reason = "TP" /\ t.price_close = t.position.tp
PROOF
  <1>1. index \in 1 .. Length
    BY ReplayAssumption DEF TypeOK
  <1>2. PICK p \in open :
            \/ StopHit(CurrentBar, p) /\ t = ClosePosition(p, p.sl, "SL")
            \/ TargetHit(CurrentBar, p) /\ ~ StopHit(CurrentBar, p)
               /\ t = ClosePosition(p, p.tp, "TP")
    BY DEF Exits
  <1>3. p \in OpenPosition /\ p.sl \in Int /\ p.tp \in Int
    BY DEF TypeOK, OpenPosition
  <1>4. CASE StopHit(CurrentBar, p) /\ t = ClosePosition(p, p.sl, "SL")
    BY <1>1, <1>3, <1>4 DEF ClosePosition, ClosedTrade, Exit
  <1>5. CASE TargetHit(CurrentBar, p) /\ ~ StopHit(CurrentBar, p)
             /\ t = ClosePosition(p, p.tp, "TP")
    BY <1>1, <1>3, <1>5 DEF ClosePosition, ClosedTrade, Exit
  <1> QED BY <1>2, <1>4, <1>5

\* What a bar does not reach stays open.
LEMMA NoExitStaysOpen ==
    ASSUME NEW p \in open, Exit(CurrentBar, p)
    PROVE  \E t \in Exits(CurrentBar, open) : t.position = p
PROOF
  <1>1. CASE StopHit(CurrentBar, p)
    <2>1. ClosePosition(p, p.sl, "SL") \in Exits(CurrentBar, open)
      BY <1>1 DEF Exits
    <2> QED BY <2>1 DEF ClosePosition
  <1>2. CASE ~ StopHit(CurrentBar, p)
    <2>1. ClosePosition(p, p.tp, "TP") \in Exits(CurrentBar, open)
      BY <1>2 DEF Exits, Exit
    <2> QED BY <2>1 DEF ClosePosition
  <1> QED BY <1>1, <1>2

(* Tickets: every order keeps its ticket on its way through the three books. *)

\* Two exits of one position are one exit: a stop excludes a target.
LEMMA OneExitEach ==
    ASSUME NEW s \in Exits(CurrentBar, open), NEW t \in Exits(CurrentBar, open),
           s.position = t.position
    PROVE  s = t
PROOF
  <1> DEFINE AtStop(e, p) == StopHit(CurrentBar, p) /\ e = ClosePosition(p, p.sl, "SL")
             AtTarget(e, p) == ~ StopHit(CurrentBar, p) /\ e = ClosePosition(p, p.tp, "TP")
  <1>1. \A e \in Exits(CurrentBar, open) : \E p \in open : AtStop(e, p) \/ AtTarget(e, p)
    BY DEF Exits
  <1>2. \A e, p : AtStop(e, p) \/ AtTarget(e, p) => e.position = p
    BY DEF ClosePosition
  <1>3. PICK p \in open : AtStop(s, p) \/ AtTarget(s, p)
    BY <1>1
  <1>4. PICK q \in open : AtStop(t, q) \/ AtTarget(t, q)
    BY <1>1
  <1>5. p = q
    BY <1>2, <1>3, <1>4
  <1> QED BY <1>3, <1>4, <1>5

LEMMA CheckKeepsBooks ==
    ASSUME BooksInv, CheckFillsAndExits
    PROVE  BooksInv'
PROOF
  <1> DEFINE filled == {o \in pending : Touches(CurrentBar, o)}
             opened == {FillPendingOrder(o) : o \in filled}
             exits  == Exits(CurrentBar, open)
             Traded(book) == {t.position : t \in book}
  <1>1. /\ pending' = pending \ filled
        /\ open' = (open \cup opened) \ Traded(exits)
        /\ closed' = closed \cup exits /\ next_ticket' = next_ticket
    BY DEF CheckFillsAndExits, ExitCandidates
  <1>2. \A o \in filled : FillPendingOrder(o) \in opened /\ FillPendingOrder(o).ticket = o.ticket
    BY DEF FillPendingOrder
  <1>3. \A p \in opened : \E o \in filled : p = FillPendingOrder(o) /\ p.ticket = o.ticket
    BY DEF FillPendingOrder
  <1>4. \A t \in exits : t.position \in open
    BY DEF Exits, ClosePosition
  <1>5. \A s, t \in exits : s.position = t.position => s = t
    BY OneExitEach
  <1> HIDE DEF opened, exits
  <1> USE DEF BooksInv
  <1>6. \A p \in opened : p \notin Traded(exits)
    BY <1>3, <1>4
  <1>7. /\ \A p \in open' : p \in opened \/ (p \in open /\ p \notin Traded(exits))
        /\ \A p \in open : p \in open' \/ p \in Traded(exits)
        /\ \A p \in opened : p \in open'
    BY <1>1, <1>6
  <1>8. /\ \A o \in pending' : o \in pending /\ o \notin filled
        /\ \A o \in pending : o \in pending' \/ o \in filled
        /\ \A t \in closed' : t \in closed \/ t \in exits
    BY <1>1
  <1>9. \A p \in Traded(closed') : p \in Traded(closed) \/ (p \in Traded(exits) /\ p \in open)
    BY <1>4, <1>8
  <1>10. \A p \in Traded(closed) \cup Traded(exits) : p \in Traded(closed')
    BY <1>1
  <1>11. Tickets(pending') \cup Tickets(open') \cup Tickets(Traded(closed'))
           = Tickets(pending) \cup Tickets(open) \cup Tickets(Traded(closed))
    <2>1. Tickets(pending) \subseteq Tickets(pending') \cup Tickets(open')
      BY <1>2, <1>7, <1>8 DEF Tickets
    <2>2. Tickets(open) \subseteq Tickets(open') \cup Tickets(Traded(closed'))
      BY <1>7, <1>10 DEF Tickets
    <2>3. Tickets(Traded(closed)) \subseteq Tickets(Traded(closed'))
      BY <1>10 DEF Tickets
    <2>4. Tickets(pending') \subseteq Tickets(pending)
      BY <1>8 DEF Tickets
    <2>5. Tickets(open') \subseteq Tickets(pending) \cup Tickets(open)
      BY <1>3, <1>7 DEF Tickets
    <2>6. Tickets(Traded(closed')) \subseteq Tickets(open) \cup Tickets(Traded(closed))
      BY <1>9 DEF Tickets
    <2> QED BY <2>1, <2>2, <2>3, <2>4, <2>5, <2>6
  <1>12. \A x, y \in open' : x.ticket = y.ticket => x = y
    BY <1>3, <1>7
  <1>13. \A x, y \in Traded(closed') : x.ticket = y.ticket => x = y
    BY <1>9
  <1>14. \A s, t \in closed' : s.position = t.position => s = t
    BY <1>4, <1>5, <1>8
  <1>15. \A o \in pending', p \in open' \cup Traded(closed') : o.ticket # p.ticket
    BY <1>3, <1>7, <1>8, <1>9
  <1>16. \A p \in open', q \in Traded(closed') : p.ticket # q.ticket
    BY <1>3, <1>7, <1>9
  <1> QED BY <1>1, <1>8, <1>11, <1>12, <1>13, <1>14, <1>15, <1>16 DEF Tickets

\* The tickets of a cycle are the next ones, one for each side.
LEMMA CycleTickets ==
    ASSUME NEW sides \in SUBSET Sides, next_ticket \in Nat
    PROVE  LET tickets == {TicketOf(s, sides) : s \in sides}
           IN  /\ Cardinality(sides) \in Nat
               /\ tickets = next_ticket .. next_ticket + Cardinality(sides) - 1
               /\ \A s, t \in sides : TicketOf(s, sides) = TicketOf(t, sides) => s = t
PROOF
  <1>1. Cardinality({}) = 0 /\ Cardinality({"BUY"}) = 1 /\ Cardinality({"SELL"}) = 1
    BY FS_EmptySet, FS_Singleton
  <1>2. Cardinality({"BUY", "SELL"}) = 2
    <2>1. IsFiniteSet({"BUY"}) /\ "SELL" \notin {"BUY"}
      BY FS_Singleton
    <2>2. Cardinality({"BUY"} \cup {"SELL"}) = 2
      BY <1>1, <2>1, FS_AddElement
    <2>3. {"BUY"} \cup {"SELL"} = {"BUY", "SELL"}
      OBVIOUS
    <2> QED BY <2>2, <2>3
  <1>3. sides = {} \/ sides = {"BUY"} \/ sides = {"SELL"} \/ sides = {"BUY", "SELL"}
    BY DEF Sides
  <1>4. CASE sides = {}
    BY <1>1, <1>4
  <1>5. CASE sides = {"BUY"}
    BY <1>1, <1>5 DEF TicketOf
  <1>6. CASE sides = {"SELL"}
    BY <1>1, <1>6 DEF TicketOf
  <1>7. CASE sides = {"BUY", "SELL"}
    BY <1>2, <1>7 DEF TicketOf
  <1> QED BY <1>3, <1>4, <1>5, <1>6, <1>7

LEMMA GridKeepsBooks ==
    ASSUME TypeOK, BooksInv, GridCycle
    PROVE  BooksInv'
PROOF
  <1> DEFINE w == VisibleBars(BarsCount)
             sides == GridSides(w)
             placed == {GridOrder(w, s, TicketOf(s, sides)) : s \in sides}
             traded == {t.position : t \in closed}
             last == next_ticket + Cardinality(sides) - 1
  <1>1. /\ open' = open /\ closed' = closed
        /\ \/ pending' = pending /\ next_ticket' = next_ticket
           \/ pending' = pending \cup placed /\ next_ticket' = next_ticket + Cardinality(sides)
    BY DEF GridCycle
  <1>2. sides \in SUBSET Sides /\ next_ticket \in Nat
    BY DEF GridSides, TypeOK
  <1>3. /\ Cardinality(sides) \in Nat
        /\ {TicketOf(s, sides) : s \in sides} = next_ticket .. last
        /\ \A s, t \in sides : TicketOf(s, sides) = TicketOf(t, sides) => s = t
    BY <1>2, CycleTickets
  <1>4. \A s \in sides : GridOrder(w, s, TicketOf(s, sides)).ticket = TicketOf(s, sides)
    BY DEF GridOrder
  <1> HIDE DEF w, sides
  <1>5. Tickets(placed) = next_ticket .. last
    BY <1>3, <1>4 DEF Tickets
  <1>6. \A x, y \in placed : x.ticket = y.ticket => x = y
    BY <1>3, <1>4
  <1>7. \A x \in placed : x.ticket \in next_ticket .. last
    BY <1>5 DEF Tickets
  <1> HIDE DEF placed, last
  <1>8. CASE pending' = pending /\ next_ticket' = next_ticket
    BY <1>1, <1>8 DEF BooksInv, Tickets
  <1>9. CASE pending' = pending \cup placed /\ next_ticket' = next_ticket + Cardinality(sides)
    <2> DEFINE issued == Tickets(pending) \cup Tickets(open) \cup Tickets(traded)
    <2>1. issued = 1 .. next_ticket - 1
      BY DEF BooksInv
    <2>2. \A x \in pending \cup open \cup traded : x.ticket \in issued
      BY DEF Tickets
    <2>3. \A x \in pending \cup open \cup traded, y \in placed : x.ticket # y.ticket
      <3>1. \A n \in 1 .. next_ticket - 1 : n \notin next_ticket .. last
        BY <1>2
      <3> HIDE DEF issued
      <3> QED BY <1>7, <2>1, <2>2, <3>1
    <2>4. Tickets(pending') = Tickets(pending) \cup Tickets(placed)
      BY <1>9 DEF Tickets
    <2>5. Tickets(pending') \cup Tickets(open) \cup Tickets(traded) = 1 .. next_ticket' - 1
      <3>1. next_ticket >= 1
        BY DEF BooksInv
      <3>2. (1 .. next_ticket - 1) \cup (next_ticket .. last) = 1 .. next_ticket' - 1
        BY <1>2, <1>3, <1>9, <3>1 DEF last
      <3> QED BY <1>5, <2>1, <2>4, <3>2
    <2>6. \A x, y \in pending' : x.ticket = y.ticket => x = y
      BY <1>6, <1>9, <2>3 DEF BooksInv
    <2>7. \A o \in pending', p \in open \cup traded : o.ticket # p.ticket
      BY <1>9, <2>3 DEF BooksInv
    <2>8. next_ticket' >= 1
      BY <1>2, <1>3, <1>9 DEF BooksInv
    <2> QED BY <1>1, <2>5, <2>6, <2>7, <2>8 DEF BooksInv, Tickets
  <1> QED BY <1>1, <1>8, <1>9

LEMMA RunnerKeepsBooks ==
    ASSUME TypeOK, BooksInv, RunnerCycle
    PROVE  BooksInv'
PROOF
  <1> DEFINE w == VisibleBars(BarsCount)
             new == RunnerPosition(w, IF Macd(w) > 0 THEN "BUY" ELSE "SELL", next_ticket)
             traded == {t.position : t \in closed}
             issued == Tickets(pending) \cup Tickets(open) \cup Tickets(traded)
  <1>1. /\ pending' = pending /\ closed' = closed
        /\ \/ open' = open \cup {new} /\ next_ticket' = next_ticket + 1
           \/ open' = open /\ next_ticket' = next_ticket
    BY DEF RunnerCycle
  <1>2. new.ticket = next_ticket
    BY DEF RunnerPosition
  <1> HIDE DEF w, new
  <1>3. CASE open' = open /\ next_ticket' = next_ticket
    BY <1>1, <1>3 DEF BooksInv, Tickets
  <1>4. CASE open' = open \cup {new} /\ next_ticket' = next_ticket + 1
    <2>1. issued = 1 .. next_ticket - 1 /\ next_ticket \in Nat /\ next_ticket >= 1
      BY DEF BooksInv, TypeOK
    <2>2. \A x \in pending \cup open \cup traded : x.ticket \in issued
      BY DEF Tickets
    <2>3. \A x \in pending \cup open \cup traded : x.ticket # new.ticket
      <3>1. next_ticket \notin 1 .. next_ticket - 1
        BY <2>1
      <3> HIDE DEF issued
      <3> QED BY <1>2, <2>1, <2>2, <3>1
    <2>4. Tickets(open') = Tickets(open) \cup {next_ticket}
      BY <1>2, <1>4 DEF Tickets
    <2>5. Tickets(pending) \cup Tickets(open') \cup Tickets(traded) = 1 .. next_ticket' - 1
      <3>1. (1 .. next_ticket - 1) \cup {next_ticket} = 1 .. next_ticket' - 1
        BY <1>4, <2>1
      <3> QED BY <2>1, <2>4, <3>1
    <2>6. \A x, y \in open' : x.ticket = y.ticket => x = y
      BY <1>4, <2>3 DEF BooksInv
    <2>7. /\ \A o \in pending, p \in open' \cup traded : o.ticket # p.ticket
          /\ \A p \in open', q \in traded : p.ticket # q.ticket
      BY <1>4, <2>3 DEF BooksInv
    <2>8. next_ticket' >= 1
      BY <1>4, <2>1
    <2> QED BY <1>1, <2>5, <2>6, <2>7, <2>8 DEF BooksInv, Tickets
  <1> QED BY <1>1, <1>3, <1>4

\* A book with one ticket per entry has as many entries as tickets.
LEMMA BookSize ==
    ASSUME NEW S, NEW F \in [S -> Int], NEW n \in Int,
           \A x \in S : F[x] \in 1 .. n,
           \A x, y \in S : F[x] = F[y] => x = y
    PROVE  LET T == {F[x] : x \in S}
           IN  IsFiniteSet(T) /\ Cardinality(S) = Cardinality(T)
PROOF
  <1> DEFINE T == {F[x] : x \in S}
  <1>1. IsFiniteSet(1 .. n)
    BY FS_Interval
  <1>2. IsFiniteSet(T)
    <2>1. T \in SUBSET (1 .. n)
      OBVIOUS
    <2> QED BY <1>1, <2>1, FS_Subset
  <1>3. F \in Injection(S, T) /\ F \in Surjection(S, T)
    BY DEF Injection, Surjection, IsInjective
  <1>4. Cardinality(S) = Cardinality(T)
    BY <1>2, <1>3, FS_Injection
  <1> QED BY <1>2, <1>4

LEMMA CheckPreserves ==
    ASSUME ReplayInv, CheckFillsAndExits
    PROVE  ReplayInv'
PROOF
  <1> DEFINE filled == {o \in pending : Touches(CurrentBar, o)}
             opened == {FillPendingOrder(o) : o \in filled}
             exits  == Exits(CurrentBar, open)
  <1>1. /\ pc = "check" /\ pending' = pending \ filled
        /\ open' = (open \cup opened) \ {t.position : t \in exits}
        /\ closed' = closed \cup exits /\ bars' = bars /\ next_ticket' = next_ticket
        /\ (pc' = "grid" /\ index' = index) \/ Advance
    BY DEF CheckFillsAndExits, ExitCandidates
  <1>2. TypeOK /\ BooksInv /\ DatesAreChecked /\ StopsAreApart /\ FillsWhenTouched /\ ExitsWhenHit
    BY DEF ReplayInv, LedgerFollowsBars
  <1>3. /\ Checked = index - 1 /\ Checked' = index /\ index' \in BarsCount .. Length
        /\ pc' \in {"check", "grid", "runner", "ended"} /\ index \in 1 .. Length
        /\ CurrentBar = bars[index]
    BY <1>1, <1>2, CheckedAfter, ReplayAssumption DEF TypeOK, Checked, CurrentBar
  <1>4. \A p \in opened : \E o \in filled : p = FillPendingOrder(o)
    OBVIOUS
  <1>5. \A t \in exits :
          /\ t \in ClosedTrade /\ t.position \in open /\ t.closed_at = index
          /\ Exit(CurrentBar, t.position)
          /\ IF StopHit(CurrentBar, t.position)
             THEN t.reason = "SL" /\ t.price_close = t.position.sl
             ELSE t.reason = "TP" /\ t.price_close = t.position.tp
    BY <1>2, ExitOK
  <1>6. \A p \in open : Exit(CurrentBar, p) => \E t \in exits : t.position = p
    BY NoExitStaysOpen
  <1> HIDE DEF opened, exits
  <1>7. \A p \in opened : \E o \in pending :
          /\ Touches(CurrentBar, o) /\ p \in OpenPosition /\ p.opened_at = index
          /\ p.magic = "grid" /\ p.placed_at = o.placed_at /\ p.price_open = o.price
          /\ p.side = o.side /\ p.sl = o.sl /\ p.tp = o.tp
    <2> TAKE p \in opened
    <2>1. PICK o \in filled : p = FillPendingOrder(o)
      BY <1>4
    <2>2. o \in pending /\ Touches(CurrentBar, o) /\ o \in PendingOrder
      BY <1>2 DEF TypeOK
    <2>3. LET q == FillPendingOrder(o)
          IN  /\ q \in OpenPosition /\ q.opened_at = index /\ q.magic = "grid"
              /\ q.placed_at = o.placed_at /\ q.price_open = o.price
              /\ q.side = o.side /\ q.sl = o.sl /\ q.tp = o.tp
      BY <1>2, <2>2, FilledOrderOK
    <2> QED BY <2>1, <2>2, <2>3
  <1>8. \A o \in pending' : o \in pending /\ ~ Touches(CurrentBar, o)
    BY <1>1
  <1>9. \A p \in open' : p \in opened \/ (p \in open /\ ~ Exit(CurrentBar, p))
    BY <1>1, <1>6
  <1>10. \A t \in closed' : t \in closed \/ t \in exits
    BY <1>1
  <1>11. TypeOK'
    BY <1>1, <1>2, <1>3, <1>5, <1>7, <1>8, <1>9, <1>10 DEF TypeOK
  <1>12. DatesAreChecked'
    <2>1. \A o \in pending' : o.placed_at <= Checked'
      BY <1>2, <1>3, <1>8 DEF DatesAreChecked, TypeOK, PendingOrder
    <2>2. \A p \in open' : p.placed_at <= p.opened_at /\ p.opened_at <= Checked'
      BY <1>2, <1>3, <1>7, <1>9 DEF DatesAreChecked, TypeOK, PendingOrder, OpenPosition
    <2>3. \A t \in closed' : t.closed_at <= Checked'
      BY <1>2, <1>3, <1>5, <1>10 DEF DatesAreChecked, TypeOK, ClosedTrade
    <2> QED BY <2>1, <2>2, <2>3 DEF DatesAreChecked
  <1>13. StopsAreApart'
    BY <1>2, <1>7, <1>8, <1>9 DEF StopsAreApart
  <1>14. FillsWhenTouched'
    <2>1. \A o \in pending' : \A k \in o.placed_at + 1 .. Checked' : ~ Touches(bars'[k], o)
      <3> TAKE o \in pending'
      <3> TAKE k \in o.placed_at + 1 .. Checked'
      <3>1. k = index \/ k \in o.placed_at + 1 .. Checked
        BY <1>2, <1>3, <1>8 DEF TypeOK, PendingOrder
      <3> QED BY <1>1, <1>2, <1>3, <1>8, <3>1 DEF FillsWhenTouched
    <2> DEFINE Filled(p) ==
          \/ p.magic = "runner" /\ p.opened_at = p.placed_at
          \/ /\ p.magic = "grid" /\ p.placed_at < p.opened_at
             /\ bars[p.opened_at].low <= p.price_open /\ p.price_open <= bars[p.opened_at].high
             /\ \A k \in p.placed_at + 1 .. p.opened_at - 1 :
                   ~ (bars[k].low <= p.price_open /\ p.price_open <= bars[k].high)
    <2>2. \A p \in open \cup {t.position : t \in closed} : Filled(p)
      BY <1>2 DEF FillsWhenTouched
    <2>3. \A p \in opened : Filled(p)
      <3> TAKE p \in opened
      <3>1. PICK o \in pending :
              /\ Touches(CurrentBar, o) /\ p.opened_at = index
              /\ p.magic = "grid" /\ p.placed_at = o.placed_at /\ p.price_open = o.price
        BY <1>7
      <3>2. o.placed_at < index
        BY <1>2, <1>3 DEF DatesAreChecked, TypeOK, PendingOrder
      <3>3. \A k \in o.placed_at + 1 .. index - 1 : ~ Touches(bars[k], o)
        BY <1>2, <1>3 DEF FillsWhenTouched
      <3> QED BY <1>3, <3>1, <3>2, <3>3 DEF Touches
    <2>4. \A p \in open' \cup {t.position : t \in closed'} :
            p \in opened \/ p \in open \cup {t.position : t \in closed}
      BY <1>5, <1>9, <1>10
    <2>5. \A p \in open' \cup {t.position : t \in closed'} : Filled(p)
      BY <2>2, <2>3, <2>4
    <2> QED BY <1>1, <2>1, <2>5 DEF FillsWhenTouched, Touches
  <1>15. ExitsWhenHit'
    <2>1. \A p \in open' : \A k \in p.opened_at + 1 .. Checked' : ~ Exit(bars[k], p)
      <3> TAKE p \in open'
      <3> TAKE k \in p.opened_at + 1 .. Checked'
      <3>1. CASE p \in opened
        BY <1>3, <1>7, <3>1
      <3>2. CASE p \in open /\ ~ Exit(CurrentBar, p)
        <4>1. k = index \/ k \in p.opened_at + 1 .. Checked
          BY <1>2, <1>3, <3>2 DEF TypeOK, OpenPosition
        <4> QED BY <1>2, <1>3, <3>2, <4>1 DEF ExitsWhenHit
      <3> QED BY <1>9, <3>1, <3>2
    <2> DEFINE Left(t) ==
          /\ t.position.opened_at < t.closed_at /\ Exit(bars[t.closed_at], t.position)
          /\ \A k \in t.position.opened_at + 1 .. t.closed_at - 1 : ~ Exit(bars[k], t.position)
          /\ IF StopHit(bars[t.closed_at], t.position)
             THEN t.reason = "SL" /\ t.price_close = t.position.sl
             ELSE t.reason = "TP" /\ t.price_close = t.position.tp
    <2>2. \A t \in closed : Left(t)
      BY <1>2 DEF ExitsWhenHit
    <2>3. \A t \in exits : Left(t)
      <3> TAKE t \in exits
      <3>1. t.position \in open /\ t.position.opened_at \in Int
        BY <1>2, <1>5 DEF TypeOK, OpenPosition
      <3>2. t.position.opened_at < index
        BY <1>2, <1>3, <3>1 DEF DatesAreChecked
      <3>3. \A k \in t.position.opened_at + 1 .. index - 1 : ~ Exit(bars[k], t.position)
        BY <1>2, <1>3, <3>1 DEF ExitsWhenHit
      <3> QED BY <1>3, <1>5, <3>2, <3>3
    <2>4. \A t \in closed' : Left(t)
      BY <1>10, <2>2, <2>3
    <2> QED BY <1>1, <2>1, <2>4 DEF ExitsWhenHit, Exit, StopHit, TargetHit
  <1>16. BooksInv'
    BY <1>2, CheckKeepsBooks
  <1> QED BY <1>11, <1>12, <1>13, <1>14, <1>15, <1>16 DEF ReplayInv, LedgerFollowsBars

LEMMA GridPreserves ==
    ASSUME ReplayInv, GridCycle
    PROVE  ReplayInv'
PROOF
  <1> DEFINE w == VisibleBars(BarsCount)
             sides == GridSides(w)
             placed == {GridOrder(w, s, TicketOf(s, sides)) : s \in sides}
  <1>1. /\ pc = "grid" /\ pc' = "runner" /\ bars' = bars /\ index' = index
        /\ open' = open /\ closed' = closed
        /\ \/ pending' = pending /\ next_ticket' = next_ticket
           \/ pending' = pending \cup placed /\ next_ticket' = next_ticket + Cardinality(sides)
    BY DEF GridCycle
  <1>2. TypeOK /\ BooksInv /\ DatesAreChecked /\ StopsAreApart /\ FillsWhenTouched /\ ExitsWhenHit
    BY DEF ReplayInv, LedgerFollowsBars
  <1>3. Checked = index /\ Checked' = index /\ index \in Int
    BY <1>1, <1>2 DEF TypeOK, Checked
  <1>4. Cardinality(sides) \in Nat
    <2>1. IsFiniteSet({"BUY"})
      BY FS_Singleton
    <2>2. IsFiniteSet({"BUY"} \cup {"SELL"})
      BY <2>1, FS_AddElement
    <2>3. sides \in SUBSET ({"BUY"} \cup {"SELL"})
      BY DEF GridSides, Sides
    <2>4. IsFiniteSet(sides)
      BY <2>2, <2>3, FS_Subset
    <2> QED BY <2>4, FS_CardinalityType
  <1>5. \A o \in placed : /\ o \in PendingOrder /\ Apart(o.side, o.price, o.sl, o.tp)
                          /\ o.placed_at = index
    <2> TAKE o \in placed
    <2>1. PICK s \in sides : o = GridOrder(w, s, TicketOf(s, sides))
      OBVIOUS
    <2>2. s \in Sides /\ TicketOf(s, sides) \in Nat
      BY <1>2 DEF GridSides, TicketOf, TypeOK
    <2> QED BY <1>2, <2>1, <2>2, GridOrderOK
  <1> HIDE DEF w, sides, placed
  <1>6. \A o \in pending' : o \in pending \/ o \in placed
    BY <1>1
  <1>7. TypeOK'
    BY <1>1, <1>2, <1>4, <1>5, <1>6 DEF TypeOK
  <1>8. DatesAreChecked'
    BY <1>1, <1>2, <1>3, <1>5, <1>6 DEF DatesAreChecked
  <1>9. StopsAreApart'
    BY <1>1, <1>2, <1>5, <1>6 DEF StopsAreApart
  <1>10. FillsWhenTouched'
    <2>1. \A o \in pending' : \A k \in o.placed_at + 1 .. Checked' : ~ Touches(bars[k], o)
      BY <1>2, <1>3, <1>5, <1>6 DEF FillsWhenTouched
    <2> QED BY <1>1, <1>2, <2>1 DEF FillsWhenTouched, Touches
  <1>11. ExitsWhenHit'
    BY <1>1, <1>2, <1>3 DEF ExitsWhenHit, Exit, StopHit, TargetHit
  <1>12. BooksInv'
    BY <1>2, GridKeepsBooks
  <1> QED BY <1>7, <1>8, <1>9, <1>10, <1>11, <1>12 DEF ReplayInv, LedgerFollowsBars

LEMMA RunnerPreserves ==
    ASSUME ReplayInv, RunnerCycle
    PROVE  ReplayInv'
PROOF
  <1> DEFINE w == VisibleBars(BarsCount)
             side == IF Macd(w) > 0 THEN "BUY" ELSE "SELL"
             new == RunnerPosition(w, side, next_ticket)
  <1>1. /\ pc = "runner" /\ Advance /\ bars' = bars
        /\ pending' = pending /\ closed' = closed
        /\ \/ open' = open \cup {new} /\ next_ticket' = next_ticket + 1
           \/ open' = open /\ next_ticket' = next_ticket
    BY DEF RunnerCycle
  <1>2. TypeOK /\ BooksInv /\ DatesAreChecked /\ StopsAreApart /\ FillsWhenTouched /\ ExitsWhenHit
    BY DEF ReplayInv, LedgerFollowsBars
  <1>3. /\ Checked = index /\ Checked' = index /\ index \in Int
        /\ index' \in BarsCount .. Length /\ pc' \in {"check", "ended"}
    BY <1>1, <1>2, CheckedAfter DEF TypeOK, Checked
  <1>4. /\ new \in OpenPosition /\ Apart(new.side, new.price_open, new.sl, new.tp)
        /\ new.magic = "runner" /\ new.placed_at = index /\ new.opened_at = index
    <2>1. side \in Sides /\ next_ticket \in Nat
      BY <1>2 DEF TypeOK, Sides
    <2> QED BY <1>2, <2>1, RunnerPositionOK
  <1> HIDE DEF w, side, new
  <1>5. \A p \in open' : p \in open \/ p = new
    BY <1>1
  <1>6. TypeOK'
    BY <1>1, <1>2, <1>3, <1>4, <1>5 DEF TypeOK
  <1>7. DatesAreChecked'
    BY <1>1, <1>2, <1>3, <1>4, <1>5 DEF DatesAreChecked
  <1>8. StopsAreApart'
    BY <1>1, <1>2, <1>4, <1>5 DEF StopsAreApart
  <1>9. FillsWhenTouched'
    <2> DEFINE Filled(p) ==
          \/ p.magic = "runner" /\ p.opened_at = p.placed_at
          \/ /\ p.magic = "grid" /\ p.placed_at < p.opened_at
             /\ bars[p.opened_at].low <= p.price_open /\ p.price_open <= bars[p.opened_at].high
             /\ \A k \in p.placed_at + 1 .. p.opened_at - 1 :
                   ~ (bars[k].low <= p.price_open /\ p.price_open <= bars[k].high)
    <2>1. \A p \in open \cup {t.position : t \in closed} : Filled(p)
      BY <1>2 DEF FillsWhenTouched
    <2>2. Filled(new)
      BY <1>4
    <2>3. \A p \in open' \cup {t.position : t \in closed'} :
            p = new \/ p \in open \cup {t.position : t \in closed}
      BY <1>1, <1>5
    <2>4. \A p \in open' \cup {t.position : t \in closed'} : Filled(p)
      BY <2>1, <2>2, <2>3
    <2> QED BY <1>1, <1>2, <1>3, <2>4 DEF FillsWhenTouched, Touches
  <1>10. ExitsWhenHit'
    <2>1. \A p \in open' : \A k \in p.opened_at + 1 .. Checked' : ~ Exit(bars[k], p)
      BY <1>2, <1>3, <1>4, <1>5 DEF ExitsWhenHit
    <2> QED BY <1>1, <1>2, <2>1 DEF ExitsWhenHit, Exit, StopHit, TargetHit
  <1>11. BooksInv'
    BY <1>2, RunnerKeepsBooks
  <1> QED BY <1>6, <1>7, <1>8, <1>9, <1>10, <1>11 DEF ReplayInv, LedgerFollowsBars

-----------------------------------------------------------------------------
(* Results. *)

\* The inductive invariant of the replay holds in every reachable state.
THEOREM ReplayInvHolds == Spec => []ReplayInv
PROOF
  <1>1. Init => ReplayInv
    BY ReplayAssumption DEF Init, ReplayInv, TypeOK, BooksInv, Tickets, DatesAreChecked,
       StopsAreApart, LedgerFollowsBars, FillsWhenTouched, ExitsWhenHit
  <1>2. ReplayInv /\ [Next]_vars => ReplayInv'
    <2> SUFFICES ASSUME ReplayInv, [Next]_vars PROVE ReplayInv'
      OBVIOUS
    <2>1. CASE CheckFillsAndExits
      BY <2>1, CheckPreserves
    <2>2. CASE GridCycle
      BY <2>2, GridPreserves
    <2>3. CASE RunnerCycle
      BY <2>3, RunnerPreserves
    <2>4. CASE UNCHANGED vars
      BY <2>4 DEF vars, ReplayInv, TypeOK, BooksInv, Tickets, DatesAreChecked, StopsAreApart,
         LedgerFollowsBars, FillsWhenTouched, ExitsWhenHit, Checked, Touches, Exit, StopHit, TargetHit
    <2> QED BY <2>1, <2>2, <2>3, <2>4 DEF Next
  <1> QED BY <1>1, <1>2, PTL DEF Spec

\* check_fills_and_exits() fills and closes on exactly the bars the history as
\* a whole prescribes, for every history, indicator and parameter.
THEOREM LedgerIsFaithful == Spec => []LedgerFollowsBars
PROOF
  <1>1. ReplayInv => LedgerFollowsBars
    BY DEF ReplayInv
  <1> QED BY <1>1, ReplayInvHolds, PTL

\* No order or position ever has its stop or target at its entry price or on
\* the wrong side of it: BacktestLedger.close_position() never raises.
THEOREM RiskIsNeverZero == Spec => []StopsAreApart
PROOF
  <1>1. ReplayInv => StopsAreApart
    BY DEF ReplayInv
  <1> QED BY <1>1, ReplayInvHolds, PTL

\* Single books with disjoint tickets: the sizes of the books add up.
LEMMA BooksAddUp ==
    ASSUME TypeOK, BooksInv
    PROVE  TicketsConserved
PROOF
  <1> DEFINE traded == {t.position : t \in closed}
             last == next_ticket - 1
             P == Tickets(pending)
             O == Tickets(open)
             C == {t.position.ticket : t \in closed}
  <1>1. /\ P \cup O \cup Tickets(traded) = 1 .. last /\ Tickets(traded) = C
        /\ last \in Nat
    BY DEF BooksInv, TypeOK, Tickets
  <1>2. \A n \in P \cup O \cup C : n \in 1 .. last /\ n \in Int
    <2> HIDE DEF P, O, C, last
    <2>1. \A n \in P \cup O \cup C : n \in 1 .. last
      BY <1>1
    <2> QED BY <2>1
  <1>3. IsFiniteSet(P) /\ Cardinality(pending) = Cardinality(P)
    <2> DEFINE F == [x \in pending |-> x.ticket]
    <2>1. \A x \in pending : F[x] = x.ticket /\ x.ticket \in P
      BY DEF Tickets
    <2>2. F \in [pending -> Int] /\ \A x \in pending : F[x] \in 1 .. last
      <3>1. \A x \in pending : F[x] \in 1 .. last /\ F[x] \in Int
        BY <1>2, <2>1
      <3> QED BY <3>1
    <2>3. \A x, y \in pending : F[x] = F[y] => x = y
      BY DEF BooksInv
    <2>4. {F[x] : x \in pending} = P
      BY DEF Tickets
    <2>5. last \in Int
      BY <1>1
    <2> HIDE DEF F, P, last
    <2>6. IsFiniteSet({F[x] : x \in pending}) /\ Cardinality(pending) = Cardinality({F[x] : x \in pending})
      BY <2>2, <2>3, <2>5, BookSize
    <2> QED BY <2>4, <2>6
  <1>4. IsFiniteSet(O) /\ Cardinality(open) = Cardinality(O)
    <2> DEFINE F == [x \in open |-> x.ticket]
    <2>1. \A x \in open : F[x] = x.ticket /\ x.ticket \in O
      BY DEF Tickets
    <2>2. F \in [open -> Int] /\ \A x \in open : F[x] \in 1 .. last
      <3>1. \A x \in open : F[x] \in 1 .. last /\ F[x] \in Int
        BY <1>2, <2>1
      <3> QED BY <3>1
    <2>3. \A x, y \in open : F[x] = F[y] => x = y
      BY DEF BooksInv
    <2>4. {F[x] : x \in open} = O
      BY DEF Tickets
    <2>5. last \in Int
      BY <1>1
    <2> HIDE DEF F, O, last
    <2>6. IsFiniteSet({F[x] : x \in open}) /\ Cardinality(open) = Cardinality({F[x] : x \in open})
      BY <2>2, <2>3, <2>5, BookSize
    <2> QED BY <2>4, <2>6
  <1>5. IsFiniteSet(C) /\ Cardinality(closed) = Cardinality(C)
    <2> DEFINE F == [t \in closed |-> t.position.ticket]
    <2>1. \A t \in closed : F[t] = t.position.ticket /\ F[t] \in C
      OBVIOUS
    <2>2. F \in [closed -> Int] /\ \A t \in closed : F[t] \in 1 .. last
      <3>1. \A t \in closed : F[t] \in 1 .. last /\ F[t] \in Int
        BY <1>2, <2>1
      <3> QED BY <3>1
    <2>3. \A s, t \in closed : F[s] = F[t] => s = t
      <3> SUFFICES ASSUME NEW s \in closed, NEW t \in closed, F[s] = F[t] PROVE s = t
        OBVIOUS
      <3>1. s.position.ticket = t.position.ticket /\ s.position \in traded /\ t.position \in traded
        OBVIOUS
      <3>2. s.position = t.position
        BY <3>1 DEF BooksInv
      <3> QED BY <3>2 DEF BooksInv
    <2>4. {F[t] : t \in closed} = C
      OBVIOUS
    <2>5. last \in Int
      BY <1>1
    <2> HIDE DEF F, C, last
    <2>6. IsFiniteSet({F[x] : x \in closed}) /\ Cardinality(closed) = Cardinality({F[x] : x \in closed})
      BY <2>2, <2>3, <2>5, BookSize
    <2> QED BY <2>4, <2>6
  <1>6. P \cap O = {} /\ (P \cup O) \cap C = {}
    BY DEF BooksInv, Tickets
  <1> HIDE DEF P, O, C
  <1>7. IsFiniteSet(P \cup O) /\ Cardinality(P \cup O) = Cardinality(P) + Cardinality(O)
    <2>1. Cardinality(P) \in Nat /\ Cardinality(O) \in Nat /\ Cardinality({}) = 0
      BY <1>3, <1>4, FS_CardinalityType, FS_EmptySet
    <2>2. /\ IsFiniteSet(P \cup O)
          /\ Cardinality(P \cup O) = Cardinality(P) + Cardinality(O) - Cardinality(P \cap O)
      BY <1>3, <1>4, FS_Union
    <2>3. Cardinality(P \cap O) = 0
      BY <1>6, <2>1
    <2> QED BY <2>1, <2>2, <2>3
  <1>8. Cardinality((P \cup O) \cup C) = Cardinality(P) + Cardinality(O) + Cardinality(C)
    <2>1. /\ Cardinality(P) \in Nat /\ Cardinality(O) \in Nat /\ Cardinality(C) \in Nat
          /\ Cardinality({}) = 0
      BY <1>3, <1>4, <1>5, FS_CardinalityType, FS_EmptySet
    <2>2. Cardinality((P \cup O) \cup C)
            = Cardinality(P \cup O) + Cardinality(C) - Cardinality((P \cup O) \cap C)
      BY <1>5, <1>7, FS_Union
    <2>3. Cardinality((P \cup O) \cap C) = 0
      BY <1>6, <2>1
    <2> QED BY <1>7, <2>1, <2>2, <2>3
  <1>9. (P \cup O) \cup C = 1 .. last
    BY <1>1
  <1>10. Cardinality(1 .. last) = last
    <2>1. Cardinality(1 .. last) = IF 1 > last THEN 0 ELSE last - 1 + 1
      BY <1>1, FS_Interval
    <2> QED BY <1>1, <2>1
  <1>11. Cardinality(pending) + Cardinality(open) + Cardinality(closed) = last
    BY <1>3, <1>4, <1>5, <1>8, <1>9, <1>10
  <1> QED BY <1>1, <1>11 DEF TicketsConserved, P, O, last

\* The ledger loses no order and trades none twice: every ticket issued is in
\* one of its three books, once.
THEOREM TicketsAreConserved == Spec => []TicketsConserved
PROOF
  <1>1. ReplayInv => TicketsConserved
    BY BooksAddUp DEF ReplayInv
  <1> QED BY <1>1, ReplayInvHolds, PTL
=============================================================================
