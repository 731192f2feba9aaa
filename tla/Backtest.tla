----------------------------- MODULE Backtest -----------------------------
(***************************************************************************)
(* The bar-by-bar replay of backtest/engine.py on the ledger of            *)
(* backtest/ledger.py: for every bar run_backtest() first checks fills and *)
(* exits, then, on every Interval-th bar, runs the grid and the runner     *)
(* cycle of the live pipeline against the replayed market.                 *)
(*                                                                         *)
(* The ledger's three dictionaries are sets of records with their ticket.  *)
(* Prices are counted in half points, so that half a spread is an integer; *)
(* every order has the fixed lot of one unit.  What the strategies compute *)
(* from the bars they see (EMA, ATR, MACD, efficiency ratio) is given by   *)
(* constant operators on the visible window: the properties hold whatever  *)
(* the indicators are.                                                     *)
(***************************************************************************)
EXTENDS Integers, Sequences, FiniteSets

CONSTANTS
    Bars,               \* the bars a history may consist of
    Length,             \* bound: number of bars of the history
    BarsCount,          \* the window the strategies ask for
    Interval,           \* cycle_interval_bars
    SpreadMultiplier,   \* spread_multiplier
    Gap,                \* the broker's minimum distance of a limit price
    Tolerance,          \* check_duplicate_order()
    MinStep,            \* floor of the grid's step, SL and TP distance
    StepMult, TpMult, SlMult,   \* the grid's multiples of the ATR
    StopFraction,       \* the runner's base distance is at least close / this
    RunnerTp, RunnerSl, \* the runner's multiples of its base distance
    MaxProjected,       \* largest projected exposure that passes the cap
    MaxConcurrent,      \* open runner positions
    Center(_), Atr(_), Macd(_), Trending(_)     \* indicators of a window

ASSUME BarAssumption ==
    \A b \in Bars : /\ b.low \in Int /\ b.high \in Int /\ b.close \in Int
                    /\ b.low <= b.close /\ b.close <= b.high
                    /\ b.spread \in Nat

\* run_backtest() raises on a shorter history or an interval below one.  No
\* distance is below one point (two units): the floors of both strategies.
ASSUME ReplayAssumption ==
    /\ Length \in Nat /\ BarsCount \in 1 .. Length /\ Interval \in Nat \ {0}
    /\ SpreadMultiplier \in Nat /\ Gap \in Nat /\ Tolerance \in Nat
    /\ MinStep \in Nat /\ MinStep >= 2
    /\ StepMult \in Nat /\ TpMult \in Nat /\ SlMult \in Nat
    /\ StopFraction \in Nat \ {0} /\ RunnerTp \in Nat \ {0} /\ RunnerSl \in Nat \ {0}
    /\ MaxProjected \in Nat /\ MaxConcurrent \in Nat

\* The replay starts at BarsCount, so the window is always full.
Windows == [1 .. BarsCount -> Bars]

\* The indicators are numbers, and the runner's floor (one percent of the
\* price in the code) is at least one point.
ASSUME IndicatorAssumption ==
    /\ \A w \in Windows : Center(w) \in Int /\ Atr(w) \in Int /\ Macd(w) \in Int
    /\ \A b \in Bars : b.close \div StopFraction >= 2

VARIABLES
    bars,       \* the history, oldest first
    index,      \* ReplayCursor.index
    pc,         \* what run_backtest() does next for this bar
    pending,    \* BacktestLedger.pending_orders
    open,       \* BacktestLedger.open_positions
    closed,     \* BacktestLedger.closed_trades
    next_ticket

vars == <<bars, index, pc, pending, open, closed, next_ticket>>

Sides  == {"BUY", "SELL"}
Magics == {"grid", "runner"}

PendingOrder == [ticket : Nat, side : Sides, price : Int, sl : Int, tp : Int,
                 placed_at : 1 .. Length]

\* placed_at is not in the code's OpenPosition: it remembers, for the
\* properties, the bar on which the order was submitted.
OpenPosition == [ticket : Nat, side : Sides, price_open : Int, sl : Int, tp : Int,
                 magic : Magics, placed_at : 1 .. Length, opened_at : 1 .. Length]

ClosedTrade == [position : OpenPosition, price_close : Int,
                reason : {"SL", "TP"}, closed_at : 1 .. Length]

\* The ledger holds records of the right kind and the cursor is in the history.
TypeOK ==
    /\ bars \in [1 .. Length -> Bars]
    /\ index \in BarsCount .. Length
    /\ pc \in {"check", "grid", "runner", "ended"}
    /\ pending \subseteq PendingOrder
    /\ open \subseteq OpenPosition
    /\ closed \subseteq ClosedTrade
    /\ next_ticket \in Nat

Init ==
    /\ bars \in [1 .. Length -> Bars]
    /\ index = BarsCount /\ pc = "check"
    /\ pending = {} /\ open = {} /\ closed = {} /\ next_ticket = 1

-----------------------------------------------------------------------------
(* Market data. *)

\* Mutant: the window ends one bar too late.
VisibleBarsAhead(count) ==
    LET last == IF index < Length THEN index + 1 ELSE index
    IN  SubSeq(bars, IF index > count THEN index - count + 1 ELSE 1, last)

\* ReplayCursor.visible_bars(): at most count bars, the last one is current.
VisibleBars(count) ==
    SubSeq(bars, IF index > count THEN index - count + 1 ELSE 1, index)

CurrentBar == bars[index]

HalfSpreadPrice(bar) == bar.spread * SpreadMultiplier

Bid == CurrentBar.close - HalfSpreadPrice(CurrentBar)
Ask == CurrentBar.close + HalfSpreadPrice(CurrentBar)

\* Rounding to a whole point: Python's round() takes a half to the even one.
Snap(price) ==
    IF price % 2 = 0 THEN price ELSE IF price % 4 = 1 THEN price - 1 ELSE price + 1

-----------------------------------------------------------------------------
(* Planning an order. *)

AtLeast(a, b) == IF a < b THEN b ELSE a

\* compute_grid_levels(): without an ATR the last close and the bare floor.
GridCenter(w) == IF Atr(w) <= 0 THEN w[Len(w)].close ELSE Center(w)
GridDistance(w, mult) == IF Atr(w) <= 0 THEN MinStep ELSE AtLeast(MinStep, Atr(w) * mult)

ReferencePrice(w, side) ==
    IF side = "BUY" THEN GridCenter(w) - GridDistance(w, StepMult)
                    ELSE GridCenter(w) + GridDistance(w, StepMult)

\* normalize_limit_price(): three points beyond the minimum distance if the
\* level is too close to the market or on its wrong side.
NormalizeLimitPrice(price, side) ==
    IF side = "BUY"
    THEN IF Snap(price) < Bid - Gap THEN Snap(price) ELSE Snap(Bid - Gap - 6)
    ELSE IF Snap(price) > Ask + Gap THEN Snap(price) ELSE Snap(Ask + Gap + 6)

\* Stop and target on their sides of an entry, rounded to the symbol's digits.
StopAt(side, entry, distance) ==
    Snap(IF side = "BUY" THEN entry - distance ELSE entry + distance)
TargetAt(side, entry, distance) ==
    Snap(IF side = "BUY" THEN entry + distance ELSE entry - distance)

\* Mutant: SL and TP anchored to the level before its normalization.
GridOrderAnchoredToLevel(w, side, ticket) ==
    LET level == ReferencePrice(w, side)
    IN  [ticket |-> ticket, side |-> side, price |-> NormalizeLimitPrice(level, side),
         sl |-> StopAt(side, level, GridDistance(w, SlMult)),
         tp |-> TargetAt(side, level, GridDistance(w, TpMult)), placed_at |-> index]

\* The plan of one grid side, anchored to the normalized price.
GridOrder(w, side, ticket) ==
    LET price == NormalizeLimitPrice(ReferencePrice(w, side), side)
    IN  [ticket |-> ticket, side |-> side, price |-> price,
         sl |-> StopAt(side, price, GridDistance(w, SlMult)),
         tp |-> TargetAt(side, price, GridDistance(w, TpMult)), placed_at |-> index]

\* compute_stop_distances(): the runner's base distance before its multiples.
StopBase(w) ==
    AtLeast(IF Atr(w) > 0 THEN Atr(w) ELSE MinStep, w[Len(w)].close \div StopFraction)

\* A market order fills at once at the current close and half the spread.
RunnerPosition(w, side, ticket) ==
    LET fill == IF side = "BUY" THEN Ask ELSE Bid
    IN  [ticket |-> ticket, side |-> side, price_open |-> fill,
         sl |-> StopAt(side, fill, StopBase(w) * RunnerSl),
         tp |-> TargetAt(side, fill, StopBase(w) * RunnerTp),
         magic |-> "runner", placed_at |-> index, opened_at |-> index]

-----------------------------------------------------------------------------
(* The ledger. *)

\* BacktestLedger.fill_pending_order(): the position keeps the ticket.
FillPendingOrder(o) ==
    [ticket |-> o.ticket, side |-> o.side, price_open |-> o.price,
     sl |-> o.sl, tp |-> o.tp, magic |-> "grid",
     placed_at |-> o.placed_at, opened_at |-> index]

\* BacktestLedger.close_position().  It raises for a stop at the entry price,
\* which StopsAreApart excludes.
ClosePosition(p, price, reason) ==
    [position |-> p, price_close |-> price, reason |-> reason, closed_at |-> index]

Touches(bar, o) == bar.low <= o.price /\ o.price <= bar.high
StopHit(bar, p) == IF p.side = "BUY" THEN bar.low <= p.sl ELSE bar.high >= p.sl
TargetHit(bar, p) == IF p.side = "BUY" THEN bar.high >= p.tp ELSE bar.low <= p.tp

\* Mutant: without just_filled, an order that fills is checked in the same call.
ExitCandidatesWithFilled(opened) == open \cup opened

\* Positions opened by this call wait for the next bar.
ExitCandidates(opened) == open

\* A bar that hits both closes at the stop.
Exits(bar, candidates) ==
    {ClosePosition(p, p.sl, "SL") : p \in {q \in candidates : StopHit(bar, q)}}
    \cup {ClosePosition(p, p.tp, "TP") :
            p \in {q \in candidates : TargetHit(bar, q) /\ ~ StopHit(bar, q)}}

OpenOf(magic) == {p \in open : p.magic = magic}

-----------------------------------------------------------------------------
(* The replay. *)

CycleDue == (index - BarsCount) % Interval = 0

\* Mutant: the loop runs one bar too far.
AdvancePastEnd ==
    \/ index <= Length /\ index' = index + 1 /\ pc' = "check"
    \/ index > Length /\ index' = index /\ pc' = "ended"

\* To the next bar, or the replay is over: what is open stays open.
Advance ==
    \/ index < Length /\ index' = index + 1 /\ pc' = "check"
    \/ index = Length /\ index' = index /\ pc' = "ended"

\* check_fills_and_exits(), on every bar, before the bar's cycles.
CheckFillsAndExits ==
    LET filled == {o \in pending : Touches(CurrentBar, o)}
        opened == {FillPendingOrder(o) : o \in filled}
        exits  == Exits(CurrentBar, ExitCandidates(opened))
    IN  /\ pc = "check"
        /\ pending' = pending \ filled
        /\ open' = (open \cup opened) \ {t.position : t \in exits}
        /\ closed' = closed \cup exits
        /\ \/ CycleDue /\ pc' = "grid" /\ UNCHANGED index
           \/ ~ CycleDue /\ Advance
        /\ UNCHANGED <<bars, next_ticket>>

\* check_exposure_cap() for one more unit; read once for both sides.
GridCap == Cardinality(OpenOf("grid")) + Cardinality(pending) + 1 <= MaxProjected

\* check_duplicate_order() against the level, not the normalized price.
NoDuplicate(side, price) ==
    \A o \in pending : o.side = side => ~ (o.price - price \in -Tolerance .. Tolerance)

GridSides(w) == {side \in Sides : GridCap /\ NoDuplicate(side, ReferencePrice(w, side))}

\* Mutant: one ticket for the whole cycle.
TicketOfCycle(side, sides) == next_ticket

\* new_ticket() counts up in the order of the submissions: BUY before SELL.
TicketOf(side, sides) ==
    IF side = "SELL" /\ "BUY" \in sides THEN next_ticket + 1 ELSE next_ticket

\* run_grid_cycle() against the replay.
GridCycle ==
    LET w     == VisibleBars(BarsCount)
        sides == GridSides(w)
    IN  /\ pc = "grid"
        /\ \/ Trending(w) /\ UNCHANGED <<pending, next_ticket>>
           \/ /\ ~ Trending(w)
              /\ pending' = pending \cup {GridOrder(w, s, TicketOf(s, sides)) : s \in sides}
              /\ next_ticket' = next_ticket + Cardinality(sides)
        /\ pc' = "runner"
        /\ UNCHANGED <<bars, index, open, closed>>

\* check_exposure_cap() and check_position_limit().
RunnerApproved ==
    /\ Cardinality(OpenOf("runner")) + 1 <= MaxProjected
    /\ Cardinality(OpenOf("runner")) < MaxConcurrent

\* run_runner_cycle() against the replay: LONG buys, SHORT sells, FLAT does
\* nothing.
RunnerCycle ==
    LET w    == VisibleBars(BarsCount)
        side == IF Macd(w) > 0 THEN "BUY" ELSE "SELL"
    IN  /\ pc = "runner"
        /\ \/ /\ Macd(w) # 0 /\ RunnerApproved
              /\ open' = open \cup {RunnerPosition(w, side, next_ticket)}
              /\ next_ticket' = next_ticket + 1
           \/ (Macd(w) = 0 \/ ~ RunnerApproved) /\ UNCHANGED <<open, next_ticket>>
        /\ Advance
        /\ UNCHANGED <<bars, pending, closed>>

Next == CheckFillsAndExits \/ GridCycle \/ RunnerCycle

Spec == Init /\ [][Next]_vars

-----------------------------------------------------------------------------
(* Properties. *)

\* The bars check_fills_and_exits() has seen so far.
Checked == IF pc = "check" THEN index - 1 ELSE index

Exit(bar, p) == StopHit(bar, p) \/ TargetHit(bar, p)

\* A limit order fills on the first bar after its own whose range holds its
\* price, a market order on its own bar.
FillsWhenTouched ==
    /\ \A o \in pending : \A k \in o.placed_at + 1 .. Checked : ~ Touches(bars[k], o)
    /\ \A p \in open \cup {t.position : t \in closed} :
          LET Held(bar) == bar.low <= p.price_open /\ p.price_open <= bar.high
          IN  \/ p.magic = "runner" /\ p.opened_at = p.placed_at
              \/ /\ p.magic = "grid" /\ p.placed_at < p.opened_at
                 /\ Held(bars[p.opened_at])
                 /\ \A k \in p.placed_at + 1 .. p.opened_at - 1 : ~ Held(bars[k])

\* A position leaves on the first bar after its opening that reaches its stop
\* or its target, at the stop if the bar reaches both.
ExitsWhenHit ==
    /\ \A p \in open : \A k \in p.opened_at + 1 .. Checked : ~ Exit(bars[k], p)
    /\ \A t \in closed :
          LET p == t.position
          IN  /\ p.opened_at < t.closed_at /\ Exit(bars[t.closed_at], p)
              /\ \A k \in p.opened_at + 1 .. t.closed_at - 1 : ~ Exit(bars[k], p)
              /\ IF StopHit(bars[t.closed_at], p) THEN t.reason = "SL" /\ t.price_close = p.sl
                                                  ELSE t.reason = "TP" /\ t.price_close = p.tp

\* The ledger against a definition that knows the history as a whole, instead
\* of one bar at a time: every fill and every exit is on the bar it belongs to,
\* never on the bar of the order itself, and none is missed (the fill and exit
\* timing engine.py documents).
LedgerFollowsBars == FillsWhenTouched /\ ExitsWhenHit

Tickets(s) == {x.ticket : x \in s}

\* Every ticket ever issued is in exactly one of the ledger's three books, and
\* in that one once: no order is filled twice or lost between two books
\* (BacktestLedger.new_ticket, fill_pending_order, close_position).
TicketsConserved ==
    LET traded == {t.position : t \in closed}
    IN  /\ Tickets(pending) \cup Tickets(open) \cup Tickets(traded) = 1 .. next_ticket - 1
        /\ Cardinality(pending) + Cardinality(open) + Cardinality(closed) = next_ticket - 1

Apart(side, entry, sl, tp) ==
    IF side = "BUY" THEN sl < entry /\ entry < tp ELSE tp < entry /\ entry < sl

\* Stop and target lie on their sides of the entry price, so that
\* close_position() never meets a zero risk, although prices are rounded to
\* points and the entry is moved away from the market.
StopsAreApart ==
    /\ \A o \in pending : Apart(o.side, o.price, o.sl, o.tp)
    /\ \A p \in open : Apart(p.side, p.price_open, p.sl, p.tp)

\* Nothing in the ledger is dated after the last bar that was checked.
DatesAreChecked ==
    /\ \A o \in pending : o.placed_at <= Checked
    /\ \A p \in open : p.placed_at <= p.opened_at /\ p.opened_at <= Checked
    /\ \A t \in closed : t.closed_at <= Checked

\* What TicketsConserved rests on: no two entries of the ledger, in one book or
\* in two, have the same ticket.
BooksInv ==
    LET traded == {t.position : t \in closed}
        Single(book) == \A x, y \in book : x.ticket = y.ticket => x = y
    IN  /\ next_ticket >= 1
        /\ Tickets(pending) \cup Tickets(open) \cup Tickets(traded) = 1 .. next_ticket - 1
        /\ Single(pending) /\ Single(open) /\ Single(traded)
        /\ \A s, t \in closed : s.position = t.position => s = t
        /\ \A o \in pending, p \in open \cup traded : o.ticket # p.ticket
        /\ \A p \in open, q \in traded : p.ticket # q.ticket

\* The inductive invariant of the replay.
ReplayInv == TypeOK /\ BooksInv /\ DatesAreChecked /\ StopsAreApart /\ LedgerFollowsBars
=============================================================================
