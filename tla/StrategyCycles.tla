-------------------------- MODULE StrategyCycles --------------------------
(***************************************************************************)
(* One trading cycle of the pipeline: run_grid_cycle() places at most one  *)
(* BUY and one SELL limit order, run_runner_cycle() at most one market     *)
(* order, each behind its risk guards (pipeline/grid_cycle.py,             *)
(* pipeline/runner_cycle.py, risk/, order_planning/).  The guards work on  *)
(* live reads restricted to the tickets the local store knows; the account *)
(* goes on moving between the reads and the submissions.                   *)
(*                                                                         *)
(* Every order is one lot unit (MoneyConfig's fixed 0.01).  Prices are in  *)
(* points.  executor.submit() is used by its outcomes, as OrderExecutor    *)
(* shows them: it returns (done or rejected) or raises, and either way the *)
(* order is on the account with a record, or the caps never see it: they   *)
(* count recorded tickets only.                                            *)
(***************************************************************************)
EXTENDS Integers, FiniteSets

CONSTANTS
    Centers, Bids,      \* possible grid centers and bid prices
    Step, Spread, Gap,  \* grid step, spread, broker's minimum distance
    Tolerance,          \* check_duplicate_order(): 5 points
    MaxProjected,       \* the largest projected total that passes the cap
    MaxConcurrent,      \* RunnerStrategyConfig.max_concurrent_positions
    OrderIds,           \* bound: how many pending grid orders can exist
    MaxSlips,           \* bound: fills between the two reads of one cycle
    RegimeFilter,       \* GridStrategyConfig.max_entry_efficiency_ratio is set
    Runner              \* whether the runner strategy ever signals

ASSUME PriceAssumption ==
    /\ Centers \subseteq Int /\ Bids \subseteq Int
    /\ Step \in Nat /\ Spread \in Nat /\ Gap \in Nat /\ Tolerance \in Nat
ASSUME LimitAssumption ==
    /\ MaxProjected \in Nat /\ MaxConcurrent \in Nat /\ MaxSlips \in Nat
    /\ IsFiniteSet(OrderIds) /\ OrderIds \subseteq Nat
    /\ RegimeFilter \in BOOLEAN /\ Runner \in BOOLEAN

VARIABLES
    pending,        \* recorded grid orders on the account
    open,           \* recorded positions on the account, per strategy
    pc,             \* where the cycle is
    quote,          \* the market data this cycle read: center and bid
    open_seen,      \* positions read by the running strategy
    pending_seen,   \* pending orders read by the running strategy
    slips,          \* fills between those two reads
    turns,          \* the submissions this cycle got to decide about
    ok              \* no strategy raised so far (_run_one_cycle)

bookVars  == <<pending, open>>
cycleVars == <<pc, quote, open_seen, pending_seen, slips, turns, ok>>

Sides      == {"BUY", "SELL"}
Strategies == {"grid", "runner"}
Pcs == {"idle", "g_data", "g_positions", "g_orders", "BUY", "SELL",
        "r_data", "r_positions", "r_orders", "RUNNER", "done"}
Orders == [id : OrderIds, side : Sides, price : Int]

CycleTypeOK ==
    /\ pending \subseteq Orders
    /\ open \in [Strategies -> Nat]
    /\ pc \in Pcs
    /\ quote \in [center : Centers, bid : Bids]
    /\ open_seen \in Nat
    /\ pending_seen \subseteq Orders
    /\ slips \in 0 .. MaxSlips
    /\ turns \subseteq {"BUY", "SELL", "RUNNER"}
    /\ ok \in BOOLEAN

CycleInit ==
    /\ pending = {} /\ open = [s \in Strategies |-> 0]
    /\ pc = "idle" /\ quote \in [center : Centers, bid : Bids]
    /\ open_seen = 0 /\ pending_seen = {} /\ slips = 0
    /\ turns = {} /\ ok = TRUE

-----------------------------------------------------------------------------
(* Levels and guards. *)

\* compute_grid_levels(): one level on each side of the center.
ReferencePrice(side) == IF side = "BUY" THEN quote.center - Step ELSE quote.center + Step

\* normalize_limit_price(): a price too close to the market is moved to three
\* points beyond the broker's minimum distance.
NormalizeLimitPrice(price, side) ==
    LET ask == quote.bid + Spread
    IN  IF side = "BUY"
        THEN IF price < quote.bid - Gap THEN price ELSE quote.bid - Gap - 3
        ELSE IF price > ask + Gap THEN price ELSE ask + Gap + 3

\* Mutant: the legacy check, current exposure only.
CheckExposureCapLegacy(open_lots, pending_lots, volume) ==
    open_lots + pending_lots < MaxProjected + volume

\* check_exposure_cap(): the projected total must not exceed the caps.  The
\* lots are floats there: MaxProjected stands for the largest total whose
\* float sum is not above the cap (0.05 for caps of 0.06, since
\* 0.05 + 0.01 > 0.06).
CheckExposureCap(open_lots, pending_lots, volume) ==
    open_lots + pending_lots + volume <= MaxProjected

\* check_duplicate_order(): no pending order of the side near the price.
CheckDuplicateOrder(orders, side, price) ==
    \A o \in orders : o.side = side =>
        ~ (o.price - price \in -Tolerance .. Tolerance)

\* Mutant: one position too many.
CheckPositionLimitLoose(positions) == positions <= MaxConcurrent

\* check_position_limit().
CheckPositionLimit(positions) == positions < MaxConcurrent

-----------------------------------------------------------------------------
(* Submissions by outcome. *)

\* Ticket numbers are the broker's; the smallest free id stands for the next.
FreshIds == {i \in OrderIds : /\ \A o \in pending : o.id # i
                              /\ \A j \in OrderIds :
                                    j < i => \E o \in pending : o.id = j}

\* The order is on the account and its record in the store.
PlaceLimit(side, price) ==
    \E i \in FreshIds :
        /\ pending' = pending \cup {[id |-> i, side |-> side, price |-> price]}
        /\ UNCHANGED open

PlaceMarket ==
    /\ open' = [open EXCEPT !["runner"] = @ + 1]
    /\ UNCHANGED pending

\* submit() changes the book or not; what it did does not follow from whether
\* it raised: a refusal by the posture and a lost answer leave no record, a
\* failing verification read or SL/TP attachment comes after the record.
SubmitEffect(place) == place \/ UNCHANGED bookVars

-----------------------------------------------------------------------------
(* run_grid_cycle(). *)

\* Bars, symbol and tick.  A trending market ends the grid's turn if the
\* regime filter is configured.
GridData ==
    /\ pc = "g_data"
    /\ \/ RegimeFilter /\ pc' = "r_data" /\ UNCHANGED quote
       \/ /\ \E c \in Centers, b \in Bids : quote' = [center |-> c, bid |-> b]
          /\ pc' = "g_positions"
    /\ UNCHANGED <<bookVars, open_seen, pending_seen, slips, turns, ok>>

GridPositions ==
    /\ pc = "g_positions"
    /\ open_seen' = open["grid"] /\ slips' = 0
    /\ pc' = "g_orders"
    /\ UNCHANGED <<bookVars, quote, pending_seen, turns, ok>>

GridOrders ==
    /\ pc = "g_orders"
    /\ pending_seen' = pending
    /\ pc' = "BUY"
    /\ UNCHANGED <<bookVars, quote, open_seen, slips, turns, ok>>

\* The lots are added up once per cycle, before the first side.
GridApproved(side) ==
    /\ CheckExposureCap(open_seen, Cardinality(pending_seen), 1)
    /\ CheckDuplicateOrder(pending_seen, side, ReferencePrice(side))

AfterSide(side) == IF side = "BUY" THEN "SELL" ELSE "r_data"

\* Mutant: a raising side ends the cycle.
GridRaisedStops(side) == "done"

\* A raising side is remembered; the other side is still attempted.
GridRaised(side) == AfterSide(side)

GridPlace(side) ==
    LET price == NormalizeLimitPrice(ReferencePrice(side), side)
    IN  PlaceLimit(side, price)

GridSide(side) ==
    /\ pc = side
    /\ turns' = turns \cup {side}
    /\ \/ ~ GridApproved(side) /\ pc' = AfterSide(side) /\ UNCHANGED <<bookVars, ok>>
       \/ /\ GridApproved(side) /\ SubmitEffect(GridPlace(side))
          /\ \/ pc' = AfterSide(side) /\ UNCHANGED ok
             \/ pc' = GridRaised(side) /\ ok' = FALSE
    /\ UNCHANGED <<quote, open_seen, pending_seen, slips>>

\* A read raises (or all_open() does): run_grid_cycle() is over, the runner
\* still gets its turn.
GridReadRaises ==
    /\ pc \in {"g_data", "g_positions", "g_orders"}
    /\ pc' = "r_data" /\ ok' = FALSE
    /\ UNCHANGED <<bookVars, quote, open_seen, pending_seen, slips, turns>>

-----------------------------------------------------------------------------
(* run_runner_cycle(). *)

\* Bars and signal; FLAT means nothing to do.
RunnerData ==
    /\ pc = "r_data"
    /\ \/ pc' = "done" /\ turns' = turns \cup {"RUNNER"}
       \/ Runner /\ pc' = "r_positions" /\ UNCHANGED turns
    /\ open_seen' = 0 /\ pending_seen' = {} /\ slips' = 0
    /\ UNCHANGED <<bookVars, quote, ok>>

RunnerPositions ==
    /\ pc = "r_positions"
    /\ open_seen' = open["runner"]
    /\ pc' = "r_orders"
    /\ UNCHANGED <<bookVars, quote, pending_seen, slips, turns, ok>>

\* The runner has no pending orders of its own.
RunnerOrders ==
    /\ pc = "r_orders"
    /\ pc' = "RUNNER"
    /\ UNCHANGED <<bookVars, quote, open_seen, pending_seen, slips, turns, ok>>

RunnerApproved ==
    /\ CheckExposureCap(open_seen, Cardinality(pending_seen), 1)
    /\ CheckPositionLimit(open_seen)

RunnerSubmit ==
    /\ pc = "RUNNER"
    /\ turns' = turns \cup {"RUNNER"}
    /\ pc' = "done"
    /\ \/ ~ RunnerApproved /\ UNCHANGED <<bookVars, ok>>
       \/ RunnerApproved /\ SubmitEffect(PlaceMarket) /\ (UNCHANGED ok \/ ok' = FALSE)
    /\ UNCHANGED <<quote, open_seen, pending_seen, slips>>

RunnerReadRaises ==
    /\ pc \in {"r_data", "r_positions", "r_orders"}
    /\ pc' = "done" /\ ok' = FALSE /\ turns' = turns \cup {"RUNNER"}
    /\ UNCHANGED <<bookVars, quote, open_seen, pending_seen, slips>>

CycleStep ==
    \/ GridData \/ GridPositions \/ GridOrders
    \/ (\E side \in Sides : GridSide(side)) \/ GridReadRaises
    \/ RunnerData \/ RunnerPositions \/ RunnerOrders \/ RunnerSubmit \/ RunnerReadRaises

-----------------------------------------------------------------------------
(* The account moves on its own. *)

\* A grid order fills.  Between the two reads of a cycle it is in neither.
Fill(o) ==
    /\ o \in pending
    /\ pending' = pending \ {o}
    /\ open' = [open EXCEPT !["grid"] = @ + 1]
    /\ \/ pc # "g_orders" /\ UNCHANGED slips
       \/ pc = "g_orders" /\ slips < MaxSlips /\ slips' = slips + 1
    /\ UNCHANGED <<pc, quote, open_seen, pending_seen, turns, ok>>

\* An order is removed, a position closes (SL/TP, a human).
OrderGone(o) ==
    /\ o \in pending
    /\ pending' = pending \ {o}
    /\ UNCHANGED <<open, cycleVars>>

PositionGone(s) ==
    /\ open[s] > 0
    /\ open' = [open EXCEPT ![s] = @ - 1]
    /\ UNCHANGED <<pending, cycleVars>>

Account ==
    \/ \E o \in pending : Fill(o) \/ OrderGone(o)
    \/ \E s \in Strategies : PositionGone(s)

=============================================================================
