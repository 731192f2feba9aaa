# TLA+ verification of the MT5 MCP trading framework

This directory models the part of the framework that puts orders on a real
(demo) account without a human approving each of them: the order executor with
its local state store, the two strategy cycles with their risk guards, and the
bounded autonomous loop around them.  Around that core it models the scripts an
operator puts account and records in order with, what is concluded from the
broker's deal history (the daily-loss kill switch above all), the way from a
command to a tool call through two processes and their gates, the exit guard,
and the backtest the strategies are judged by.  TLC checks the models on small
instances, TLAPS proves the main safety properties for every instance.  Source paths below
are relative to the repository (`src/mt5_mcp_trading/` is written `mt5/`).

## 1. The system

| Component | State it keeps | Operations | Talks to |
|---|---|---|---|
| Order executor, `mt5/mt5_adapter/mcp_order_executor.py` | none of its own | `submit` (LIMIT, MARKET), `cancel`, `close_position` | state store (reads and writes), broker through the MCP client |
| State store, `mt5/state/store.py` | one JSON file per ticket, replaced atomically | `record_submission`, `mark_sl_tp_attached`, `record_manual_adoption`, `record_cancelled`, `record_closed`, `all_open`, `all_records` | file system |
| Reconciliation and posture, `mt5/state/reconcile.py`, `policy.py`, `sl_tp_artifact.py` | none | compare local records with live tickets; explain MT5's own closing orders from deals | called by the executor |
| MCP client, `mt5/mcp_adapter/client.py` | a session | `call_tool` with a timeout | MCP server, which is outside the repository |
| MT5 account | tickets, stops, deals | fills, triggers stops, carries out calls | humans trade on it too |
| Operator scripts, `scripts/run_demo_execution_*.py` | none | read live state, compare it with a premise, then record, cancel, close, adopt or protect listed tickets; or only report | store and account, each in a session of its own |
| Deal history and daily loss, `mt5/monitoring/live_performance.py`, `mt5/risk/daily_loss_guard.py`, `mt5/mt5_adapter/mcp_deal_history.py` | none | fetch by dates, infer the server's clock, sum what was realized, decide | MCP client, store; called by loop, executor and reports |
| Settings, session and tool registry, `mt5/config/settings.py`, `mt5/execution/composition.py`, `mt5/mcp_adapter/`, `scripts/run_metatrader_mcp_stdio.py` | account kind, `trading_enabled`, processes | load `.env`, pass the gates, start wrapper and server, authorize calls, close | every program that connects |
| Disconnect smoke test, `scripts/run_demo_execution_mcp_disconnect_smoke_test.py` | process listings, noted process ids | find its own processes, kill them, check, clean up | operating system, its own session |
| Strategy cycles, `mt5/pipeline/grid_cycle.py`, `runner_cycle.py` | none across cycles | one cycle: read, guard, submit | executor, account, store |
| Risk guards, `mt5/risk/` | none | exposure cap, duplicate order, position limit, daily loss | called by cycles and loop |
| Autonomous loop, `scripts/run_demo_execution_pipeline_loop.py`, `mt5/pipeline/loop_control.py` | cycle count, start time, decision of the iteration | launch, decide, cycle, polled wait, stop | cycles, deal history, stop file |
| Strategies, features, sizing, planning | none | pure computations | called by the cycles |
| Exit guard, `mt5/strategy/guard.py` | `GuardState`, carried by the caller | `evaluate_guard` | nothing yet: not wired into the live pipeline |
| Backtest, `mt5/backtest/engine.py`, `ledger.py` | replay cursor; pending orders, open positions, closed trades | replay a history bar by bar | runs the strategy cycles against the replayed market |

The program is one process and one task: the repository states that there is no
threading anywhere in its actual usage, and what trades is run one program at a
time.  (`Session`, which is about connections and not about trades, lets any
two run at once: the smoke test is written for that.)  What makes it hard is the other side.  The account moves between any
two awaits: orders fill, stops trigger, humans trade.  A call can be lost before
or after it took effect, or take effect after the client gave up on it.  The
process can die anywhere, and a position is opened and protected by two separate
calls.  The hazards are listed one by one, at their lines, in `PROJECT.json`.

What makes each part correct:

* executor: it never acts past tickets it cannot attribute; a record never
  claims more than is true (protected, closed, cancelled); every operation ends;
* store: a record that says CLOSED stays so;
* cycles: standing exposure is bounded whatever the interleaving; one side or
  strategy failing does not take the turn of another;
* loop: it ends; it stops after an error and after a daily loss;
* operator scripts: no record of a ticket that is still what it was becomes
  terminal; PASSED and CLOSED mean what they say;
* deal history: the inferred clock is the server's; a breached limit is not
  approved; no position is written off by half a close;
* session: trades reach only servers started for a demo account, by programs
  that passed the gate; the smoke test kills its own processes and no others;
* exit guard: one action per bar however often it is polled; a flatten exactly at
  its deadline;
* backtest: nothing depends on bars not yet reached; every fill and exit is on
  the bar where it belongs; no order is lost or traded twice.

## 2. The modules

| Module | Models | State | 
|---|---|---|
| `StateStore` | the store's writes and the pure functions over ticket sets | none (operators on a map from tickets to statuses) |
| `Broker` | the account and the MCP server, external | `kind`, `own`, `attached`, `closes`, `deal`, `late` |
| `OrderExecutor` | the executor and the operator tools, composed with `StateStore` and `Broker` | `store`, `bad`, `pc`, `op`, `target`, locals of the posture check, `tries`, `result`, history `base` |
| `AccountBook` | what a caller of the executor may rely on, refined by `OrderExecutor` | `account`, `records`, `phase`, `doing`, `about`, `suspects` |
| `StrategyCycles` | both cycles with their guards | recorded `pending` orders and `open` positions, `pc`, what the cycle has read, `ok` |
| `PipelineLoop` | the loop, composed with `StrategyCycles` | `lpc`, `cycle_num`, `elapsed`, `waited`, `approved`, `stop_file`, `breach`, history `late_cycles` |
| `Backtest` | the replay, its ledger and both cycles run against it | `bars`, `index`, `pc`, the books `pending`, `open`, `closed`, `next_ticket` |
| `LookAhead` | two instances of `Backtest` in lockstep | both ledgers, common `index` and `pc` |
| `ExitGuard` | `evaluate_guard` and its polling caller, with its theorems | guard state, last closed bar, positions, history `acts`, `quiet` |
| `OperatorScripts` | the operator scripts as rows of a table, composed with `OrderExecutor` | `script`, `spc`, tickets it lists, what it has read, acts done, `verdict`, history `before` |
| `DealHistory` | every caller of `get_deals()` and the computations on its answer | clock, server's skew, records, `deals`, the waiting `call`, its `answer` |
| `Session` | settings, gates, registry, client, wrapper; the disconnect smoke test | `.env`, per program its kind, registry and processes; calls on their way; the test's listings and kills |
| `OrderExecutorProofs`, `OperatorScriptsProofs`, `DealHistoryProofs`, `PipelineLoopProofs`, `BacktestProofs`, `LookAheadProofs`, `SessionProofs` | theorems | |
| `MCOrderExecutor`, `MCPipelineLoop`, `MCOperatorScripts`, `MCDealHistory`, `MCSession`, `MCBacktest`, `MCLookAhead`, `MCExitGuard`, `MCHistories` | instances for TLC | |

### Executor

Every `await` of the code is a step; what runs between two awaits is one step.
`submit()` goes through `gate` (account gate and `all_open`), `positions`,
`orders`, `deals` (only for unattributed tickets), `decide`, `place`, `placed`
(the answer is on its way), `verify`, and for MARKET `modify`, `modified`,
`verify_sltp`.  `cancel` and `close_position` share the check and go through
`volume`, `act`, `acted`, `confirm`.  A call is split into the broker carrying it
out and the answer arriving, because the process can lose the answer or die in
between (`AnswerLost`, `RequestLost`, `Crash`).  `RequestOverdue` leaves a
request behind that `Broker` may carry out at any later time.

A record is abstracted to its status.  `bad` is the set of tickets whose file
cannot be read: `all_open` then raises and every operation refuses.  MT5's own
closing order of a triggered stop (the "artifact") is a ticket with owner
`artifact`; `deal[a] = "matching"` stands for the conjunction of the comparisons
of `_explain_one` (one closing deal, linked, volume, side, comment, price, time).

`base` is a history variable: the unattributed tickets on the account when
`all_open` was read.  It is what the posture check is judged against.

`AccountBook` says the same without reads, answers and retries: an operation
looks at account and records in one instant (`Look`), may go on only if nothing
it suspects is still there (`Clear`), does at most one thing to one ticket
(`Place`, `Remove`), writes down what it did (`Record`, `Protect`, `Confirm`),
and can be left at any point; the account moves one ticket at a time, always
onward (`Move`).  `Book` maps the executor to it: `kind` to `account` (a request
on its way is nothing yet), the steps of an operation to five phases, and
`SteadyUnknown` to `suspects`.

Not modelled here: retcodes other than 10009 for an executed order (partial
fills), the second account gate's warning, volumes other than full closes.

### Operator scripts

Some fifty scripts of the repository do the same few things to different ticket
lists, so a script is a row: which reads it makes in which order, how it chooses
its tickets, which views of a ticket its premise allows, what it does for each,
whether one ticket's exception is caught, what it reads again at the end.  The
actions interpret the row, one step per await, with the executor's own steps in
between where the script calls `cancel()` or `close_position()`.  `before` is a
history variable: what each ticket was when the script started.  `LeftTickets`
is what stopped runs can leave behind; the script starts from any such account
and store.  Rows that are equal are one in the instance.

### Deal history

Deals carry their true time; `ServerTime` is what the program sees, and
`GetDeals` compares it with midnights, since dates are what the code asks with.
Each caller is a row: where its window begins and ends, whose records it trusts,
what it concludes.  Between `Ask` and `Answered` positions open, fill and close.
`ExplainOne` has the comparisons of `_explain_one`; symbol, side, comment and
price are one bit of the deal (`stop`), volumes and links are explicit.

`get_deals()` reading a date as its first instant is external; the repository
says so in `tests/integration/test_pipeline_loop_daily_loss_wiring.py:169`.

### Session

Every program that connects is an entry point: does it go through
`demo_execution_session()`, does it trade with the executor or with the client,
does it prove that it cannot.  The program reads `.env`, the wrapper is another
process that reads it again, and what the client hands it of the program's
variables is left open (nothing or all: both happen, depending on the platform
and the MCP library).  A connection is a chain of processes; `Layers` is 2 where
a venv stub starts the interpreter as its child, as on the repository's machine.
A trade that was sent is carried out at any later time while the server lives.

The smoke test compares two listings to find the processes of its own
connection.  A listing may fail, which in the code looks like an empty one.
Killing by a single id hits what was listed under it: ids are not reused.  It
may fail like the kill of the tree (an id that is gone, a refused access): the
script does not look at the exit status of `taskkill`.  `listed` remembers
whether the last round had a complete listing and killed all it meant to.

### Cycles and loop

A cycle reads market data, positions and orders in separate steps, then decides
about BUY, SELL and the runner's market order.  Lots are units of 0.01, prices
are points.  `submit()` appears by its outcomes: the recorded order is there or
not, independently of whether it returned or raised.  An order that was placed
without a record is not counted by the caps in the code (they count recorded
tickets) and is the subject of `OrderExecutor`.  `GridExposure` and `RunnerLimit`
are bounds on recorded tickets for that reason.

`MaxProjected` is the largest projected total that passes the cap.  The code
compares floats: 0.05 + 0.01 > 0.06, however the five are split into open and
pending, so caps of 0.06 mean `MaxProjected = 5`.

The deal history is one bit, `breach`: today's realized loss of recorded tickets
is over the limit.  A failing computation counts as a breach, as in the code.

### Backtest

A replay is deterministic once the history is chosen; `Init` chooses it.  For
every bar `CheckFillsAndExits` is one step, then `GridCycle` and `RunnerCycle` on
bars where a cycle is due: nothing else runs, so no finer steps are needed.
Prices are integers in half points, so half a spread is exact and rounding to a
point can go either way (`Snap`, half to even as Python's `round`).  Indicators
are constant operators of the visible window and volumes are one unit.

The ledger's dictionaries are sets of records, so the order in which one bar
fills and closes several tickets is not visible; no property depends on it.
`placed_at` is kept on positions as a history of the order.  `cancel` and
`close_position` of `BacktestOrderExecutor` have no caller in a replay.

`LookAhead` runs two replays of histories of equal length side by side.  That a
result does not depend on the future is a statement about two runs, and this
composition turns it into an invariant.

### Exit guard

The caller is external: it polls at any time, sees any positions, and may skip
bars.  Of bar times only one thing is compared, whether the last closed bar is
the one evaluated last, so a bar is `new` or `evaluated`.  `acts` counts the
actions asked for on the last closed bar, `quiet` the bars evaluated since the
last partial close.

## 3. What TLC checks

| Run | Instance | Shows |
|---|---|---|
| `executor` | 2 tickets, all operations of the executor, all disturbances | `IndInv`, `NoBlindSubmit`, `NoBlindManagement`, `OpenIsProtected`, `RecordedBeforeProtected`, `CancelledNeverFilled` |
| `stop_closes` | 3 tickets, humans and stops, leftover script and adoption next to the executor | `ClosedIsClosed`, `ClosedIsFinal`, `StopsAreAccounted`, with a position, its artifact and a third ticket at once |
| `termination` | 2 tickets, all five operations, 3 reads, fair | `OperationEnds`; `BookIsKept`: `OrderExecutor` implements `AccountBook` |
| `loop` | caps scaled to 2, 3 order ids, one slip, 2 cycles, filter on | `LoopInv`, `GridExposure`, `RunnerLimit`, `TurnsAreIndependent`, `KillSwitch`, and under fairness `LoopStops` |
| `backtest` | all histories of 6 bars of 5 kinds, window 2, cycle every 2nd bar | `ReplayInv`, `LedgerFollowsBars`, `TicketsConserved`, `StopsAreApart` |
| `look_ahead` | all pairs of histories of 5 bars of 3 kinds | `NoLookAhead` |
| `exit_guard` | deadline of 6 bars | `GuardInv`, `OneActionPerBar`, `FlattenIsDue` |
| `scripts` | 2 tickets, all rows, 1 read, humans, stops, damaged files, crashes | `ScriptInv`, `ClosedNeedsDeal`, `PassedIsGone`, `SparesLive` (`OpenIsProtected` is part of `ScriptInv`) |
| `deals` | 2 tickets, a day of 12 ticks, servers a quarter ahead or behind, a period over a midnight and a reset | `HistoryInv`, `OffsetIsExact`, `MisdatedOnlyNearReset`, `NoLossApproved`, `MissedOnlyNearMidnight`, `EvidenceIsComplete` |
| `session` | 2 programs, 13 entry points, 2 crashes | `SessionTypeOK`, `TradesAreForDemo`, `ProofIsHarmless`, `KillsOnlyOwn`, `TreeIsGone` |
| `race_unattributed` | 2 tickets, LIMIT, human | violated: README claim about unattributed tickets |
| `late_deal` | as `deals`, the loop only | violated: docstring claim that no deal is missed |

Bounds.  Two tickets are an own and a foreign one, or a position and its
artifact; the third in `stop_closes` puts an own position, its artifact and an
unattributed ticket side by side.  No property relates more.  Tickets are
interchangeable, so the safety runs use symmetry; the liveness run does not.
Two verification reads contain the first, the repeated and the last one;
`termination` uses the code's three.  `OrderIds` bounds the pending orders,
`MaxSlips` the fills between two reads of one cycle; scaled caps leave room on
both sides of the boundary; two cycles and a wait of two polls contain every
transition of the loop, and relaunches make runs of any number of cycles.
The proofs need none of these bounds except that `MaxSlips` is a parameter of
the exposure bound.

The five kinds of bar are a quiet one, a rise, a fall, one so wide that it
touches orders, stops and targets at once, and one that gaps over the levels.
Six bars with a window of two leave five bars to replay: cycles on three of
them, fills and exits on bars with and without a cycle, and orders still pending
at the end.  The guard needs no bound: its state is finite.

In `scripts` two tickets are a listed one and another, or a position and the
closing order of its stop; rows differ in reads and acts, not in the number of
tickets, and one verification read of the executor is enough since `executor`
covers the retries.  In `deals` a quarter of three ticks is the smallest with
room for a latency below half of it; the period begins before a midnight and
reaches the reset that follows, two deals are an opening and a closing one,
or two parts of a close, and positions opened long ago, by the program or by a
human, bring in deals outside the window and adoptions between two partial
closes.  In `session` two programs are the smoke test beside another
connection, or any other pair; one process per script already makes chains of a
wrapper and a server, and `SessionProofs` covers every number.

Fairness.  `FairSpec` asks for weak fairness of the running operation's steps
(`Step`), or of `main()`'s (`Main`), and of nothing else: no fill, human or
repair is ever assumed.  The code justifies it: reads and calls return, raise or
end in `McpCallTimeoutError` after the timeout of `call_tool`, retry loops are
bounded, sleeps end.  Some disjunct of `Step` is enabled wherever an operation
can be, since every call can at least fail.

Deadlock is not checked where the system stops: a replay ends with its history,
a script and a program end, the period of `deals` is over.

## 4. Disagreements with the documentation

1. `race_unattributed`.  The posture check reads positions, then orders.  An
   unattributed pending order that fills in between is in neither answer, and
   `submit()` proceeds.  `NoBlindSubmit` is what does hold: a ticket that stays
   what it is during the check is never missed.
2. `late_deal`.  The end of the fetch window is tomorrow's date, which is read
   as its first instant.  With the server k hours ahead of UTC, deals of the last
   k hours of the UTC day have a server time past it: the kill switch does not
   see them until the next day.  `MisdatedOnlyNearReset` and `NoLossApproved` are
   what does hold.

Met on the way, and stated here rather than as runs of their own:

* The docstring of `run_demo_execution_live_performance_monitor.py` (lines 18-23)
  says that a window from the date of the earliest `submitted_at` "guarantees the
  query window covers every locally closed record".  It does not: the date is UTC
  and is read as a midnight of server time.  On a server k hours behind UTC, a
  position opened and closed in the first k hours of that date has deals the
  server dates the day before, and its record is skipped, in this report and in
  later ones, until a record submitted on an earlier date is closed too.  On a server k hours ahead, a position closed in the last k hours of the
  day of the report is past `to_date`, as in 2, and skipped until the next day.
  Both happen in `deals`; they are the two exceptions of
  `MissedOnlyNearMidnight`, which says that there is no other, and neither can be
  left out of it: TLC then finds such a report.
* An exception of the verification read that follows a MARKET placement leaves
  `submit()` as it is, not as `SlTpAttachmentFailedError`, and before
  `modify_position` was attempted (`mcp_order_executor.py:410`); so do an
  unreadable answer and the read after it.  The record still says
  `OPEN_UNPROTECTED` (`OpenIsProtected`).
* The leftover scripts have the same pair of reads as 1.  A pending order that
  fills between them is in neither, and becomes CANCELLED or, in the scripts
  that go by absence alone (`step25_reconcile_leftover_tickets`), CLOSED.
  `SparesLive` is what holds: a ticket that stays what it is.
* The caps count one magic, so grid and runner add up on the one symbol.
* The duplicate guard compares the reference price, the order stands at the
  normalized one: a grid order moved away from the market is placed again by the
  next cycle with the same levels, up to the cap (`GridExposure`).
* If the smoke test's own processes die before its second listing and another
  program of the same interpreter connects meanwhile, it takes that one's tree
  for its own: the exception in `KillsOnlyOwn`.
* `_hard_kill_single` ignores the exit status of `taskkill`, and the cleanup kills
  once without another look: a refused kill leaves a process of the tree behind
  and nothing says so.  Hence the condition `listed` in `TreeIsGone`.

`run_grid_cycle` has the same pair of reads as 1: every order that
fills between them lets one more through the cap, so the bound that holds is
`GridExposure`, with the number of such fills in it.

## 5. What TLAPS proves

For every set of tickets, every selection of operations and disturbances and
every number of attempts (`OrderExecutorProofs`; assumptions: `NoTicket` is not
a ticket, `Ops` and `Hazards` are drawn from the known ones, `Attempts` is
positive):

* `IndInvHolds`, and from it `TypeCorrect`, `SubmitIsNeverBlind`,
  `ManagementIsNeverBlind`, `NoPositionIsForgotten`, `OpenMeansProtected`,
  `RecordPrecedesProtection`, and the action property `ClosedStaysClosed`.

None of the properties is inductive alone.  `NoPositionIsForgotten` needs to know
that a deal in the history means a closed position (`BrokerInv`) and that between
a served close and its record the ticket stays closed (`RecordInv`: `WrittenInv`,
what a record says of the ticket, and `ClosedIsClosed`).
`RecordPrecedesProtection` needs that a late `modify_position` only concerns
recorded tickets.  `SubmitIsNeverBlind` needs what the check has seen at each of
its stages (`CheckInv`): after the first read every steady position is in `seen`,
after the second every steady ticket is in `unknown_real`, and an explanation
never removes one, because only artifacts have deals.  The step lemmas follow
these layers: `TypeStep`, `BrokerStep`, `WrittenStep`, `RecordStep`, `CheckStep`,
`BookStep`.

* `BookIsImplemented`: `BookIsKept`, the refinement of `AccountBook`.  Every step
  of the account is a `Move` of one ticket or nothing (`BookEnvironment`), and
  `suspects` shrinks by exactly that ticket, since nothing becomes steady again
  (`BookMoves`).  `LoadLocal` is the `Look`; that the two reads after it add up to
  it is what `CheckInv` says when the check is passed, so `Clear` holds.  The
  rest needs `BookInv`: the snapshot is gone once the call is made, what was read
  from the store still stands when stops are written off, and the record of the
  running submission is the one it wrote.  TLC checks the refinement without
  late requests and damaged files, which the book cannot tell from a market
  event and a refusal; the proof has them.

* `StopsAreWrittenOff`: the action property `StopsAreAccounted`.  Besides
  `IndInv` it needs that what the check started from stays recorded (`LocalInv`)
  and that a listed closing order is unattributed until the check writes its
  position off (`StopInv`).
* `CancelledMeansNeverFilled`: `CancelledNeverFilled`, assuming that the leftover
  script is not among the operations (an order that fills between its two
  reads becomes CANCELLED, and with it the property is false).  Only the cancel
  writes that status, and it does so when its order is gone for good
  (`TerminalStep`).

For all prices, caps, limits and numbers of slips (`PipelineLoopProofs`;
assumptions: prices are integers, limits are naturals, the interval is positive,
finitely many order ids):

* `LoopInvHolds`, and from it `GridIsBounded`, `RunnerIsBounded`,
  `KillSwitchWorks`, `TurnsAreKept`.

`GridIsBounded` rests on how far the reads can be behind: the account holds at
most what was read, plus the slips, plus one if BUY was placed already.
`KillSwitchWorks` rests on the fact that an approval standing at the check while
the breach is visible was taken before the breach, so no cycle has begun since.
`TurnsAreKept` needs at each step of a cycle whose turns are over (`TurnInv`).

For all bars, histories, windows, intervals, spreads, caps and indicators
(`BacktestProofs`; assumptions: prices are integers with low <= close <= high,
the history is at least as long as the window, and neither strategy's floor for
a stop distance is below one point):

* `ReplayInvHolds`, and from it `LedgerIsFaithful`, `RiskIsNeverZero` and
  `TicketsAreConserved`.

`LedgerFollowsBars` speaks about bars already checked, so it is inductive only
with `DatesAreChecked`: nothing in the ledger is dated after the last checked
bar, so a new bar extends the ranges it quantifies over by that bar alone.
`RiskIsNeverZero` is arithmetic about rounding: a grid entry is already a whole
point, so rounding the stop moves it by at most half a point; a market fill may
be a half point, and a distance of one point still survives.  `TicketsConserved`
counts entries, so it needs that no ticket is in a book twice or in two books
(`BooksInv`): a fill or a close then moves one entry from one finite set to
another.

`LookAheadProofs` proves `ReplaysNeverLookAhead`: two replays of histories that
agree up to the current bar have equal ledgers.  Each action's effect is a
function of the window, the current bar and the ledger, and all three agree; if
the next bar differs, the premise is false from then on.

`ExitGuard` proves `GuardInvHolds`, `GuardActsOncePerBar` and
`GuardFlattensWhenDue` for every deadline.  The invariant ties the countdown to
the history: a running deadline plus the bars evaluated since the last partial
close is `deadline_bars`.

For any number of programs, any number of processes per script and any entry
points (`SessionProofs`; assumptions: entry points that prove they cannot trade
are read-only ones, the smoke test is a demo-execution session):

* `SessionTypes`, `TradesOnlyForDemo`, `ProofNeverTrades`, `KillsOwnTree`,
  `TreeDies`.

The invariant has one layer per actor.  `GateInv`: trading is enabled only behind
the gate, and a server runs only behind the wrapper's.  `CallInv`: calls come
from programs with trading enabled.  `SeenInv`: what the two listings contain.
`TreeInv`: the confirmed tree belongs to one program.  That rests on a
least-element argument along the chain of processes (`OneProgram`): the first
process of every program in a set of processes has no parent in it, so a set
with one root has processes of one program.  `KillInv`: only the noted tree is killed.

For every account, every set of amounts and every moment a request is made at
(`DealHistoryProofs`; assumptions: finitely many tickets; the server's clock is a
whole number of quarter hours, and less than a day, from UTC; twice the latency
of a fill is less than a quarter hour; the callers are rows of the table):

* `HistoryInvHolds`, and from it `OffsetIsFound`, `OnlyNearReset`, `LossStops`,
  `ReportsMissOnlyNearMidnight`, `EvidenceIsSound`.

`OffsetIsExact` is arithmetic about a median.  A MARKET order is recorded within
the latency after its only opening deal (`AccountInv`), so each difference rounds
to the same quarter (`RoundedIsNearest`); a value of the middle rank exists
(`RankExists`), and it is the server's offset because all of them are.  The
request carries the dates it was made with while the account moves on, and
nothing moves while its answer is worked on (`CallInv`).  The boundary the code
computes is the last reset (`BoundaryIsLastReset`).  `LossStops` compares the
code's sum with the true one without computing either: if no deal is misdated
the two sets of deals are equal.

`ReportsMissOnlyNearMidnight` needs more than the dates: the window starts with
the first record, and an adopted position has closing deals older than its
record, as has a MARKET position whose stop fires before it is recorded.
`ClosingInv` says that every position that is gone has a closing deal since its
record, less a latency: adoption takes only what is still there, a record is
closed only when its position is gone, and while a request waits no closed record
reopens.  That deal is before the window only if the server is less than a
latency ahead, that is, not ahead (`NotAhead`), and after it only past the
server's midnight (`NextMidnight`).

For every selection of rows of the table, every set of tickets, operations,
disturbances and attempts (`OperatorScriptsProofs`; assumptions: those of
`OrderExecutor`, and `Scripts` are rows of the table):

* `ScriptInvHolds`, and from it `DealsAreEvidence`, `PassedMeansGone`,
  `OpenStillMeansProtected`, and the action property `ScriptsSpareLive`.

`RowsOK` states what every row of the table has in common, and the steps argue
from that alone.  The scripts write the store as well, and some record CLOSED
because nothing is listed, so `ClosedIsClosed` is not part of `ExecutorInv`.
`ScriptsSpareLive` rests on time: a ticket only moves forward (`ForwardInv`), so
one that is live and unchanged now was so at every read of the script, and is in
every listing it made (`ReadInv`); the decision was taken on those listings
(`DecidedInv`), hence never on that ticket's absence.  `PassedMeansGone` rests on
the last look, or, in scripts without one, on what the decision already excluded.

Only model-checked: the liveness properties `OperationEnds` and `LoopStops`, out
of the prover's reach.  What a fold computes over any set of deals (`Pnl`) is
induction over data, and no proof depends on it.

## 6. Not modelled, and the plan

Left out:

* text formats and parsing of the MCP answers (`metatrader_parsing.py`, the bodies
  of `mcp_account.py` and `mcp_market_data.py`), plain data types, logging and
  what scripts print;
* indicator arithmetic on floats, and the money modes of `sizing/money.py`: every
  production entry point uses the fixed lot;
* the extended MCP server: it is the account's side, modelled by `Broker`;
* research scripts that run backtests over parameter grids, random walks and
  windows: they change nothing and their numbers are floats;
* the cache of bars (`market_data_cache.py`), `metrics.py`, `compute_slippage()`;
* the one-time migration of the store, and process ids that are reused.

Next, in this order:

1. `breach` of `PipelineLoop` refined by `DealHistory`, and `submit()` of
   `StrategyCycles` by `AccountBook`.
2. Sizing and order planning (`decide_lot`, `build_order_plan`) over bounded
   inputs; the backtest's metrics against a reference definition.
