---------------------------- MODULE DealHistory ----------------------------
(***************************************************************************)
(* What the program concludes from the broker's deal history               *)
(* (monitoring/live_performance.py, risk/daily_loss_guard.py,              *)
(* state/sl_tp_artifact.py and their callers).  Deals are stamped with     *)
(* server time but read as UTC; the difference is not configured but       *)
(* inferred from the MARKET orders of the history that was asked for, and  *)
(* the history is asked for by calendar dates.  Each caller is a row of    *)
(* the table below; the call to get_deals() is awaited, and time, orders   *)
(* and stops go on meanwhile.                                              *)
(*                                                                         *)
(* Time is counted in ticks of UTC.  What a deal pays is an integer.  A    *)
(* closing deal is of a "stop" order if symbol, side, comment and price    *)
(* fit the stop of its position's record; its volume is half or all of it. *)
(***************************************************************************)
EXTENDS Integers, FiniteSets, FiniteSetsExt

CONSTANTS
    Tickets,
    Callers,        \* the rows that may run in this instance
    Day,            \* ticks per day
    Quarter,        \* ticks per quarter of an hour
    Skews,          \* server time minus UTC, in whole quarters
    Latency,        \* bound: ticks from a MARKET fill to its record
    ResetHour,      \* reset_hour_utc, in ticks
    MaxLoss,        \* max_daily_loss, or NoLimit
    NoLimit,
    Amounts,        \* what a closing deal may pay
    Fee,            \* what an opening deal costs
    Start, Horizon, \* bound: the period looked at
    Old,            \* when positions of earlier periods were opened
    MaxDeals        \* bound: deals after the old ones

\* A call gives up after 30 seconds, so a fill is recorded well within half a
\* quarter of an hour; servers are whole quarters away, and less than a day.
ASSUME TimeAssumption ==
    /\ Day \in Nat \ {0} /\ Quarter \in Nat \ {0} /\ Latency \in Nat /\ 2 * Latency < Quarter
    /\ \A s \in Skews : s \in Int /\ s % Quarter = 0 /\ -Day < s /\ s < Day
    /\ ResetHour \in 0 .. Day - 1
    /\ Start \in Int /\ Horizon \in Int /\ Start <= Horizon /\ Old \in Int /\ Old <= Start

ASSUME TicketsAssumption == IsFiniteSet(Tickets)

ASSUME MoneyAssumption ==
    /\ MaxLoss = NoLimit \/ MaxLoss \in Nat
    /\ Fee \in Nat /\ \A a \in Amounts : a \in Int

VARIABLES
    now, skew,
    type, status, submitted,    \* the records; status "NONE" without one
    volume,                     \* what is left of each position, in halves
    deals,                      \* the history, with true times
    call,                       \* the caller waiting for get_deals(), or idle
    answer                      \* what the last call concluded

vars == <<now, skew, type, status, submitted, volume, deals, call, answer>>

-----------------------------------------------------------------------------
(* Dates. *)

Midnight(t) == t - (t % Day)

\* The most recent reset at or before t.
DailyResetBoundary(t) ==
    LET b == Midnight(t) + ResetHour
    IN  IF b > t THEN b - Day ELSE b

ServerTime(d) == d.at + skew

\* get_deals(from_date, to_date): dates are read as midnights, of server time.
GetDeals(from, to) == {d \in deals : from <= ServerTime(d) /\ ServerTime(d) <= to}

-----------------------------------------------------------------------------
(* Records and the time offset. *)

Recorded == {t \in Tickets : status[t] # "NONE"}
AllClosed == {t \in Tickets : status[t] = "CLOSED"}

Ins(D, t)  == {d \in D : d.pos = t /\ d.entry = "in"}
Outs(D, t) == {d \in D : d.pos = t /\ d.entry = "out"}

\* Mutant: LIMIT orders, which fill much later, count as well.
ReferencesOfAnyType(records, D) == {t \in records : Ins(D, t) # {}}

\* MARKET orders with their opening deal in the history.
References(records, D) == {t \in records : type[t] = "MARKET" /\ Ins(D, t) # {}}

RawDiff(D, t) == Min({ServerTime(d) : d \in Ins(D, t)}) - submitted[t]

\* The k-th smallest of the differences of references R, counted from zero.
Ranked(D, R, k) ==
    CHOOSE x \in {RawDiff(D, t) : t \in R} :
        /\ Cardinality({t \in R : RawDiff(D, t) < x}) <= k
        /\ Cardinality({t \in R : RawDiff(D, t) <= x}) > k

\* Twice the median: the middle one twice, or the two in the middle.
MedianTwice(D, R) ==
    Ranked(D, R, (Cardinality(R) - 1) \div 2) + Ranked(D, R, Cardinality(R) \div 2)

\* round() of half of x in quarters: to the nearest, to even in the middle.
RoundedQuarters(x) ==
    LET q == x \div (2 * Quarter)
        r == x % (2 * Quarter)
    IN  IF r < Quarter \/ (r = Quarter /\ q % 2 = 0) THEN q ELSE q + 1

\* Mutant: the median as it is.
InferDealTimeOffsetRaw(records, D) ==
    LET R == References(records, D)
    IN  IF R = {} THEN 0 ELSE MedianTwice(D, R) \div 2

\* `... or timedelta(0)': zero if there is nothing to infer it from.
InferDealTimeOffset(records, D) ==
    LET R == References(records, D)
    IN  IF R = {} THEN 0 ELSE RoundedQuarters(MedianTwice(D, R)) * Quarter

-----------------------------------------------------------------------------
(* Conclusions. *)

\* Mutant: the correction is added.
CountedSinceAdded(D, since, trusted, offset) ==
    {d \in D : d.pos \in trusted /\ ServerTime(d) + offset >= since}

\* The deals realized_pnl_since() sums.
CountedSince(D, since, trusted, offset) ==
    {d \in D : d.pos \in trusted /\ ServerTime(d) - offset >= since}

Pnl(D) == MapThenSumSet(LAMBDA d : d.pays, D)

\* Mutant: the limit has to be passed.
WithinLimitStrict(pnl) == MaxLoss = NoLimit \/ ~ (pnl < 0 /\ -pnl > MaxLoss)

\* check_daily_loss_limit().
WithinLimit(pnl) == MaxLoss = NoLimit \/ ~ (pnl < 0 /\ -pnl >= MaxLoss)

\* build_closed_trades(): the records that become trades; one whose position
\* has no closing deal is skipped.  Prices, and a record skipped for the want
\* of one, are left out.
ClosedTrades(records, D) == {t \in records : Outs(D, t) # {}}

\* Mutant: _volume_matches() left out.
ExplainOneOfAnyVolume(t, D, local_open, offset) ==
    LET closing == {d \in Outs(D, t) : d.order = "stop"}
    IN  /\ \E d \in closing : closing = {d} /\ ServerTime(d) - offset >= submitted[t]
        /\ t \in local_open

\* _explain_one(): the order a stop of position t left on the account has one
\* closing deal, of the whole position, which fits its record and is not
\* older than it.
ExplainOne(t, D, local_open, offset) ==
    LET closing == {d \in Outs(D, t) : d.order = "stop"}
    IN  /\ \E d \in closing : closing = {d} /\ d.whole /\ ServerTime(d) - offset >= submitted[t]
        /\ t \in local_open

-----------------------------------------------------------------------------
(* The callers: from when deals are asked for, and whose deals count. *)

Caller(from, records, concludes) == [from |-> from, records |-> records, concludes |-> concludes]

ComputeDailyLossDecision    == Caller("boundary", "all", "limit")
VerifyKillSwitchFix         == Caller("boundary", "all", "limit")
CheckRerunKillSwitch        == Caller("boundary", "closed", "limit")
LivePerformanceMonitor      == Caller("earliest", "all", "trades")
CheckRunnerParamSplit       == Caller("earliest", "all", "trades")
ExplainUnknownReal          == Caller("yesterday", "all", "evidence")

AllCallers == {ComputeDailyLossDecision, VerifyKillSwitchFix, CheckRerunKillSwitch,
               LivePerformanceMonitor, CheckRunnerParamSplit, ExplainUnknownReal}

ASSUME CallersAssumption == Callers \subseteq AllCallers

Idle     == [row |-> "idle"]
NoAnswer == [of |-> "none"]

Trusts(row) == IF row.records = "all" THEN Recorded ELSE AllClosed

FetchFrom(row, t) ==
    CASE row.from = "boundary"  -> Midnight(DailyResetBoundary(t) - Day)
      [] row.from = "yesterday" -> Midnight(t - Day)
      [] row.from = "earliest"  -> Midnight(Min({submitted[r] : r \in AllClosed}))

\* Mutant: up to the present moment, as the monitor once did.
FetchToNow(t) == t

FetchTo(t) == Midnight(t + Day)

\* now, the dates and the request.  The limit is not computed when there is
\* none, and there is nothing to report without a closed record.
Ask(row) ==
    /\ call = Idle /\ answer = NoAnswer
    /\ row.concludes = "limit" => MaxLoss # NoLimit
    /\ row.from = "earliest" => AllClosed # {}
    /\ call' = [row |-> row, at |-> now, from |-> FetchFrom(row, now), to |-> FetchTo(now),
                open |-> {t \in Tickets : status[t] = "OPEN"}, closed |-> AllClosed]
    /\ UNCHANGED <<now, skew, type, status, submitted, volume, deals, answer>>

\* get_deals() or a record file raises: the loop takes it for a breach, the
\* executor leaves everything unexplained, a report ends.
AskFails ==
    /\ call # Idle
    /\ answer' = [of |-> "failed", approved |-> FALSE, explained |-> {}, asked |-> call]
    /\ call' = Idle
    /\ UNCHANGED <<now, skew, type, status, submitted, volume, deals>>

\* The answer and everything concluded from it; no await in between.
Answered ==
    /\ call # Idle
    /\ LET D == GetDeals(call.from, call.to)
           offset == InferDealTimeOffset(Trusts(call.row), D)
           counted == CountedSince(D, DailyResetBoundary(call.at), Trusts(call.row), offset)
           explained == {t \in call.open : ExplainOne(t, D, call.open, offset)}
       IN /\ answer' = [of |-> call.row.concludes, asked |-> call, offset |-> offset,
                        known |-> References(Trusts(call.row), D) # {},
                        counted |-> counted, approved |-> WithinLimit(Pnl(counted)),
                        trades |-> ClosedTrades(call.closed, D),
                        explained |-> IF call.row.concludes = "evidence" THEN explained ELSE {}]
          /\ status' = [t \in Tickets |-> IF t \in answer'.explained THEN "CLOSED" ELSE status[t]]
    /\ call' = Idle
    /\ UNCHANGED <<now, skew, type, submitted, volume, deals>>

Forget ==
    /\ answer # NoAnswer /\ answer' = NoAnswer
    /\ UNCHANGED <<now, skew, type, status, submitted, volume, deals, call>>

-----------------------------------------------------------------------------
(* The account and the rest of the program. *)

Deal(t, e, at, pays) ==
    [pos |-> t, entry |-> e, at |-> at, pays |-> pays, order |-> "other", whole |-> FALSE]

Opened == {t \in Tickets : Ins(deals, t) # {}}
Unused(t) == type[t] = "none"

\* A MARKET order of the program: filled up to Latency ticks before its record.
PlaceMarket(t) ==
    /\ Unused(t) /\ call = Idle
    /\ \E l \in 0 .. Latency : deals' = deals \cup {Deal(t, "in", now - l, -Fee)}
    /\ type' = [type EXCEPT ![t] = "MARKET"] /\ status' = [status EXCEPT ![t] = "OPEN"]
    /\ submitted' = [submitted EXCEPT ![t] = now] /\ volume' = [volume EXCEPT ![t] = 2]
    /\ UNCHANGED <<now, skew, call, answer>>

PlaceLimit(t) ==
    /\ Unused(t) /\ call = Idle
    /\ type' = [type EXCEPT ![t] = "LIMIT"] /\ status' = [status EXCEPT ![t] = "OPEN"]
    /\ submitted' = [submitted EXCEPT ![t] = now]
    /\ UNCHANGED <<now, skew, volume, deals, call, answer>>

Fill(t) ==
    /\ type[t] = "LIMIT" /\ t \notin Opened
    /\ deals' = deals \cup {Deal(t, "in", now, -Fee)} /\ volume' = [volume EXCEPT ![t] = 2]
    /\ UNCHANGED <<now, skew, type, status, submitted, call, answer>>

\* A human's position, and its adoption by the program.
HumanOpens(t) ==
    /\ Unused(t)
    /\ type' = [type EXCEPT ![t] = "EXTERNAL"]
    /\ deals' = deals \cup {Deal(t, "in", now, -Fee)} /\ volume' = [volume EXCEPT ![t] = 2]
    /\ UNCHANGED <<now, skew, status, submitted, call, answer>>

RecordManualAdoption(t) ==
    /\ type[t] = "EXTERNAL" /\ status[t] = "NONE" /\ volume[t] > 0 /\ call = Idle
    /\ status' = [status EXCEPT ![t] = "OPEN"] /\ submitted' = [submitted EXCEPT ![t] = now]
    /\ UNCHANGED <<now, skew, type, volume, deals, call, answer>>

\* Half or all of a position is closed, by its stop or otherwise; perhaps
\* just before its record was written.
Close(t, v, order, pays) ==
    /\ v <= volume[t]
    /\ \E l \in 0 .. Latency :
          /\ l > 0 => submitted[t] = now /\ \A d \in Ins(deals, t) : d.at <= now - l
          /\ deals' = deals \cup
                {[Deal(t, "out", now - l, pays) EXCEPT !.order = order, !.whole = v = 2]}
    /\ volume' = [volume EXCEPT ![t] = @ - v]
    /\ UNCHANGED <<now, skew, type, status, submitted, call, answer>>

\* The record of a position that is gone, or of an order that never filled,
\* becomes CLOSED (executor or operator script).
RecordClosed(t) ==
    /\ status[t] = "OPEN" /\ volume[t] = 0 /\ call = Idle
    /\ status' = [status EXCEPT ![t] = "CLOSED"]
    /\ UNCHANGED <<now, skew, type, submitted, volume, deals, call, answer>>

\* A call gives up within a tick.
Tick ==
    /\ now < Horizon /\ now' = now + 1
    /\ call # Idle => now = call.at
    /\ UNCHANGED <<skew, type, status, submitted, volume, deals, call, answer>>

Market(t) ==
    /\ Cardinality({d \in deals : d.at > Old}) < MaxDeals
    /\ answer = NoAnswer
    /\ \/ PlaceMarket(t) \/ Fill(t) \/ HumanOpens(t)
       \/ \E v \in {1, 2}, order \in {"stop", "other"}, pays \in Amounts : Close(t, v, order, pays)

Init ==
    /\ now = Start /\ skew \in Skews
    /\ \E old \in SUBSET Tickets : \E own \in SUBSET old :
          /\ type = [t \in Tickets |-> IF t \in own THEN "MARKET"
                                     ELSE IF t \in old THEN "EXTERNAL" ELSE "none"]
          /\ status = [t \in Tickets |-> IF t \in own THEN "OPEN" ELSE "NONE"]
          /\ submitted = [t \in Tickets |-> Old]
          /\ volume = [t \in Tickets |-> IF t \in old THEN 2 ELSE 0]
          /\ deals = {Deal(t, "in", Old, -Fee) : t \in old}
    /\ call = Idle /\ answer = NoAnswer

Next ==
    \/ \E row \in Callers : Ask(row)
    \/ AskFails \/ Answered \/ Forget
    \/ \E t \in Tickets :
          \/ Market(t)
          \/ answer = NoAnswer /\ (PlaceLimit(t) \/ RecordManualAdoption(t) \/ RecordClosed(t))
    \/ answer = NoAnswer /\ Tick

Spec == Init /\ [][Next]_vars

-----------------------------------------------------------------------------
(* Properties. *)

\* The last reset before the call, and the deals since then by their true time.
LastReset == CHOOSE b \in answer.asked.at - Day + 1 .. answer.asked.at : b % Day = ResetHour
Today == {d \in deals : d.pos \in Trusts(answer.asked.row) /\ d.at >= LastReset}

Concluded(what) == answer # NoAnswer /\ answer.of = what

\* Dealt at a server time beyond the dates asked for: the server's date is
\* already the next one.
Beyond(d) == ServerTime(d) > answer.asked.to

\* The bookkeeping keeps its types, no deal is ahead of the clock, and offsets
\* are whole quarters.
DealsTypeOK ==
    /\ now \in Start .. Horizon /\ skew \in Skews
    /\ type \in [Tickets -> {"none", "MARKET", "LIMIT", "EXTERNAL"}]
    /\ status \in [Tickets -> {"NONE", "OPEN", "CLOSED"}]
    /\ volume \in [Tickets -> 0 .. 2]
    /\ \A d \in deals : d.at <= now /\ d.pos \in Tickets /\ type[d.pos] # "none"
    /\ answer # NoAnswer => answer.asked.at <= now
    /\ answer # NoAnswer /\ answer.of # "failed" => answer.offset % Quarter = 0

\* With a MARKET order in the history, the offset infer_deal_time_offset()
\* finds is the server's, whatever the latencies and the other orders are.
OffsetIsExact ==
    answer # NoAnswer /\ answer.of # "failed" /\ answer.known => answer.offset = skew

\* What the daily limit is computed from is what was realized since the last
\* reset, except for deals beyond the dates asked for and, if the offset is
\* not known, deals closer to the reset than the server's clock is to UTC:
\* earlier ones are counted if it is ahead, later ones lost if it is behind.
MisdatedOnlyNearReset ==
    Concluded("limit") =>
        /\ \A d \in answer.counted \ Today : ~ answer.known /\ LastReset - skew <= d.at
        /\ \A d \in Today \ answer.counted :
              Beyond(d) \/ (~ answer.known /\ d.at < LastReset - skew)

\* The loop goes on after a loss that reaches max_daily_loss only if deals were
\* beyond the dates asked for or the offset was unknown; a call that fails
\* never lets it go on.
NoLossApproved ==
    answer # NoAnswer /\ answer.asked.row.concludes = "limit" /\ answer.approved
        => \/ ~ (Pnl(Today) < 0 /\ -Pnl(Today) >= MaxLoss)
           \/ \E d \in Today : Beyond(d)
           \/ skew # 0 /\ ~ answer.known

\* Closing deals since the record of t was written, or just before.
ClosedSince(t) == {d \in Outs(deals, t) : submitted[t] - Latency <= d.at}

\* A position the performance report does not have was last closed near a
\* midnight: if the server's clock is ahead of UTC, before the one that ends
\* the day of the report; if not, after the one the first trading day began
\* with.  What an adopted position had closed earlier makes no difference.
MissedOnlyNearMidnight ==
    Concluded("trades") =>
        LET first == Midnight(Min({submitted[r] : r \in answer.asked.closed}))
        IN  \A t \in answer.asked.closed \ answer.trades :
                Outs(deals, t) # {} =>
                    /\ ClosedSince(t) # {}
                    /\ \A d \in ClosedSince(t) :
                          \/ Midnight(answer.asked.at) + Day - skew < d.at
                          \/ skew <= 0 /\ d.at < first - skew

\* The evidence of a stop writes no position off of which something is left,
\* and none that never was.
EvidenceIsComplete ==
    \A t \in Tickets : Concluded("evidence") /\ t \in answer.explained => volume[t] = 0 /\ t \in Opened

\* What OffsetIsExact rests on: a position has one opening deal, that of a
\* MARKET order shortly before its record.  And EvidenceIsComplete: nothing is
\* left of a position closed as a whole.
AccountInv ==
    /\ submitted \in [Tickets -> Int] /\ \A t \in Tickets : submitted[t] >= Old
    /\ \A d \in deals : d.at \in Int /\ d.entry \in {"in", "out"}
    /\ \A t \in Tickets : \A d, e \in Ins(deals, t) : d = e
    /\ \A t \in Tickets : \A d \in Ins(deals, t) :
          type[t] = "MARKET" => submitted[t] - Latency <= d.at /\ d.at <= submitted[t]
    /\ \A t \in Tickets : volume[t] > 0 => t \in Opened
    /\ \A t \in Tickets : \A d \in Outs(deals, t) : d.whole => volume[t] = 0 /\ t \in Opened

\* A request keeps the dates it was made with; no record is written while it is
\* waiting, and none while its answer is worked on.
CallInv ==
    /\ call # Idle =>
          /\ call.row \in Callers /\ (call.row.concludes = "limit" => MaxLoss # NoLimit)
          /\ call.at \in Int /\ call.at <= now /\ call.to = FetchTo(call.at)
          /\ call.open \subseteq Tickets /\ call.closed \subseteq Tickets
          /\ call.row.from = "boundary" =>
                call.from = Midnight(DailyResetBoundary(call.at) - Day)
          /\ call.row.from = "earliest" =>
                /\ call.closed # {}
                /\ call.from = Midnight(Min({submitted[r] : r \in call.closed}))
    /\ answer # NoAnswer => call = Idle

\* What MissedOnlyNearMidnight rests on: a record is not ahead of the clock, and
\* is of a position that was still there, so one that is gone was closed since.
\* A record that was open or closed when the request was made has not vanished
\* or reopened.
ClosingInv ==
    /\ \A t \in Tickets : submitted[t] <= now
    /\ \A t \in Tickets :
          \/ status[t] = "CLOSED"
          \/ status[t] = "OPEN" /\ volume[t] = 0
          => (Outs(deals, t) # {} => ClosedSince(t) # {})
    /\ call # Idle => /\ \A t \in call.open : status[t] # "NONE"
                      /\ \A t \in call.closed : status[t] = "CLOSED"

BookInv == DealsTypeOK /\ AccountInv /\ CallInv

\* The inductive invariant.
HistoryInv == BookInv /\ ClosingInv

\* run_demo_execution_pipeline_loop.py, _compute_daily_loss_decision(): "Fetches
\* with a full-day margin on both ends of the true window so no real deal is
\* ever missed regardless of the mislabel's direction".
NoDealMissed ==
    Concluded("limit") => \A d \in Today : d.at <= answer.asked.at => ~ Beyond(d)

=============================================================================
