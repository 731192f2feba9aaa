---------------------------- MODULE MCHistories ----------------------------
(* Bars and indicators for the TLC instances of Backtest and LookAhead. *)
EXTENDS Integers, Sequences

Bar(low, high, close, spread) ==
    [low |-> low, high |-> high, close |-> close, spread |-> spread]

\* Quiet, rising, falling, one that reaches everything, a gap above the rest.
FiveBars == {Bar(98, 102, 100, 1), Bar(100, 116, 113, 1), Bar(84, 100, 87, 1),
             Bar(60, 140, 100, 2), Bar(120, 130, 125, 1)}
ThreeBars == {Bar(98, 102, 100, 1), Bar(84, 100, 87, 1), Bar(60, 140, 113, 1)}

\* Indicators of a window: any function of what is visible will do.
Midpoint(w)   == (w[1].close + w[Len(w)].close) \div 2
LastRange(w)  == IF w[1] = w[Len(w)] THEN 0 ELSE (w[Len(w)].high - w[Len(w)].low) \div 4
Drift(w)      == w[Len(w)].close - w[1].close
IsTrending(w) == Drift(w) >= 25
=============================================================================
