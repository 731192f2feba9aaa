----------------------------- MODULE LookAhead -----------------------------
(***************************************************************************)
(* Two replays side by side, of two histories that may differ from some    *)
(* bar on.  engine.py calls it its most important property that nothing in *)
(* a replay depends on bars after the current one.  No single replay can   *)
(* show that; two of them can: as long as the histories agree, so do the   *)
(* ledgers.                                                                *)
(***************************************************************************)
EXTENDS Integers, Sequences

CONSTANTS
    Bars, Length, BarsCount, Interval, SpreadMultiplier, Gap, Tolerance,
    MinStep, StepMult, TpMult, SlMult, StopFraction, RunnerTp, RunnerSl,
    MaxProjected, MaxConcurrent, Center(_), Atr(_), Macd(_), Trending(_)

\* run_backtest() raises on a history shorter than the window.
ASSUME SizeAssumption == Length \in Nat /\ BarsCount \in 1 .. Length

VARIABLES
    bars, pending, open, closed, next_ticket,       \* one replay
    bars2, pending2, open2, closed2, next_ticket2,  \* the other one
    index, pc                                       \* both are at the same bar

One == INSTANCE Backtest
Two == INSTANCE Backtest WITH bars <- bars2, pending <- pending2, open <- open2,
                              closed <- closed2, next_ticket <- next_ticket2

vars == <<One!vars, Two!vars>>

Init == One!Init /\ Two!Init

\* run_backtest() takes the same steps for every history of the same length.
Next ==
    \/ One!CheckFillsAndExits /\ Two!CheckFillsAndExits
    \/ One!GridCycle /\ Two!GridCycle
    \/ One!RunnerCycle /\ Two!RunnerCycle

Spec == Init /\ [][Next]_vars

\* While the histories agree up to the current bar, the ledgers are the same:
\* no order, fill or exit is due to a bar the replay has not reached
\* (ReplayCursor.visible_bars, "the look-ahead-bias control point").
NoLookAhead ==
    (\A k \in 1 .. index : bars[k] = bars2[k])
        => <<pending, open, closed, next_ticket>> = <<pending2, open2, closed2, next_ticket2>>

=============================================================================
