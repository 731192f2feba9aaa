--------------------------- MODULE PipelineLoop ---------------------------
(***************************************************************************)
(* The bounded autonomous loop (scripts/run_demo_execution_pipeline_loop,  *)
(* pipeline/loop_control.py) around the cycles of StrategyCycles.          *)
(*                                                                         *)
(* Every iteration asks the deal history once whether today's realized     *)
(* loss is over the limit, checks the reasons to stop, runs one cycle and  *)
(* then waits in polled steps, still with the answer from the top of the   *)
(* iteration.  A human creates and removes the stop file, interrupts and   *)
(* relaunches; losses are realized by the broker at any time.              *)
(***************************************************************************)
EXTENDS StrategyCycles

CONSTANTS
    MaxCycles,      \* LoopLimits.max_cycles
    MaxRuntime,     \* LoopLimits.max_runtime_seconds, in polling steps
    Interval        \* LoopLimits.cycle_interval_seconds, in polling steps

ASSUME LoopLimitsAssumption ==
    MaxCycles \in Nat /\ MaxRuntime \in Nat /\ Interval \in Nat \ {0}

VARIABLES
    lpc,            \* where main() is
    cycle_num,
    elapsed,        \* since start_time, up to MaxRuntime
    waited,         \* steps slept of the current wait
    stop_file,      \* STOP_FILE exists
    breach,         \* the deal history shows a loss over the limit
    approved,       \* daily_loss_decision.approved
    late_cycles     \* history: cycles begun since breach became true

loopVars  == <<lpc, cycle_num, elapsed, waited, approved>>
humanVars == <<stop_file, breach>>
vars == <<bookVars, cycleVars, loopVars, humanVars, late_cycles>>

LoopTypeOK ==
    /\ CycleTypeOK
    /\ lpc \in {"off", "top", "check", "cycle", "poll", "sleep"}
    /\ cycle_num \in 0 .. MaxCycles
    /\ elapsed \in 0 .. MaxRuntime
    /\ waited \in 0 .. Interval
    /\ lpc \in {"poll", "sleep"} => waited < Interval
    /\ stop_file \in BOOLEAN /\ breach \in BOOLEAN /\ approved \in BOOLEAN
    /\ late_cycles \in Nat

Init ==
    /\ CycleInit
    /\ lpc = "off" /\ cycle_num = 0 /\ elapsed = 0 /\ waited = 0
    /\ stop_file = FALSE /\ breach = FALSE /\ approved = TRUE
    /\ late_cycles = 0

-----------------------------------------------------------------------------

\* Mutant: the ceilings are forgotten.
ShouldStopByHumanOnly == stop_file \/ ~ approved

\* Mutant: the daily-loss decision is forgotten.
ShouldStopWithoutLoss == stop_file \/ cycle_num >= MaxCycles \/ elapsed >= MaxRuntime

\* should_stop() has a reason.
ShouldStop == \/ stop_file \/ ~ approved
              \/ cycle_num >= MaxCycles \/ elapsed >= MaxRuntime

\* main() starts: the clock runs, no cycle yet.
Launch ==
    /\ lpc = "off"
    /\ lpc' = "top" /\ cycle_num' = 0 /\ elapsed' = 0 /\ waited' = 0 /\ approved' = TRUE
    /\ ok' = TRUE /\ turns' = {}
    /\ UNCHANGED <<bookVars, pc, quote, open_seen, pending_seen, slips, humanVars, late_cycles>>

\* _daily_loss_decision_for_cycle(): a failing computation is a breach.
DailyLossDecision ==
    /\ lpc = "top"
    /\ approved' \in {~ breach, FALSE}
    /\ lpc' = "check"
    /\ UNCHANGED <<bookVars, cycleVars, cycle_num, elapsed, waited, humanVars, late_cycles>>

\* The top of the loop: stop, or begin a cycle.
Check ==
    /\ lpc = "check"
    /\ \/ /\ ShouldStop
          /\ lpc' = "off"
          /\ UNCHANGED <<pc, turns, ok, cycle_num, late_cycles>>
       \/ /\ ~ ShouldStop
          /\ cycle_num' = cycle_num + 1
          /\ lpc' = "cycle" /\ pc' = "g_data" /\ turns' = {} /\ ok' = TRUE
          /\ late_cycles' = IF breach THEN late_cycles + 1 ELSE late_cycles
    /\ UNCHANGED <<bookVars, quote, open_seen, pending_seen, slips,
                   elapsed, waited, approved, humanVars>>

\* A step of _run_one_cycle().
Cycle ==
    /\ lpc = "cycle"
    /\ CycleStep
    /\ UNCHANGED <<loopVars, humanVars, late_cycles>>

\* Any error ends the run.
AfterCycle == IF ok THEN "poll" ELSE "off"

\* Mutant: a cycle with an error is run again until it succeeds.
CycleEndsRetries ==
    /\ lpc = "cycle" /\ pc = "done" /\ ok' = TRUE
    /\ \/ ok /\ lpc' = "poll" /\ pc' = "idle" /\ UNCHANGED turns
       \/ ~ ok /\ pc' = "g_data" /\ turns' = {} /\ UNCHANGED lpc
    /\ waited' = 0
    /\ UNCHANGED <<bookVars, quote, open_seen, pending_seen, slips,
                   cycle_num, elapsed, approved, humanVars, late_cycles>>

CycleEnds ==
    /\ lpc = "cycle" /\ pc = "done"
    /\ lpc' = AfterCycle /\ pc' = "idle" /\ waited' = 0
    /\ UNCHANGED <<bookVars, quote, open_seen, pending_seen, slips, turns, ok,
                   cycle_num, elapsed, approved, humanVars, late_cycles>>

\* _wait_for_next_cycle(): check, then sleep one polling step.
Poll ==
    /\ lpc = "poll"
    /\ lpc' = IF ShouldStop THEN "off" ELSE "sleep"
    /\ UNCHANGED <<bookVars, cycleVars, cycle_num, elapsed, waited, approved,
                   humanVars, late_cycles>>

Advance == elapsed' = IF elapsed < MaxRuntime THEN elapsed + 1 ELSE elapsed

Sleep ==
    /\ lpc = "sleep"
    /\ waited' = waited + 1 /\ Advance
    /\ lpc' = IF waited + 1 < Interval THEN "poll" ELSE "top"
    /\ UNCHANGED <<bookVars, cycleVars, cycle_num, approved, humanVars, late_cycles>>

\* Time passes while main() waits for an answer.
Tick ==
    /\ lpc # "off" /\ elapsed < MaxRuntime /\ Advance
    /\ UNCHANGED <<bookVars, cycleVars, lpc, cycle_num, waited, approved,
                   humanVars, late_cycles>>

\* Ctrl+C or a crash, anywhere; an order in flight may still get placed.
Interrupt ==
    /\ lpc # "off" /\ lpc' = "off" /\ pc' = "idle"
    /\ \/ UNCHANGED bookVars
       \/ \E side \in Sides : pc = side /\ GridApproved(side) /\ GridPlace(side)
       \/ pc = "RUNNER" /\ RunnerApproved /\ PlaceMarket
    /\ UNCHANGED <<quote, open_seen, pending_seen, slips, turns, ok,
                   cycle_num, elapsed, waited, approved, humanVars, late_cycles>>

\* The human creates or removes the stop file.
StopFile ==
    /\ stop_file' = ~ stop_file
    /\ UNCHANGED <<bookVars, cycleVars, loopVars, breach, late_cycles>>

\* A close realizes a loss or a gain, or a new day begins.
RealizedPnl ==
    /\ breach' = ~ breach /\ late_cycles' = 0
    /\ UNCHANGED <<bookVars, cycleVars, loopVars, stop_file>>

AccountMoves == Account /\ UNCHANGED <<loopVars, humanVars, late_cycles>>

Main == DailyLossDecision \/ Check \/ Cycle \/ CycleEnds \/ Poll \/ Sleep

Next == \/ Main \/ Launch \/ Tick \/ Interrupt
        \/ StopFile \/ RealizedPnl \/ AccountMoves

Spec == Init /\ [][Next]_vars

\* main() takes its steps: every awaited call answers or raises, and sleeps end.
FairSpec == Spec /\ WF_vars(Main)

-----------------------------------------------------------------------------
(* Properties. *)

GridTotal == open["grid"] + Cardinality(pending)

\* The grid's standing exposure is bounded however many cycles and launches
\* there are.  The SELL side is checked with the lots read before the BUY side
\* was placed (one above the cap), and an order that fills between the reads
\* of the positions and of the orders is in neither (run_grid_cycle).
GridExposure == GridTotal <= MaxProjected + 1 + MaxSlips

\* The runner never holds more recorded positions than max_concurrent_positions,
\* even if its submission raised after the order was recorded or was interrupted
\* (check_position_limit on live positions with a record; those without one are
\* the subject of OrderExecutor).
RunnerLimit == open["runner"] <= MaxConcurrent

\* A side of the grid that raises takes no turn from the other side, and the
\* grid none from the runner (GridCycleError, _run_one_cycle).
TurnsAreIndependent ==
    pc = "done" => /\ "RUNNER" \in turns
                   /\ "BUY" \in turns <=> "SELL" \in turns

\* Once the loss over the limit is in the deal history, at most one more cycle
\* begins in that run: the one whose decision was already taken.  Relaunching
\* does not help while the loss stands (main, _daily_loss_decision_for_cycle).
KillSwitch == late_cycles <= 1

\* Every launch comes to its end: the ceilings stop the loop even if nobody
\* creates the stop file and no loss occurs.
LoopStops == lpc # "off" ~> lpc = "off"

-----------------------------------------------------------------------------
(* The inductive invariant behind the safety properties; proved in         *)
(* PipelineLoopProofs.                                                     *)

\* How far the grid's reads can be behind the account while it decides.
GridInv ==
    /\ IsFiniteSet(pending) /\ IsFiniteSet(pending_seen)
    /\ GridTotal <= MaxProjected + 1 + MaxSlips
    /\ pc = "g_orders" => open["grid"] <= open_seen + slips
    /\ pc = "BUY" => GridTotal <= open_seen + Cardinality(pending_seen) + slips
    /\ pc = "SELL" => GridTotal <= open_seen + Cardinality(pending_seen) + slips + 1

\* The runner has at most the positions it has read.
RunnerInv ==
    /\ open["runner"] <= MaxConcurrent
    /\ pc \in {"r_orders", "RUNNER"} => open["runner"] <= open_seen

\* An approval that has become stale belongs to the first cycle since the loss.
KillInv ==
    /\ late_cycles <= 1
    /\ lpc = "check" /\ breach /\ approved => late_cycles = 0

\* At each step of a cycle it is fixed whose turn it was: both sides of the
\* grid or neither, before the runner.
TurnInv ==
    /\ lpc # "cycle" => pc = "idle"
    /\ pc \in {"g_data", "g_positions", "g_orders", "BUY"} => turns = {}
    /\ pc = "SELL" => turns = {"BUY"}
    /\ pc \in {"r_data", "r_positions", "r_orders", "RUNNER"} => turns \in {{}, {"BUY", "SELL"}}
    /\ pc = "done" => turns \in {{"RUNNER"}, {"BUY", "SELL", "RUNNER"}}

\* Between two cycles no error is outstanding.
ErrorInv == lpc \in {"top", "check", "poll", "sleep"} => ok

LoopInv == LoopTypeOK /\ GridInv /\ RunnerInv /\ KillInv /\ TurnInv /\ ErrorInv

=============================================================================
