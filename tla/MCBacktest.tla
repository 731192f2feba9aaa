---------------------------- MODULE MCBacktest ----------------------------
(* An instance of Backtest for TLC. *)
EXTENDS Backtest, MCHistories
=============================================================================
