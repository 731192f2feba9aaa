--------------------------- MODULE MCDealHistory ---------------------------
(* Instances of DealHistory for TLC: a day of 12 ticks, a quarter of 3.  The
   period starts before a midnight and goes past it. *)
EXTENDS DealHistory, TLC

LoopOnly    == {ComputeDailyLossDecision}
SomeSkews   == {-3, 3}
LongAgo     == -20
Symmetry    == Permutations(Tickets)
LossOrGain  == {-2, 1}
=============================================================================
