-------------------------- MODULE MCOrderExecutor --------------------------
(* Instances of OrderExecutor for TLC. *)
EXTENDS OrderExecutor, TLC

Symmetry == Permutations(Tickets)
=============================================================================
