------------------------- MODULE MCOperatorScripts -------------------------
(* Instances of OperatorScripts for TLC. *)
EXTENDS OperatorScripts, TLC

Symmetry == Permutations(Tickets)
=============================================================================
