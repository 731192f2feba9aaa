--------------------------- MODULE MCExitGuard ----------------------------
(* An instance of ExitGuard for TLC. *)
EXTENDS ExitGuard
=============================================================================
