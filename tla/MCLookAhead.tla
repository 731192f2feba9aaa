--------------------------- MODULE MCLookAhead ----------------------------
(* An instance of LookAhead for TLC. *)
EXTENDS LookAhead, MCHistories
=============================================================================
