-------------------------- MODULE MCPipelineLoop --------------------------
(* An instance of PipelineLoop for TLC: prices in points. *)
EXTENDS PipelineLoop

OneCenter == {100}
MarketBid == {100}
=============================================================================
