----------------------------- MODULE MCSession -----------------------------
(* An instance of Session for TLC: the smoke test or any other entry point *)
(* beside one more program.                                                *)
EXTENDS Session

AllRows == {PipelineCycle, RetrySltp, HistoricalDataProbe, MagicFilterFixVerification,
            XauusdSymbolResearch, HistoricalDataCacheSeed, Experiment4CacheSeed,
            XauusdCacheSeed, LiveDryRunPipeline, VerifyMcpAdapters, Phase3Verification,
            McpDisconnectSmokeTest, OtherTool}
=============================================================================
