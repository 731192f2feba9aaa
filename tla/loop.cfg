SPECIFICATION FairSpec
CONSTANTS
    Centers <- OneCenter
    Bids <- MarketBid
    Step = 10
    Spread = 1
    Gap = 2
    Tolerance = 5
    MaxProjected = 2
    MaxConcurrent = 1
    OrderIds = {1, 2, 3}
    MaxSlips = 1
    RegimeFilter = TRUE
    Runner = TRUE
    MaxCycles = 2
    MaxRuntime = 3
    Interval = 2
INVARIANTS LoopInv GridExposure RunnerLimit TurnsAreIndependent KillSwitch
PROPERTIES LoopStops
