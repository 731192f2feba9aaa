SPECIFICATION Spec
CONSTANTS
    Bars <- ThreeBars
    Length = 5
    BarsCount = 2
    Interval = 2
    SpreadMultiplier = 1
    Gap = 4
    Tolerance = 10
    MinStep = 4
    StepMult = 1
    TpMult = 1
    SlMult = 2
    StopFraction = 20
    RunnerTp = 2
    RunnerSl = 1
    MaxProjected = 2
    MaxConcurrent = 1
    Center <- Midpoint
    Atr <- LastRange
    Macd <- Drift
    Trending <- IsTrending
INVARIANT NoLookAhead
CHECK_DEADLOCK FALSE
