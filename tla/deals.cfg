SPECIFICATION Spec
CONSTANTS
    Tickets = {t1, t2}
    Callers <- AllCallers
    Day = 12
    Quarter = 3
    Skews <- SomeSkews
    Latency = 1
    ResetHour = 1
    MaxLoss = 2
    NoLimit = NoLimit
    Amounts <- LossOrGain
    Fee = 1
    Start = 11
    Horizon = 13
    Old <- LongAgo
    MaxDeals = 2
INVARIANTS HistoryInv OffsetIsExact MisdatedOnlyNearReset NoLossApproved MissedOnlyNearMidnight EvidenceIsComplete
SYMMETRY Symmetry
CHECK_DEADLOCK FALSE
