SPECIFICATION Spec
CONSTANTS
    Programs = {p1, p2}
    Tester = p1
    Rows <- AllRows
    Layers = 1
    MaxDeaths = 2
INVARIANTS
    SessionTypeOK
    TradesAreForDemo
    ProofIsHarmless
    KillsOnlyOwn
    TreeIsGone
CHECK_DEADLOCK FALSE
