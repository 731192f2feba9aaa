SPECIFICATION Spec
CONSTANTS
    Tickets = {t1, t2, t3}
    NoTicket = NoTicket
    Ops = {"LIMIT", "MARKET", "close", "reconcile"}
    Hazards = {"trader", "stops", "adopt"}
    Attempts = 2
SYMMETRY Symmetry
INVARIANTS
    ClosedIsClosed
PROPERTIES
    ClosedIsFinal
    StopsAreAccounted
