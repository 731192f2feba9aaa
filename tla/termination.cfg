SPECIFICATION FairSpec
CONSTANTS
    Tickets = {t1, t2}
    NoTicket = NoTicket
    Ops = {"LIMIT", "MARKET", "cancel", "close", "reconcile"}
    Hazards = {"trader", "stops", "adopt"}
    Attempts = 3
PROPERTIES
    OperationEnds
    BookIsKept
