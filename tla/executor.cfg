SPECIFICATION Spec
CONSTANTS
    Tickets = {t1, t2}
    NoTicket = NoTicket
    Ops = {"LIMIT", "MARKET", "cancel", "close"}
    Hazards = {"trader", "stops", "late", "files", "adopt"}
    Attempts = 2
SYMMETRY Symmetry
INVARIANTS
    IndInv
    NoBlindSubmit
    NoBlindManagement
    OpenIsProtected
    RecordedBeforeProtected
    CancelledNeverFilled
