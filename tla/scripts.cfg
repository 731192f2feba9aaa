SPECIFICATION ScriptSpec
CONSTANTS
    Tickets = {t1, t2}
    NoTicket = NoTicket
    Ops = {"LIMIT", "MARKET", "cancel", "close"}
    Hazards = {"trader", "stops", "files"}
    Attempts = 1
    Scripts <- AllScripts
SYMMETRY Symmetry
INVARIANTS
    ScriptInv
    ClosedNeedsDeal
    PassedIsGone
PROPERTIES
    SparesLive
CHECK_DEADLOCK FALSE
