SPECIFICATION Spec
CONSTANTS
    Tickets = {t1, t2}
    NoTicket = NoTicket
    Ops = {"LIMIT"}
    Hazards = {"trader"}
    Attempts = 2
SYMMETRY Symmetry
INVARIANTS
    RefusesWhileUnattributed
