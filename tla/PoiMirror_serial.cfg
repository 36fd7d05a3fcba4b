SPECIFICATION PoiSpec
CONSTANTS
    Place = {p1, p2}
    Slot = {w1}
    TicketBound = 3
    CommandBudget = 4
    LossBudget = 1
    RerunBudget = 1
INVARIANTS PoiTypeOK MirrorsTheList ApplicationsAreCarriedOver
CHECK_DEADLOCK FALSE
