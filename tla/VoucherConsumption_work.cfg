SPECIFICATION Spec
CONSTANTS
    Store = {s1, s2}
    Silent = FALSE
    Delayed = TRUE
    Worker = {w1, w2}
    Sync = {y1}
    RequestBudget = 3
    FaultBudget = 2
SYMMETRY Symmetry
INVARIANTS TypeOK MirrorIsTrue ConsumedAtOneStore
CHECK_DEADLOCK FALSE
