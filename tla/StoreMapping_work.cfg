SPECIFICATION StoreSpec
CONSTANTS
    Store = {s1, s2}
    Poi = {p1, p2}
    User = {c1, c2}
    Generator = {w1, w2}
    MaxStores = 2
    RequestBudget = 5
    RunBudget = 2
INVARIANTS StoreTypeOK OneActiveMapping EveryEditCounts
PROPERTY DismissalIsKept
CHECK_DEADLOCK FALSE
