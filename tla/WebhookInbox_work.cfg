SPECIFICATION FairSpec
CONSTANTS
    NumberOfEvents = 1
    Event <- MCEvent
    Delivery = {d1, d2}
    Worker = {w1, w2}
    Admin = {a1}
    NoWorker = NoWorker
    NoEvent = NoEvent
    Limit = 2
    CrashBudget = 1
    StallBudget = 1
    RetryBudget = 1
INVARIANTS TypeOK OnceOnly NoEventIsLost
PROPERTIES EveryEventSettles
CHECK_DEADLOCK FALSE
