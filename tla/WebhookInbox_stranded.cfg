SPECIFICATION FairSpec
CONSTANTS
    NumberOfEvents = 1
    Event <- MCEvent
    Delivery = {d1}
    Worker = {w1, w2}
    Admin = {a1}
    NoWorker = NoWorker
    NoEvent = NoEvent
    Limit = 2
    CrashBudget = 1
    StallBudget = 0
    RetryBudget = 2
PROPERTIES EveryEventSettles
CHECK_DEADLOCK FALSE
