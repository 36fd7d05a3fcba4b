SPECIFICATION FairSpec
CONSTANTS
    Client = {c1}
    Worker = {w1}
    Stock = {0, 1, 2}
    Initial = 1
    UpdateBudget = 3
    FaultBudget = 2
INVARIANTS TypeOK NewestWins
PROPERTIES Converges
CHECK_DEADLOCK FALSE
