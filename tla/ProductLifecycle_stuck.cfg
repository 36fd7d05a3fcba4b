SPECIFICATION Spec
CONSTANTS
    Client = {c1}
    Worker = {w1}
    Origin = {"pending_create"}
    OperationBudget = 1
    EventBudget = 2
    FaultBudget = 0
    RetryBudget = 0
INVARIANT Operable
CHECK_DEADLOCK FALSE
