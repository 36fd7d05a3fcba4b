SPECIFICATION Spec
CONSTANTS
    Client = {c1}
    Worker = {w1, w2}
    Origin = {"pending_create", "listed"}
    OperationBudget = 3
    EventBudget = 3
    FaultBudget = 2
    RetryBudget = 2
INVARIANTS TypeOK SettledIsTrue
PROPERTY IntentIsCurrent
CHECK_DEADLOCK FALSE
